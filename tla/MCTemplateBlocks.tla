-------------------------- MODULE MCTemplateBlocks --------------------------
(* Small instances of TemplateBlocks. *)
EXTENDS TemplateOrder

CONSTANTS alice, root

\* alice owns every row but the private rows of root.
CONSTANT PrivateRows
MCTemplateOwner == [t \in Templates |-> IF t \in PrivateRows THEN root ELSE alice]
MCBlockOwner == [b \in Blocks |-> IF b \in PrivateRows THEN root ELSE alice]

AnyTemplate == CHOOSE t \in Templates : TRUE
AnyBlock == CHOOSE b \in Blocks : TRUE

Call(op, u, t, b, p) ==
  [op |-> op, user |-> u, template |-> t, block |-> b, position |-> p]

\* The reorderings of one user: append, insert at 1 and 2, every move, every
\* removal, and a position that is out of range.
Reorderings ==
  {Call("add", alice, t, b, p) : t \in Templates, b \in Blocks, p \in 0..2}
  \cup {Call("move", alice, t, b, p) :
          t \in Templates, b \in Blocks, p \in 0..Cardinality(Blocks)}
  \cup {Call("remove", alice, t, b, 0) : t \in Templates, b \in Blocks}

\* Attachments and deletions of blocks by every user; removals, deletions of
\* templates and reads by alice, who does not own all of them.
Lifecycles ==
  {Call("add", u, t, b, 1) : u \in Users, t \in Templates, b \in Blocks}
  \cup {Call("deleteBlock", u, AnyTemplate, b, 0) : u \in Users, b \in Blocks}
  \cup {Call("remove", alice, t, b, 0) : t \in Templates, b \in Blocks}
  \cup {Call(op, alice, t, AnyBlock, 0) :
          op \in {"deleteTemplate", "read"}, t \in Templates}

Everything == Reorderings \cup Lifecycles

BlockSymmetry == Permutations(Requests) \cup Permutations(Blocks)
RequestSymmetry == Permutations(Requests)

=============================================================================
