---------------------------- MODULE TemplateOrder ----------------------------
(***************************************************************************)
(* The order of a template's blocks: TemplateBlocks against the abstract   *)
(* OrderedTemplates.                                                       *)
(***************************************************************************)
EXTENDS TemplateBlocks, SequencesExt

\* Mutant of Sorted: in the order in which they were attached.
SortedById(rows) == SetToSortSeq(rows, LAMBDA l, m : l.id < m.id)

\* sorted(template.blocks, key=lambda item: item.position)
Sorted(rows) ==
  [i \in 1..Cardinality(rows) |-> CHOOSE l \in rows : Index(rows, l) = i]

\* dump_template_blocks: blocks by position.
OrderOf(t) ==
  LET rows == Sorted(LinksOf(t)) IN [i \in DOMAIN rows |-> rows[i].block]

Ordered == INSTANCE OrderedTemplates
             WITH order <- [t \in Templates |-> OrderOf(t)]

\* With one worker the routes implement OrderedTemplates: each request is one
\* insert, move, removal or deletion, or nothing.
RefinesOrdered == Ordered!Spec

\* With any number of workers, a commit that writes on the rows it read does
\* exactly what the client asked: it inserts the block at the wanted position,
\* moves it there, or removes it, and keeps the order of all other blocks.
FreshCommitsAreAtomic ==
  [][\A r \in Requests :
       LET c == call[r]
           t == c.template
       IN Commits(r) /\ Fresh(r) =>
          CASE c.op = "add" ->
                 Contiguous(t)
                   => Ordered!Insert(t, c.block, ClampedPosition(c, LinksOf(t)))
            [] c.op = "move"   -> Ordered!Move(t, c.block, c.position)
            [] c.op = "remove" -> Ordered!Detach(t, c.block)
            [] OTHER -> TRUE]_vars

\* The request is to change the rows of its template, and has not done so yet.
Editing(r) ==
  /\ pc[r] \notin {"idle", "committed"}
  /\ call[r].op \in {"add", "move", "remove", "deleteTemplate"}

\* No two requests edit one template at a time, as with a single worker or behind
\* a lock on the template, which the code does not take.
OneEditorPerTemplate ==
  \A q, r \in Requests :
    q # r /\ Editing(q) /\ Editing(r) => call[q].template # call[r].template

\* What an editor read is then what is stored until it writes, and what it writes
\* leaves the positions 1..n.
OrderInv ==
  /\ PositionsContiguous
  /\ \A r \in Requests : Editing(r) =>
       /\ pc[r] = "links" => call[r].template \in templates
       /\ pc[r] \in {"blocks", "block", "write"} => Fresh(r)

=============================================================================
