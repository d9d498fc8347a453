-------------------------- MODULE OrderedTemplates --------------------------
(***************************************************************************)
(* What the template routes promise to a client that is alone: a template  *)
(* is a sequence of distinct blocks; add inserts at a position or appends, *)
(* set-block-position moves, delete-block removes, and nothing else        *)
(* changes the order.                                                      *)
(***************************************************************************)
EXTENDS Naturals, SequencesExt

CONSTANTS Templates, Blocks

VARIABLES templates, blocks, order

vars == <<templates, blocks, order>>

Init ==
  /\ templates = Templates
  /\ blocks = Blocks
  /\ order = [t \in Templates |-> <<>>]

\* The places of b in t: one, or none.
Places(t, b) == {i \in DOMAIN order[t] : order[t][i] = b}
Has(t, b) == Places(t, b) # {}

Insert(t, b, i) ==
  /\ t \in templates /\ b \in blocks /\ ~Has(t, b)
  /\ i \in 1..(Len(order[t]) + 1)
  /\ order' = [order EXCEPT ![t] = InsertAt(@, i, b)]
  /\ UNCHANGED <<templates, blocks>>

Move(t, b, i) ==
  /\ i \in 1..Len(order[t])
  /\ \E j \in Places(t, b) :
       order' = [order EXCEPT ![t] = InsertAt(RemoveAt(@, j), i, b)]
  /\ UNCHANGED <<templates, blocks>>

Detach(t, b) ==
  /\ \E j \in Places(t, b) :
       order' = [order EXCEPT ![t] = RemoveAt(@, j)]
  /\ UNCHANGED <<templates, blocks>>

DeleteTemplate(t) ==
  /\ t \in templates
  /\ templates' = templates \ {t}
  /\ order' = [order EXCEPT ![t] = <<>>]
  /\ UNCHANGED blocks

DeleteBlock(b) ==
  /\ b \in blocks
  /\ \A t \in Templates : ~Has(t, b)
  /\ blocks' = blocks \ {b}
  /\ UNCHANGED <<templates, order>>

Next ==
  \/ \E t \in Templates, b \in Blocks :
       \/ Detach(t, b)
       \/ \E i \in 1..(Len(order[t]) + 1) : Insert(t, b, i) \/ Move(t, b, i)
  \/ \E t \in Templates : DeleteTemplate(t)
  \/ \E b \in Blocks : DeleteBlock(b)

Spec == Init /\ [][Next]_vars

=============================================================================
