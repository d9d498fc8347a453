----------------------------- MODULE Membership -----------------------------
(***************************************************************************)
(* What the template routes promise about WHICH blocks a template has, for *)
(* any number of concurrent requests: a block is attached or detached in   *)
(* one atomic step, a template goes away together with its attachments,    *)
(* and a block goes away only when no template has it.                     *)
(***************************************************************************)
CONSTANTS Templates, Blocks

VARIABLES templates, blocks, members

vars == <<templates, blocks, members>>

Init ==
  /\ templates = Templates
  /\ blocks = Blocks
  /\ members = [t \in Templates |-> {}]

Attach(t, b) ==
  /\ t \in templates /\ b \in blocks /\ b \notin members[t]
  /\ members' = [members EXCEPT ![t] = @ \cup {b}]
  /\ UNCHANGED <<templates, blocks>>

Detach(t, b) ==
  /\ b \in members[t]
  /\ members' = [members EXCEPT ![t] = @ \ {b}]
  /\ UNCHANGED <<templates, blocks>>

DeleteTemplate(t) ==
  /\ t \in templates
  /\ templates' = templates \ {t}
  /\ members' = [members EXCEPT ![t] = {}]
  /\ UNCHANGED blocks

DeleteBlock(b) ==
  /\ b \in blocks
  /\ \A t \in Templates : b \notin members[t]
  /\ blocks' = blocks \ {b}
  /\ UNCHANGED <<templates, members>>

Next ==
  \/ \E t \in Templates, b \in Blocks : Attach(t, b) \/ Detach(t, b)
  \/ \E t \in Templates : DeleteTemplate(t)
  \/ \E b \in Blocks : DeleteBlock(b)

Spec == Init /\ [][Next]_vars

=============================================================================
