------------------------------ MODULE MCCompose ------------------------------
(* A small instance of Compose: a client that is alone. *)
EXTENDS MCTemplateBlocks, Compose

\* Blocks with a placeholder, dynamic ones without; the others are static.
CONSTANTS Slotted, Whole

MCDynamic == Slotted \cup Whole
MCContent ==
  [b \in Blocks |-> CASE b \in Slotted -> <<Slot, b, Slot>>
                      [] b \in Whole   -> <<b>>
                      [] OTHER         -> <<b, Slot>>]

MCIds == Blocks \cup {"unknown"}
MCPiece == Blocks \cup {Slot, "x", "y"}

\* Up to two contents, of the same block or of two or of none, one with a
\* placeholder in it.
Sent == [id : MCIds, content : {<<"x">>, <<"y", Slot>>}]
MCSupplies == {<<>>} \cup {<<d>> : d \in Sent} \cup {<<d, e>> : d, e \in Sent}

=============================================================================
