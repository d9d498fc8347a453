------------------------------- MODULE Compose -------------------------------
(***************************************************************************)
(* What a template says: compose_prompt_content of controllers/prompts.py  *)
(* turns the rows of a template into the contents of the prompt.           *)
(*                                                                         *)
(* A content is a sequence of pieces, one of which may be the placeholder; *)
(* a prompt is the sequence of contents that "\n\n" joins.                 *)
(***************************************************************************)
EXTENDS TemplateOrder

CONSTANTS
  Dynamic,   \* blocks stored with is_dynamic = TRUE
  Ids,       \* what clients take for the id of a block
  Piece,     \* what contents are made of
  Content,   \* the content of each block
  Slot,      \* DYNAMIC_CONTENT_PLACEHOLDER
  Supplies   \* the lists of DynamicBlock that clients send

\* DynamicBlock: a content has min_length 1; any id may come more than once.
DynamicBlock == [id : Ids, content : Seq(Piece) \ {<<>>}]

ASSUME ComposeAssumption ==
  /\ Dynamic \subseteq Blocks /\ Blocks \subseteq Ids
  /\ Content \in [Blocks -> Seq(Piece)]
  /\ Supplies \subseteq Seq(DynamicBlock)

\* {item.id: item.content for item in dynamic_content}: the last one counts.
\* Mutant of ById: the first one counts.
FirstById(s) ==
  [b \in {s[i].id : i \in DOMAIN s} |->
     s[SelectInSeq(s, LAMBDA d : d.id = b)].content]

ById(s) ==
  [b \in {s[i].id : i \in DOMAIN s} |->
     s[SelectLastInSeq(s, LAMBDA d : d.id = b)].content]

\* render_dynamic_block_content: without a placeholder the whole block is
\* replaced; what takes the place of one is not searched again.
Rendered(content, user) ==
  IF \A i \in DOMAIN content : content[i] # Slot
  THEN user
  ELSE FlattenSeq([i \in DOMAIN content |->
                     IF content[i] = Slot THEN user ELSE <<content[i]>>])

\* The prompt, or the first block that lacks its content (400).
ComposePrompt(rows, s) ==
  LET order == Sorted(rows)
      given == ById(s)
      Lacks(l) == l.block \in Dynamic \ DOMAIN given
      missing == SelectInSeq(order, Lacks)
  IN IF missing # 0 THEN [lacks |-> order[missing].block]
     ELSE [prompt |-> [i \in DOMAIN order |->
             LET b == order[i].block
             IN IF b \in Dynamic THEN Rendered(Content[b], given[b]) ELSE Content[b]]]

-----------------------------------------------------------------------------
(* Properties. *)

\* The content a client sent for b and the server goes by.
LastFor(b, s) ==
  {s[i].content : i \in {j \in DOMAIN s : s[j].id = b /\ \A k \in DOMAIN s :
                                             k > j => s[k].id # b}}
Pieces(seq) == {seq[i] : i \in DOMAIN seq}

\* A client that is alone gets, after any attachments, moves and removals, the
\* prompt in which the block at position i says the i-th thing: a static block its
\* own text, placeholder included; a dynamic one what was last sent for it, with
\* its own pieces around it if it has a placeholder, and never a placeholder of its own;
\* or 400 for the lowest position that nothing was sent for.
PromptFollowsPositions ==
  \A t \in templates, s \in Supplies :
    LET rows == LinksOf(t)
        answer == ComposePrompt(rows, s)
        lacking == {l.position : l \in {m \in rows : m.block \in Dynamic
                                                    /\ LastFor(m.block, s) = {}}}
    IN IF lacking # {}
       THEN \E l \in rows : /\ answer = [lacks |-> l.block]
                            /\ \A p \in lacking : l.position \in lacking /\ l.position <= p
       ELSE /\ Len(answer.prompt) = Cardinality(rows)
            /\ \A l \in rows :
                 LET own == Content[l.block]
                     said == answer.prompt[l.position]
                 IN IF l.block \notin Dynamic THEN said = own
                    ELSE \A user \in LastFor(l.block, s) :
                           IF Slot \notin Pieces(own) THEN said = user
                           ELSE Pieces(said) = (Pieces(own) \ {Slot}) \cup Pieces(user)

=============================================================================
