--------------------------- MODULE TemplateBlocks ---------------------------
(***************************************************************************)
(* The ordered blocks of prompt templates, as the routes of                *)
(* app/routes/prompt_templates.py and controllers/prompts.py change them.  *)
(*                                                                         *)
(* Every request runs in a worker thread with its own database session.    *)
(* PostgreSQL runs at READ COMMITTED, so each SELECT sees what is          *)
(* committed when it starts, and a request that reads, decides and writes  *)
(* decides on rows that may be gone by the time it writes.  A SELECT is    *)
(* one action here.  The write phase (flushes and commit) is one action:   *)
(* its statements take row locks, unique-index waits and foreign-key       *)
(* locks that are held until the commit, so committed write phases are     *)
(* serializable in commit order, and one that fails leaves nothing.        *)
(***************************************************************************)
EXTENDS Integers, FiniteSets

CONSTANTS
  Templates,        \* ids of prompt_templates rows
  Blocks,           \* ids of prompt_blocks rows
  Users,            \* principals that hold the writer role
  Superusers,       \* those with is_superuser set
  TemplateOwner,    \* owner_id of each template: no handler ever changes it
  BlockOwner,       \* owner_id of each block
  PublicTemplates,  \* templates stored with is_public = TRUE
  Requests,         \* worker threads, each serving one request at a time
  Calls,            \* the calls clients may make
  NoCall,           \* what an idle worker is asked
  MaxLinkId         \* bound: how many link rows are ever inserted

Ops == {"add", "move", "remove", "deleteTemplate", "deleteBlock", "read"}

CallType == [op : Ops, user : Users, template : Templates,
             block : Blocks, position : Int]

ASSUME UsersAssumption ==
  /\ Superusers \subseteq Users
  /\ TemplateOwner \in [Templates -> Users]
  /\ BlockOwner \in [Blocks -> Users]
  /\ PublicTemplates \subseteq Templates
ASSUME CallsAssumption == Calls \subseteq CallType /\ NoCall \notin CallType
ASSUME BoundAssumption == MaxLinkId \in Nat

VARIABLES
  templates,  \* live prompt_templates rows
  blocks,     \* live prompt_blocks rows
  links,      \* live template_blocks rows
  nextId,     \* the sequence behind template_blocks.id
  pc,         \* where each request is
  call,       \* what each request was asked
  seen,       \* link rows the request's session loaded
  held,       \* block rows the request's session loaded
  reply       \* the answer to the request last served

db   == <<templates, blocks, links, nextId>>
vars == <<templates, blocks, links, nextId, pc, call, seen, held, reply>>

LinkIds == 1..MaxLinkId
LinkRow == [id : LinkIds, template : Templates, block : Blocks, position : Int]

\* "error" is whatever fastapi_m8's handle_exception answers.
Replies == {"none", "ok", "400", "403", "404", "409", "error"}
PCs == {"idle", "template", "links", "blocks", "block", "usage", "write",
        "committed"}

TypeOK ==
  /\ templates \subseteq Templates
  /\ blocks \subseteq Blocks
  /\ links \subseteq LinkRow
  /\ nextId \in 1..(MaxLinkId + 1)
  /\ pc \in [Requests -> PCs]
  /\ call \in [Requests -> Calls \cup {NoCall}]
  /\ \A r \in Requests : pc[r] # "idle" => call[r] \in Calls
  /\ seen \in [Requests -> SUBSET LinkRow]
  /\ held \in [Requests -> SUBSET Blocks]
  /\ reply \in [Requests -> Replies]

-----------------------------------------------------------------------------
(* Rows and the constraints PostgreSQL enforces on them. *)

LinksOf(t) == {l \in links : l.template = t}
IdsOf(rows) == {l.id : l \in rows}
BlocksOf(rows) == {l.block : l \in rows}

\* The 1-based place of l when rows are sorted by position.
Index(rows, l) == Cardinality({m \in rows : m.position <= l.position})

\* rows after "UPDATE ... SET position = pos[id]" for the ids in S.
Updated(rows, pos, S) ==
  {IF l.id \in S THEN [l EXCEPT !.position = pos[l.id]] ELSE l : l \in rows}

\* Mutant of PositionTaken: the migration forgets uq_template_position.
PositionNeverTaken(rows, l) == FALSE

\* uq_template_position, checked by each statement as it runs.
PositionTaken(rows, l) ==
  \E m \in rows : /\ m.id # l.id
                  /\ m.template = l.template
                  /\ m.position = l.position

\* A flush emits one UPDATE for each changed row, in ascending order[id].  It
\* fails when a row is gone (StaleDataError) or when a statement runs into
\* uq_template_position (IntegrityError).
FlushFails(rows, pos, order) ==
  \/ ~(DOMAIN pos \subseteq IdsOf(rows))
  \/ \E i \in DOMAIN pos :
       LET done == Updated(rows, pos, {j \in DOMAIN pos : order[j] <= order[i]})
       IN \E l \in done : l.id = i /\ PositionTaken(done, l)

Flushed(rows, pos) == Updated(rows, pos, DOMAIN pos)

\* The unit of work sorts the dirty rows of one flush by primary key.
PrimaryKeyOrder(pos) == [i \in DOMAIN pos |-> i]

\* Mutants of InsertFails: no uq_template_block; no foreign key to prompt_blocks.
InsertsBlockTwice(rows, l) ==
  \/ nextId > MaxLinkId
  \/ PositionTaken(rows, l)
  \/ l.template \notin templates
  \/ l.block \notin blocks
InsertsDangling(rows, l) ==
  \/ nextId > MaxLinkId
  \/ PositionTaken(rows, l)
  \/ \E m \in rows : m.template = l.template /\ m.block = l.block
  \/ l.template \notin templates

\* uq_template_block, the foreign keys and the sequence, checked by an INSERT.
InsertFails(rows, l) ==
  \/ nextId > MaxLinkId
  \/ PositionTaken(rows, l)
  \/ \E m \in rows : m.template = l.template /\ m.block = l.block
  \/ l.template \notin templates
  \/ l.block \notin blocks

-----------------------------------------------------------------------------
(* Controller checks. *)

IsOwner(u, owner) == u \in Superusers \/ owner = u

IsVisible(c) ==
  \/ IsOwner(c.user, TemplateOwner[c.template])
  \/ c.template \in PublicTemplates

\* Mutants of ClampedPosition: one bound is not checked.
ClampedAbove(c, rows) ==
  LET n == Cardinality(rows) IN IF c.position > n + 1 THEN n + 1 ELSE c.position
ClampedBelow(c, rows) ==
  IF c.position <= 0 THEN Cardinality(rows) + 1 ELSE c.position

\* A position outside 1..n+1 means "append".
ClampedPosition(c, rows) ==
  LET n == Cardinality(rows)
  IN IF c.position <= 0 \/ c.position > n + 1 THEN n + 1 ELSE c.position

-----------------------------------------------------------------------------
(* Requests. *)

Init ==
  /\ templates = Templates
  /\ blocks = Blocks
  /\ links = {}
  /\ nextId = 1
  /\ pc = [r \in Requests |-> "idle"]
  /\ call = [r \in Requests |-> NoCall]
  /\ seen = [r \in Requests |-> {}]
  /\ held = [r \in Requests |-> {}]
  /\ reply = [r \in Requests |-> "none"]

Goto(r, place) == pc' = [pc EXCEPT ![r] = place]

\* Mutant of Answer: the handler goes on after its session is closed.
AnsweredWithoutReturn(r, status) ==
  /\ reply' = [reply EXCEPT ![r] = status]
  /\ call' = [call EXCEPT ![r] = NoCall]
  /\ seen' = [seen EXCEPT ![r] = {}]
  /\ held' = [held EXCEPT ![r] = {}]
  /\ UNCHANGED pc

\* The session is closed and everything it loaded is forgotten.
Answer(r, status) ==
  /\ Goto(r, "idle")
  /\ reply' = [reply EXCEPT ![r] = status]
  /\ call' = [call EXCEPT ![r] = NoCall]
  /\ seen' = [seen EXCEPT ![r] = {}]
  /\ held' = [held EXCEPT ![r] = {}]

Begin(r) ==
  /\ pc[r] = "idle"
  /\ \E c \in Calls :
       /\ call' = [call EXCEPT ![r] = c]
       /\ Goto(r, IF c.op = "deleteBlock" THEN "block" ELSE "template")
  /\ reply' = [reply EXCEPT ![r] = "none"]
  /\ UNCHANGED <<db, seen, held>>

\* _load_template, first SELECT: the template row.
SelectTemplate(r) ==
  /\ pc[r] = "template"
  /\ IF call[r].template \in templates
     THEN /\ Goto(r, "links")
          /\ UNCHANGED <<call, seen, held, reply>>
     ELSE Answer(r, "404")
  /\ UNCHANGED db

\* selectinload(PromptTemplate.blocks).
SelectLinks(r) ==
  /\ pc[r] = "links"
  /\ seen' = [seen EXCEPT ![r] = LinksOf(call[r].template)]
  /\ Goto(r, "blocks")
  /\ UNCHANGED <<db, call, held, reply>>

\* What the handler decides once the template is loaded, from what the session
\* holds alone: "write", "block" (a further SELECT) or the answer it gives.
Verdict(r, loaded) ==
  LET c == call[r]
      owner == IsOwner(c.user, TemplateOwner[c.template])
      attached == c.block \in BlocksOf(seen[r])
      invalid == c.op = "move" /\ c.position \notin 1..Cardinality(seen[r])
  IN CASE c.op = "read" ->
            IF ~IsVisible(c) THEN "403"
            \* a link whose block row is gone has block.block = None
            ELSE IF BlocksOf(seen[r]) \subseteq loaded THEN "ok" ELSE "error"
       [] c.op # "read" /\ ~owner -> "403"
       [] c.op = "add" /\ owner -> "block"
       [] c.op \in {"move", "remove"} /\ owner /\ ~attached -> "404"
       [] owner /\ attached /\ invalid -> "400"
       [] OTHER -> "write"

\* Answer with a verdict, or go where it says holding the given block rows.
Follow(r, verdict, rows) ==
  IF verdict \in Replies
  THEN Answer(r, verdict)
  ELSE /\ Goto(r, verdict)
       /\ held' = [held EXCEPT ![r] = rows]
       /\ UNCHANGED <<call, seen, reply>>

\* selectinload(TemplateBlock.block), then the handler's checks.
SelectBlocks(r) ==
  /\ pc[r] = "blocks"
  /\ LET loaded == blocks \cap BlocksOf(seen[r])
     IN Follow(r, Verdict(r, loaded), loaded)
  /\ UNCHANGED db

\* Mutant of BlockVerdict: add attaches a block whoever owns it.
BlockVerdictForAll(r) ==
  LET c == call[r]
      found == c.block \in held[r] \cup blocks
  IN CASE ~found -> "404"
       [] found /\ c.op = "add" ->
            IF c.block \in BlocksOf(seen[r]) THEN "409" ELSE "write"
       [] OTHER -> "usage"

BlockVerdict(r) ==
  LET c == call[r]
      found == c.block \in held[r] \cup blocks
      owner == IsOwner(c.user, BlockOwner[c.block])
  IN CASE ~found -> "404"
       [] found /\ ~owner -> "403"
       [] found /\ owner /\ c.op = "add" ->
            IF c.block \in BlocksOf(seen[r]) THEN "409" ELSE "write"
       [] OTHER -> "usage"

\* get_block_for_user: session.get reads a row the session does not hold yet.
GetBlock(r) ==
  /\ pc[r] = "block"
  /\ Follow(r, BlockVerdict(r), held[r] \cup {call[r].block})
  /\ UNCHANGED db

\* delete_prompt_block: block.templates is loaded lazily.
SelectUsage(r) ==
  /\ pc[r] = "usage"
  /\ IF \E l \in links : l.block = call[r].block
     THEN Answer(r, "409")
     ELSE /\ Goto(r, "write")
          /\ UNCHANGED <<call, seen, held, reply>>
  /\ UNCHANGED db

-----------------------------------------------------------------------------
(* The write phase of each handler, from what its session holds.  <op>Fails *)
(* says that a flush, the INSERT or a foreign key raises; <op>Rows is what  *)
(* the commit leaves in template_blocks.                                    *)

RowOf(rows, i) == CHOOSE l \in rows : l.id = i
Without(rows, gone) == {l \in rows : l.id \notin IdsOf(gone)}

\* add_template_block_and_reorder: each shifted row has a flush of its own, the
\* last position first, and the new row goes into the hole.
AddShift(r) ==
  LET shifted == {l \in seen[r] : l.position >= ClampedPosition(call[r], seen[r])}
  IN [i \in IdsOf(shifted) |-> RowOf(shifted, i).position + 1]
\* Mutant of AddOrder: the rows are shifted first position first.
AscendingOrder(r) == AddShift(r)
AddOrder(r) == [i \in DOMAIN AddShift(r) |-> -AddShift(r)[i]]
\* Mutant of NewLink: ids of deleted rows are used again.
RecycledLink(r) ==
  [id |-> CHOOSE i \in LinkIds : i \notin IdsOf(links),
   template |-> call[r].template, block |-> call[r].block,
   position |-> ClampedPosition(call[r], seen[r])]
NewLink(r) ==
  [id |-> nextId, template |-> call[r].template, block |-> call[r].block,
   position |-> ClampedPosition(call[r], seen[r])]
AddFails(r) ==
  \/ FlushFails(links, AddShift(r), AddOrder(r))
  \/ InsertFails(Flushed(links, AddShift(r)), NewLink(r))
AddRows(r) == Flushed(links, AddShift(r)) \cup {NewLink(r)}

\* update_template_block_position: the moved row leaves the sorted list and is
\* inserted at the wanted index; every row is parked at minus its new position
\* in a first flush, and gets its new position in a second.
\* Mutant of MovedPosition: the moved row and the one in its place are swapped.
SwappedPosition(r, l) ==
  LET moved == CHOOSE m \in seen[r] : m.block = call[r].block
  IN IF l = moved THEN call[r].position
     ELSE IF l.position = call[r].position THEN moved.position ELSE l.position
MovedPosition(r, l) ==
  LET others == {m \in seen[r] : m.block # call[r].block}
      index  == Index(others, l)
  IN IF l.block = call[r].block THEN call[r].position
     ELSE IF index < call[r].position THEN index ELSE index + 1
MoveFinal(r) ==
  [i \in IdsOf(seen[r]) |-> MovedPosition(r, RowOf(seen[r], i))]
MoveParked(r) == [i \in IdsOf(seen[r]) |-> -MoveFinal(r)[i]]
MoveFails(r) ==
  LET parked == Flushed(links, MoveParked(r))
  IN \/ FlushFails(links, MoveParked(r), PrimaryKeyOrder(MoveParked(r)))
     \/ FlushFails(parked, MoveFinal(r), PrimaryKeyOrder(MoveFinal(r)))
MoveRows(r) == Flushed(Flushed(links, MoveParked(r)), MoveFinal(r))

\* delete_template_block_and_reorder: deleting a row that is gone is only a
\* warning; the rows whose index changed are renumbered in one flush.
RemovedRows(r) == {l \in seen[r] : l.block = call[r].block}
\* Mutant of RemoveRenumber: the removed row is still counted.
RenumberWithRemoved(r) ==
  LET rest  == seen[r] \ RemovedRows(r)
      moved == {l \in rest : Index(seen[r], l) # l.position}
  IN [i \in IdsOf(moved) |-> Index(seen[r], RowOf(rest, i))]
RemoveRenumber(r) ==
  LET rest  == seen[r] \ RemovedRows(r)
      moved == {l \in rest : Index(rest, l) # l.position}
  IN [i \in IdsOf(moved) |-> Index(rest, RowOf(rest, i))]
RemoveFails(r) ==
  FlushFails(Without(links, RemovedRows(r)), RemoveRenumber(r),
             PrimaryKeyOrder(RemoveRenumber(r)))
RemoveRows(r) == Flushed(Without(links, RemovedRows(r)), RemoveRenumber(r))

\* Mutants of DeleteTemplateFails and DeleteBlockFails: no foreign key.
DeletesUsedTemplate(r) == FALSE
DeletesUsedBlock(r) == FALSE

\* The template's links that the session loaded are deleted, then the template:
\* its foreign key fails when another request has attached a block since.
DeleteTemplateFails(r) ==
  \E l \in Without(links, seen[r]) : l.template = call[r].template

DeleteBlockFails(r) == \E l \in links : l.block = call[r].block

WriteFails(r) ==
  CASE call[r].op = "add"            -> AddFails(r)
    [] call[r].op = "move"           -> MoveFails(r)
    [] call[r].op = "remove"         -> RemoveFails(r)
    [] call[r].op = "deleteTemplate" -> DeleteTemplateFails(r)
    [] call[r].op = "deleteBlock"    -> DeleteBlockFails(r)

\* After the commit the session keeps only the row it will refresh.
Committed(r, row) ==
  /\ Goto(r, "committed")
  /\ seen' = [seen EXCEPT ![r] = row]
  /\ held' = [held EXCEPT ![r] = {}]
  /\ UNCHANGED <<call, reply>>

CommitAdd(r) ==
  /\ pc[r] = "write" /\ call[r].op = "add" /\ ~AddFails(r)
  /\ links' = AddRows(r)
  /\ nextId' = nextId + 1
  /\ Committed(r, {NewLink(r)})
  /\ UNCHANGED <<templates, blocks>>

CommitMove(r) ==
  /\ pc[r] = "write" /\ call[r].op = "move" /\ ~MoveFails(r)
  /\ links' = MoveRows(r)
  /\ Committed(r, {l \in seen[r] : l.block = call[r].block})
  /\ UNCHANGED <<templates, blocks, nextId>>

CommitRemove(r) ==
  /\ pc[r] = "write" /\ call[r].op = "remove" /\ ~RemoveFails(r)
  /\ links' = RemoveRows(r)
  /\ Committed(r, {})
  /\ UNCHANGED <<templates, blocks, nextId>>

CommitDeleteTemplate(r) ==
  /\ pc[r] = "write" /\ call[r].op = "deleteTemplate" /\ ~DeleteTemplateFails(r)
  /\ links' = Without(links, seen[r])
  /\ templates' = templates \ {call[r].template}
  /\ Committed(r, {})
  /\ UNCHANGED <<blocks, nextId>>

CommitDeleteBlock(r) ==
  /\ pc[r] = "write" /\ call[r].op = "deleteBlock" /\ ~DeleteBlockFails(r)
  /\ blocks' = blocks \ {call[r].block}
  /\ Committed(r, {})
  /\ UNCHANGED <<templates, links, nextId>>

\* handle_exception: the transaction is rolled back and the client told.
WriteRejected(r) ==
  /\ pc[r] = "write" /\ WriteFails(r)
  /\ Answer(r, "error")
  /\ UNCHANGED db

\* Mutant of Finish: refresh is tried again until it finds the row.
FinishWhenFound(r) ==
  /\ pc[r] = "committed"
  /\ IdsOf(seen[r]) \subseteq IdsOf(links)
  /\ Answer(r, "ok")
  /\ UNCHANGED db

\* session.refresh reads the row again: it may be gone by now, and the client
\* of a committed change gets an error.
Finish(r) ==
  /\ pc[r] = "committed"
  /\ Answer(r, IF IdsOf(seen[r]) \subseteq IdsOf(links) THEN "ok" ELSE "error")
  /\ UNCHANGED db

\* A deadlock victim, a lost connection or a crash of the worker, at any point:
\* what is not committed is rolled back, what is committed stays.
Fault(r) ==
  /\ pc[r] # "idle"
  /\ Answer(r, "error")
  /\ UNCHANGED db

Commit(r) ==
  \/ CommitAdd(r) \/ CommitMove(r) \/ CommitRemove(r)
  \/ CommitDeleteTemplate(r) \/ CommitDeleteBlock(r)

Handle(r) ==
  \/ SelectTemplate(r) \/ SelectLinks(r) \/ SelectBlocks(r)
  \/ GetBlock(r) \/ SelectUsage(r)
  \/ Commit(r) \/ WriteRejected(r) \/ Finish(r)

Next == \E r \in Requests : Begin(r) \/ Handle(r) \/ Fault(r)

\* Worker threads are scheduled by the operating system and a handler has no
\* unbounded wait of its own, so a request in progress keeps making steps.
Spec == Init /\ [][Next]_vars /\ \A r \in Requests : WF_vars(Handle(r))

-----------------------------------------------------------------------------
(* Properties. *)

\* No two links of a template share a position, whatever stale positions the
\* concurrent reorderings write (uq_template_position).
UniquePositions ==
  \A l, m \in links : l.template = m.template /\ l.position = m.position => l = m

\* A block is attached at most once to a template, also when two requests find
\* it missing at the same time (the 409 check and uq_template_block).
UniqueBlocks ==
  \A l, m \in links : l.template = m.template /\ l.block = m.block => l = m

\* No link outlives its template or its block: the "used by a template" check
\* and the deletion of a template's links run on rows read earlier.
ReferentialIntegrity ==
  \A l \in links : l.template \in templates /\ l.block \in blocks

\* Committed positions start at 1, so no parked (negative) position of a move
\* escapes, and never exceed the number of attachments ever made: stale
\* reorderings may leave gaps but positions do not drift upwards.
PositionsInRange == \A l \in links : l.position >= 1 /\ l.position < nextId

\* A link row that a session still holds and that is still stored links the
\* same template and block: only its position can be stale.
LoadedRowsKeepIdentity ==
  \A r \in Requests : \A l \in seen[r], m \in links :
    l.id = m.id => l.template = m.template /\ l.block = m.block

\* A template read that finds a link without its block (which dump_template_block
\* and compose_prompt_content cannot handle) only happens when the link itself
\* was removed between the two SELECTs.
TornReadMeansUnlinked ==
  \A r \in Requests : \A l \in seen[r] :
    pc[r] = "blocks" /\ l.block \notin blocks => l.id \notin IdsOf(links)

\* The inductive invariant behind the theorems of TemplateBlocksProofs: the
\* constraints of the table, and what stays true of rows that sessions loaded
\* and others may have changed since.
LinksInv ==
  /\ \A l, m \in links : l.id = m.id => l = m
  /\ \A l \in links : l.id < nextId
  /\ UniquePositions /\ UniqueBlocks /\ ReferentialIntegrity /\ PositionsInRange
\* A session holds links of the template it was called for, none when idle.
HoldsOwnTemplate ==
  \A r \in Requests :
    /\ pc[r] = "idle" => seen[r] = {}
    /\ \A l \in seen[r] : l.template = call[r].template
\* What a request that got this far has already passed.
PlaceOK(place, c, rows) ==
  /\ place \in {"block", "usage"} => c.op \in {"add", "deleteBlock"}
  /\ place = "usage" => c.op = "deleteBlock"
  /\ place \in {"block", "write"} /\ c.op # "deleteBlock"
       => IsOwner(c.user, TemplateOwner[c.template])
  /\ place = "write" /\ c.op = "add"
       => /\ IsOwner(c.user, BlockOwner[c.block])
          /\ c.block \notin BlocksOf(rows)
  /\ place = "write" /\ c.op \in {"move", "remove"} => c.block \in BlocksOf(rows)
  /\ place = "write" /\ c.op = "move" => c.position \in 1..Cardinality(rows)
SessionInv(r) ==
  /\ \A l, m \in seen[r] : l.id = m.id => l = m
  /\ \A l \in seen[r] : l.id < nextId /\ l.position >= 1 /\ l.position < nextId
  /\ PlaceOK(pc[r], call[r], seen[r])
IndInv ==
  /\ TypeOK
  /\ LinksInv
  /\ LoadedRowsKeepIdentity
  /\ \A r \in Requests : SessionInv(r)

\* What r read about its template is still what is stored.
Fresh(r) ==
  /\ call[r].template \in templates
  /\ seen[r] = LinksOf(call[r].template)

\* An attach or a move that writes on the rows it read never runs into a
\* constraint: the descending flushes of the one and the parked positions of
\* the other avoid every intermediate duplicate.
FreshWritesSucceed ==
  \A r \in Requests :
    /\ pc[r] = "write" /\ call[r].op \in {"add", "move"} /\ Fresh(r)
    /\ call[r].op = "add" => call[r].block \in blocks /\ nextId <= MaxLinkId
    => ~WriteFails(r)

\* The positions of a template are 1..n.
Contiguous(t) ==
  {l.position : l \in LinksOf(t)} = 1..Cardinality(LinksOf(t))

Commits(r) == pc[r] = "write" /\ pc'[r] = "committed"

\* A commit that writes on the rows it read keeps positions contiguous, and a
\* move or a removal makes them so even when they were not.
FreshCommitsAreContiguous ==
  [][\A r \in Requests :
       LET t == call[r].template
       IN Commits(r) /\ call[r].op \in {"add", "move", "remove"} /\ Fresh(r)
            /\ (call[r].op = "add" => Contiguous(t))
          => Contiguous(t)']_vars

\* A link between a template and a block of different owners is only ever
\* created by a superuser: add checks the ownership of both.
CrossOwnerLinksBySuperuser ==
  [][\A l \in links' :
       /\ l.id \notin IdsOf(links)
       /\ TemplateOwner[l.template] # BlockOwner[l.block]
       => \E r \in Requests : Commits(r) /\ call[r].user \in Superusers]_vars

\* Every request is answered, whatever the other workers commit meanwhile.
EveryRequestAnswered == \A r \in Requests : pc[r] # "idle" ~> pc[r] = "idle"

\* Which blocks a template has changes in the atomic steps of Membership, for
\* any number of concurrent requests.
Members == INSTANCE Membership
             WITH members <- [t \in Templates |-> BlocksOf(LinksOf(t))]
RefinesMembership == Members!Spec

\* add_template_block_and_reorder: "Add a block to a template and keep positions
\* contiguous."
PositionsContiguous == \A t \in Templates : Contiguous(t)

\* delete_template_block_and_reorder: "Remove a block from a template and
\* normalize positions."  A removal that nothing else interferes with succeeds.
FreshRemovalsSucceed ==
  \A r \in Requests :
    pc[r] = "write" /\ call[r].op = "remove" /\ Fresh(r) => ~RemoveFails(r)

\* It does as long as the ids of the rows that stay follow their positions, as in
\* a template that was only appended to and removed from.
IdsFollowPositions(rows) == \A l, m \in rows : l.position < m.position => l.id < m.id

OrderedRemovalsSucceed ==
  \A r \in Requests :
    /\ pc[r] = "write" /\ call[r].op = "remove" /\ Fresh(r)
    /\ IdsFollowPositions(seen[r] \ RemovedRows(r))
    => ~RemoveFails(r)

=============================================================================
