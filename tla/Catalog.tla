------------------------------ MODULE Catalog -------------------------------
(***************************************************************************)
(* One table of records with an owner and a slug: prompt blocks, prompt    *)
(* templates or categories.  The routes create, edit, delete and read one  *)
(* record at a time; each request has its own session, loads the record,   *)
(* decides on what it loaded and writes later.                             *)
(*                                                                         *)
(* SQLAlchemy writes only the columns whose value differs from the loaded  *)
(* one, so what an edit leaves in the row depends on what it read.         *)
(***************************************************************************)
EXTENDS Naturals, FiniteSets

CONSTANTS
  Kind,        \* which table: "block", "template" or "category"
  Users,       \* authenticated principals
  Superusers,  \* those with is_superuser set
  Demotable,   \* those who may lose the writer role
  Names,       \* valid names
  Slugs,       \* what slugify returns
  SlugOf,      \* slugify: the slug of each name
  EmptySlug,   \* the slug of a name without letters or digits
  Requests,    \* worker threads, each serving one request at a time
  Calls,       \* the calls clients may make
  NoCall,      \* what an idle worker is asked
  MaxId        \* bound: how many records are ever created

Tiers == {"user", "reader", "writer"}
Ops == {"create", "edit", "delete", "get", "getBySlug"}

\* public is "unset" when the payload leaves it out.  getBySlug asks for the
\* slug of name.
CallType == [op : Ops, user : Users, id : 1..MaxId, name : Names,
             public : {"unset", "yes", "no"}]

ASSUME KindAssumption == Kind \in {"block", "template", "category"}
ASSUME UsersAssumption == Superusers \subseteq Users /\ Demotable \subseteq Users
ASSUME SlugAssumption == SlugOf \in [Names -> Slugs] /\ EmptySlug \in Slugs
ASSUME CallsAssumption == Calls \subseteq CallType /\ NoCall \notin CallType
\* A category has no public flag, and no route finds it by its slug.
ASSUME CategoryAssumption ==
  Kind = "category" => \A c \in Calls : c.op # "getBySlug" /\ c.public = "unset"
ASSUME BoundAssumption == MaxId \in Nat

VARIABLES
  rows,    \* the table
  nextId,  \* the sequence behind its id
  tier,    \* the role of each user, kept by the auth service
  pc,      \* where each request is
  call,    \* what each request was asked
  caller,  \* the tier the guard found when the request began
  seen,    \* the row the session loaded
  answer   \* the last answer given to anyone: its status and the row it shows

db   == <<rows, nextId>>
vars == <<rows, nextId, tier, pc, call, caller, seen, answer>>

Row == [id : 1..MaxId, owner : Users, name : Names, slug : Slugs,
        public : {"yes", "no"}]
Columns == {"name", "slug", "public"}

\* "missing" is a 200 with success = False; "error" is whatever fastapi_m8's
\* handle_exception answers.
Replies == {"none", "ok", "missing", "400", "401", "403", "404", "422", "error"}

TypeOK ==
  /\ rows \subseteq Row
  /\ nextId \in 1..(MaxId + 1)
  /\ tier \in [Users -> Tiers]
  /\ pc \in [Requests -> {"idle", "load", "find", "write", "committed"}]
  /\ call \in [Requests -> Calls \cup {NoCall}]
  /\ \A r \in Requests : pc[r] # "idle" => call[r] \in Calls
  /\ caller \in [Requests -> Tiers]
  /\ seen \in [Requests -> SUBSET Row]
  /\ answer \in [status : Replies, rows : SUBSET Row]

-----------------------------------------------------------------------------
(* Who may do what. *)

IsOwner(u, row) == u \in Superusers \/ row.owner = u

\* _is_visible; a category has no public flag.
IsVisible(u, row) ==
  IsOwner(u, row) \/ (Kind # "category" /\ row.public = "yes")

\* visibility_filter, by tier.
InQuery(u, t, row) ==
  \/ u \in Superusers
  \/ t # "user" /\ row.owner = u
  \/ row.public = "yes"

\* The tier a route's guard asks for; the category router has a reader floor.
Admits(t, op) ==
  CASE op \in {"create", "edit", "delete"} -> t = "writer"
    [] Kind = "category"                   -> t # "user"
    [] OTHER                               -> TRUE

\* Mutant of PayloadRejected: the payload takes any slug.
PayloadAccepted(c) == FALSE

\* The slug of a category payload has a minimum length.
PayloadRejected(c) ==
  /\ Kind = "category" /\ c.op \in {"create", "edit"}
  /\ SlugOf[c.name] = EmptySlug

NotFound(op) == IF Kind = "category" /\ op = "get" THEN "missing" ELSE "404"
Denied(op) ==
  CASE Kind # "category" -> "403"
    [] Kind = "category" /\ op = "get" -> "401"
    [] OTHER -> "400"

-----------------------------------------------------------------------------
(* Requests. *)

Init ==
  /\ rows = {}
  /\ nextId = 1
  /\ tier = [u \in Users |-> "writer"]
  /\ pc = [r \in Requests |-> "idle"]
  /\ call = [r \in Requests |-> NoCall]
  /\ caller = [r \in Requests |-> "user"]
  /\ seen = [r \in Requests |-> {}]
  /\ answer = [status |-> "none", rows |-> {}]

\* The auth service takes the role of u away.
Demote(u) ==
  /\ tier[u] # "user"
  /\ tier' = [tier EXCEPT ![u] = "user"]
  /\ UNCHANGED <<db, pc, call, caller, seen, answer>>

Place(op) ==
  CASE op = "create" -> "write" [] op = "getBySlug" -> "find" [] OTHER -> "load"

\* The guard reads the caller's role afresh, then the payload is validated.
Begin(r, c) ==
  LET t == tier[c.user]
      refused == IF ~Admits(t, c.op) THEN "403" ELSE "422"
  IN /\ pc[r] = "idle"
     /\ IF Admits(t, c.op) /\ ~PayloadRejected(c)
        THEN /\ pc' = [pc EXCEPT ![r] = Place(c.op)]
             /\ call' = [call EXCEPT ![r] = c]
             /\ caller' = [caller EXCEPT ![r] = t]
             /\ UNCHANGED answer
        ELSE /\ answer' = [status |-> refused, rows |-> {}]
             /\ UNCHANGED <<pc, call, caller>>
     /\ UNCHANGED <<db, tier, seen>>

\* The session is closed; status and the given row go to the client.
Answer(r, status, row) ==
  /\ pc' = [pc EXCEPT ![r] = "idle"]
  /\ call' = [call EXCEPT ![r] = NoCall]
  /\ caller' = [caller EXCEPT ![r] = "user"]
  /\ seen' = [seen EXCEPT ![r] = {}]
  /\ answer' = [status |-> status, rows |-> row]
  /\ UNCHANGED tier

\* Mutant of Verdict: the read path's check guards the write path.
VerdictByVisibility(r, found) ==
  LET c == call[r]
  IN CASE found = {} -> NotFound(c.op)
       [] \E row \in found : ~IsVisible(c.user, row) -> Denied(c.op)
       [] OTHER -> IF c.op = "get" THEN "ok" ELSE "go"

\* What a handler that loads a record by id answers at once, "go" otherwise.
Verdict(r, found) ==
  LET c == call[r]
      allowed(row) == IF c.op = "get" THEN IsVisible(c.user, row)
                                      ELSE IsOwner(c.user, row)
  IN CASE found = {} -> NotFound(c.op)
       [] \E row \in found : ~allowed(row) -> Denied(c.op)
       [] OTHER -> IF c.op = "get" THEN "ok" ELSE "go"

\* session.get, and the checks on the row it returns.
Load(r) ==
  LET found == {row \in rows : row.id = call[r].id}
      verdict == Verdict(r, found)
  IN /\ pc[r] = "load"
     /\ IF verdict = "go"
        THEN /\ pc' = [pc EXCEPT ![r] = "write"]
             /\ seen' = [seen EXCEPT ![r] = found]
             /\ UNCHANGED <<call, caller, tier, answer>>
        ELSE Answer(r, verdict, IF verdict = "ok" THEN found ELSE {})
     /\ UNCHANGED db

\* Mutant of Find: the visibility predicate is left out.
FindAny(r) ==
  LET found == {row \in rows : row.slug = SlugOf[call[r].name]}
  IN /\ pc[r] = "find"
     /\ Answer(r, IF found = {} THEN "missing" ELSE "ok", found)
     /\ UNCHANGED db

\* get_by_slug: one SELECT with the visibility predicate.
Find(r) ==
  LET found == {row \in rows : /\ row.slug = SlugOf[call[r].name]
                               /\ InQuery(call[r].user, caller[r], row)}
  IN /\ pc[r] = "find"
     /\ Answer(r, IF found = {} THEN "missing" ELSE "ok", found)
     /\ UNCHANGED db

-----------------------------------------------------------------------------
(* The write phase of each handler: flush and commit. *)

\* After the commit the session keeps the row it will refresh.
Committed(r, row) ==
  /\ pc' = [pc EXCEPT ![r] = "committed"]
  /\ seen' = [seen EXCEPT ![r] = row]
  /\ UNCHANGED <<tier, call, caller, answer>>

\* Mutant of Taken: no unique constraint.
NeverTaken(row, others) == FALSE

\* uq_..._slug, and the unique name of a category.
Taken(row, others) ==
  \E other \in others :
    /\ other.id # row.id
    /\ \/ other.slug = row.slug
       \/ Kind = "category" /\ other.name = row.name

\* Mutant of Applied: attributes the payload leaves out are copied too.
AppliedUnset(base, c) ==
  [base EXCEPT !.name = c.name, !.slug = SlugOf[c.name], !.public = c.public]

\* The values of the payload on top of the row base.
Applied(base, c) ==
  [base EXCEPT !.name = c.name, !.slug = SlugOf[c.name],
               !.public = IF c.public = "unset" THEN @ ELSE c.public]

NewRow(r) ==
  Applied([id |-> nextId, owner |-> call[r].user, name |-> call[r].name,
           slug |-> EmptySlug, public |-> "no"], call[r])

\* Unlike the attributes of a loaded row, a new row is validated.
CreateFails(r) ==
  \/ nextId > MaxId
  \/ NewRow(r).slug = EmptySlug
  \/ Taken(NewRow(r), rows)

\* Mutant of Dirty: an edit keeps the slug of the old name.
DirtyButSlug(r, row) ==
  {f \in {"name", "public"} : Applied(row, call[r])[f] # row[f]}

\* Columns whose value an edit changes with respect to the row it loaded.
Dirty(r, row) == {f \in Columns : Applied(row, call[r])[f] # row[f]}

\* stored after the UPDATE of an edit that loaded row.
Edited(r, row, stored) ==
  LET new == Applied(row, call[r])
      dirty == Dirty(r, row)
  IN [stored EXCEPT !.name = IF "name" \in dirty THEN new.name ELSE @,
                    !.slug = IF "slug" \in dirty THEN new.slug ELSE @,
                    !.public = IF "public" \in dirty THEN new.public ELSE @]

\* The UPDATE finds no row (StaleDataError) or a value that is taken.  Without
\* dirty columns no UPDATE is sent.
EditFails(r, row) ==
  /\ Dirty(r, row) # {}
  /\ \/ \A stored \in rows : stored.id # row.id
     \/ \E stored \in rows :
          stored.id = row.id /\ Taken(Edited(r, row, stored), rows)

\* Mutant of EditRows: session.merge, which inserts a row that is gone.
EditMerges(r, row) ==
  {stored \in rows : stored.id # row.id} \cup {Applied(row, call[r])}

\* The table after an edit that loaded row.
EditRows(r, row) ==
  {IF stored.id = row.id THEN Edited(r, row, stored) ELSE stored : stored \in rows}

CommitCreate(r) ==
  /\ pc[r] = "write" /\ call[r].op = "create" /\ ~CreateFails(r)
  /\ rows' = rows \cup {NewRow(r)}
  /\ nextId' = nextId + 1
  /\ Committed(r, {NewRow(r)})

CommitEdit(r) ==
  /\ pc[r] = "write" /\ call[r].op = "edit"
  /\ \E row \in seen[r] : ~EditFails(r, row) /\ rows' = EditRows(r, row)
  /\ Committed(r, seen[r])
  /\ UNCHANGED nextId

\* Deleting a row that is gone is only a warning.
CommitDelete(r) ==
  /\ pc[r] = "write" /\ call[r].op = "delete"
  /\ rows' = {stored \in rows : stored.id # call[r].id}
  /\ Committed(r, {})
  /\ UNCHANGED nextId

\* handle_exception: the transaction is rolled back and the client told.
WriteRejected(r) ==
  /\ pc[r] = "write"
  /\ \/ call[r].op = "create" /\ CreateFails(r)
     \/ call[r].op = "edit" /\ \E row \in seen[r] : EditFails(r, row)
  /\ Answer(r, "error", {})
  /\ UNCHANGED db

\* session.refresh reads the row again; a deletion has nothing to refresh.
Finish(r) ==
  LET found == {stored \in rows : \E row \in seen[r] : stored.id = row.id}
  IN /\ pc[r] = "committed"
     /\ Answer(r, IF seen[r] # {} /\ found = {} THEN "error" ELSE "ok", found)
     /\ UNCHANGED db

\* A lost connection or a crash of the worker, at any point.
Fault(r) ==
  /\ pc[r] # "idle"
  /\ Answer(r, "error", {})
  /\ UNCHANGED db

Commit(r) == CommitCreate(r) \/ CommitEdit(r) \/ CommitDelete(r)

Next ==
  \/ \E u \in Demotable : Demote(u)
  \/ \E r \in Requests :
       \/ \E c \in Calls : Begin(r, c)
       \/ Load(r) \/ Find(r) \/ Commit(r) \/ WriteRejected(r) \/ Finish(r)
       \/ Fault(r)

Spec == Init /\ [][Next]_vars

-----------------------------------------------------------------------------
(* Properties. *)

\* What a handler knows at each place: which calls get there, with an accepted
\* payload and an empty session unless there is something to write.
PlaceOK(r) ==
  /\ pc[r] # "idle" => ~PayloadRejected(call[r])
  /\ pc[r] = "load" => call[r].op \in {"edit", "delete", "get"}
  /\ pc[r] = "find" => call[r].op = "getBySlug"
  /\ pc[r] \in {"write", "committed"} => call[r].op \in {"create", "edit", "delete"}
  /\ pc[r] \notin {"write", "committed"} => seen[r] = {}
  /\ pc[r] = "write" => (seen[r] = {} <=> call[r].op = "create")
  /\ pc[r] = "committed" /\ call[r].op = "delete" => seen[r] = {}

\* The session holds one row, which the caller may write: the one the call names
\* or the one just created.  Whatever is committed since, nobody else gets its id.
HoldsOwnRow(r) ==
  \A row \in seen[r] :
    /\ row.id < nextId /\ IsOwner(call[r].user, row)
    /\ call[r].op # "create" => row.id = call[r].id
    /\ \A other \in seen[r] : other = row
    /\ \A stored \in rows : stored.id = row.id => stored.owner = row.owner

\* What every write phase relies on, although it runs some time after the row was
\* loaded and the owner checked.
SessionsHoldOwnRows == \A r \in Requests : PlaceOK(r) /\ HoldsOwnRow(r)

\* No two records share an id or a slug, nor two categories a name, also when two
\* requests find it free at the same time: no handler looks before it writes.
SlugsUnique ==
  \A a, b \in rows :
    \/ a.id = b.id \/ a.slug = b.slug \/ (Kind = "category" /\ a.name = b.name)
    => a = b

\* An edit or a deletion only touches records of its caller, unless a superuser
\* makes it, and the owner of a record never changes.
OnlyOwnersWrite ==
  [][\A old \in rows :
       old \notin rows' =>
         \E r \in Requests :
           /\ pc[r] = "write" /\ pc'[r] = "committed"
           /\ IsOwner(call[r].user, old)
           /\ \A new \in rows' : new.id = old.id => new.owner = old.owner]_vars

\* A record that was deleted stays deleted: an edit that loaded it before does
\* not write it back.
NoResurrection ==
  [][\A new \in rows' :
       (\E old \in rows : old.id = new.id) \/ new.id = nextId]_vars

\* Nobody is shown a private record of somebody else, neither by a read, nor by
\* the answer to a write (which reads the record again).
OnlyVisibleShown ==
  [][\A r \in Requests : pc[r] # "idle" /\ pc'[r] = "idle" =>
       \A row \in answer'.rows : IsVisible(call[r].user, row)]_vars

\* An edit that commits on the record it loaded leaves exactly its payload.
FreshEditsAreExact ==
  [][\A r \in Requests : \A row \in seen[r] :
       pc[r] = "write" /\ pc'[r] = "committed" /\ call[r].op = "edit"
         /\ row \in rows => Applied(row, call[r]) \in rows']_vars

\* test_a_caller_supplied_slug_does_not_win: "The slug is derived from the name,
\* so two clients cannot disagree on it."
SlugFollowsName == \A row \in rows : row.slug = SlugOf[row.name]

\* The tables declare a slug of at least one character (min_length=1).
SlugsNonEmpty == \A row \in rows : row.slug # EmptySlug

\* The edit has loaded its record and not stored it yet.
Editing(r) == pc[r] = "write" /\ call[r].op = "edit"

\* No two edits of one record overlap between load and write, as behind SELECT FOR
\* UPDATE or a version column, which the code does not have.
OneEditPerRecord ==
  \A q, r \in Requests :
    q # r /\ Editing(q) /\ Editing(r) => call[q].id # call[r].id

\* What an edit has loaded is then what is stored, unless it was deleted.
SlugInv ==
  /\ SlugFollowsName
  /\ \A r \in Requests : Editing(r) =>
       \A row \in seen[r], stored \in rows : stored.id = row.id => stored = row

=============================================================================
