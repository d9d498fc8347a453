--------------------------- MODULE CatalogProofs ----------------------------
(***************************************************************************)
(* Theorems about Catalog, for every table, number of requests, of users   *)
(* and of records: what is unique stays unique, and nobody writes or sees  *)
(* what is not theirs to write or see.                                     *)
(***************************************************************************)
EXTENDS Catalog, TLAPS

\* The ids of the table come from its sequence.
IdsDrawn == \A row \in rows : row.id < nextId

IndInv == TypeOK /\ IdsDrawn /\ SlugsUnique /\ SessionsHoldOwnRows

-----------------------------------------------------------------------------
(* What a payload does to a row. *)

\* A payload sets name, slug and flag, and never the id or the owner.
LEMMA AppliedRow ==
  ASSUME NEW base \in Row, NEW c \in Calls
  PROVE  /\ Applied(base, c) \in Row
         /\ Applied(base, c).id = base.id /\ Applied(base, c).owner = base.owner
         /\ Applied(base, c).name = c.name
         /\ Applied(base, c).slug = SlugOf[c.name]
BY CallsAssumption, SlugAssumption DEF Applied, Row, CallType

\* The row a creation inserts.
LEMMA NewRowType ==
  ASSUME TypeOK, NEW r \in Requests, call[r] \in Calls, nextId <= MaxId
  PROVE  /\ NewRow(r) \in Row
         /\ NewRow(r).id = nextId /\ NewRow(r).owner = call[r].user
         /\ NewRow(r).slug = SlugOf[call[r].name]
<1> DEFINE base == [id |-> nextId, owner |-> call[r].user, name |-> call[r].name,
                    slug |-> EmptySlug, public |-> "no"]
<1>1. base \in Row
  BY CallsAssumption, SlugAssumption, BoundAssumption DEF TypeOK, Row, CallType
<1>2. QED
  BY <1>1, AppliedRow DEF NewRow

\* The row an edit leaves: each column comes from the payload or from the table.
LEMMA EditedRow ==
  ASSUME NEW r \in Requests, NEW row \in Row, NEW stored \in Row, call[r] \in Calls
  PROVE  /\ Edited(r, row, stored) \in Row
         /\ Edited(r, row, stored).id = stored.id
         /\ Edited(r, row, stored).owner = stored.owner
         /\ Edited(r, row, stored).slug \in {stored.slug, SlugOf[call[r].name]}
         /\ Dirty(r, row) = {} => Edited(r, row, stored) = stored
         /\ stored = row => Edited(r, row, stored) = Applied(row, call[r])
<1>1. Applied(row, call[r]) \in Row
  BY AppliedRow
<1>2. \A f \in Columns : f \notin Dirty(r, row) <=> Applied(row, call[r])[f] = row[f]
  BY DEF Dirty
<1>3. /\ "name" \in Columns /\ "slug" \in Columns /\ "public" \in Columns
  BY DEF Columns
<1>4. Applied(row, call[r]).id = row.id /\ Applied(row, call[r]).owner = row.owner
  BY AppliedRow
<1>5. Applied(row, call[r]).slug = SlugOf[call[r].name]
  BY AppliedRow
<1> HIDE DEF Applied
<1>6. Edited(r, row, stored) \in Row
  BY <1>1 DEF Edited, Row
<1>7. /\ Edited(r, row, stored).id = stored.id
      /\ Edited(r, row, stored).owner = stored.owner
      /\ Edited(r, row, stored).slug \in {stored.slug, SlugOf[call[r].name]}
  BY <1>1, <1>5 DEF Edited, Row
<1>8. Dirty(r, row) = {} => Edited(r, row, stored) = stored
  BY DEF Edited, Row
<1>9. stored = row => Edited(r, row, stored) = Applied(row, call[r])
  <2> SUFFICES ASSUME stored = row
               PROVE  Edited(r, row, row) = Applied(row, call[r])
    OBVIOUS
  <2> DEFINE e == Edited(r, row, row)
             a == Applied(row, call[r])
  <2>1. /\ e.id = a.id /\ e.owner = a.owner /\ e.name = a.name
        /\ e.slug = a.slug /\ e.public = a.public
    BY <1>1, <1>2, <1>3, <1>4 DEF Edited, Row
  <2>2. e \in Row /\ a \in Row
    BY <1>1, <1>6
  <2> HIDE DEF e, a
  <2>3. e = a
    BY <2>1, <2>2 DEF Row
  <2> QED
    BY <2>3 DEF e, a
<1>10. QED
  BY <1>6, <1>7, <1>8, <1>9

-----------------------------------------------------------------------------
(* Steps that leave the table alone. *)

\* The answer to a request ends its session and touches nothing else.
LEMMA AnswerKeeps ==
  ASSUME IndInv, NEW r \in Requests, NEW status \in Replies,
         NEW shown \in SUBSET Row, Answer(r, status, shown), UNCHANGED db
  PROVE  IndInv'
<1> USE DEF IndInv, Answer, db
<1>1. TypeOK'
  BY DEF TypeOK, Tiers
<1>2. IdsDrawn' /\ SlugsUnique'
  BY DEF IdsDrawn, SlugsUnique
<1>3. SessionsHoldOwnRows'
  <2> SUFFICES ASSUME NEW s \in Requests
               PROVE  PlaceOK(s)' /\ HoldsOwnRow(s)'
    BY DEF SessionsHoldOwnRows
  <2>1. CASE s = r
    BY <2>1 DEF TypeOK, PlaceOK, HoldsOwnRow
  <2>2. CASE s # r
    <3>1. pc[s] = pc'[s] /\ call[s] = call'[s] /\ seen[s] = seen'[s]
      BY <2>2 DEF TypeOK
    <3>2. PlaceOK(s) /\ HoldsOwnRow(s)
      BY DEF SessionsHoldOwnRows
    <3> QED
      BY <3>1, <3>2 DEF PlaceOK, HoldsOwnRow, PayloadRejected, IsOwner
  <2> QED
    BY <2>1, <2>2
<1> QED
  BY <1>1, <1>2, <1>3

\* Rows keep their id and owner through a transaction, and new ids are new.
OwnersKept ==
  \A new \in rows' :
    new.id >= nextId \/ \E old \in rows : old.id = new.id /\ old.owner = new.owner

\* What a commit has to establish.
LEMMA CommittedKeeps ==
  ASSUME IndInv, NEW r \in Requests, pc[r] = "write", NEW held \in SUBSET Row,
         Committed(r, held), rows' \in SUBSET Row,
         nextId' \in 1..(MaxId + 1), nextId <= nextId',
         IdsDrawn', SlugsUnique', OwnersKept,
         call[r].op = "delete" => held = {},
         \A row \in held :
           /\ row.id < nextId' /\ IsOwner(call[r].user, row)
           /\ call[r].op # "create" => row.id = call[r].id
           /\ \A other \in held : other = row
           /\ \A stored \in rows' : stored.id = row.id => stored.owner = row.owner
  PROVE  IndInv'
<1> USE DEF IndInv, Committed
<1>1. TypeOK'
  BY DEF TypeOK
<1>2. SessionsHoldOwnRows'
  <2> SUFFICES ASSUME NEW s \in Requests
               PROVE  PlaceOK(s)' /\ HoldsOwnRow(s)'
    BY DEF SessionsHoldOwnRows
  <2>1. /\ nextId \in Nat /\ nextId' \in Nat /\ call' = call
        /\ PlaceOK(s) /\ HoldsOwnRow(s)
    BY BoundAssumption DEF TypeOK, SessionsHoldOwnRows
  <2>2. CASE s = r
    <3>1. pc'[r] = "committed" /\ seen'[r] = held
      BY DEF TypeOK
    <3> QED
      BY <2>1, <2>2, <3>1 DEF PlaceOK, HoldsOwnRow, PayloadRejected, IsOwner
  <2>3. CASE s # r
    <3>1. pc'[s] = pc[s] /\ seen'[s] = seen[s] /\ seen[s] \in SUBSET Row
      BY <2>3 DEF TypeOK
    <3>2. ASSUME NEW row \in seen[s], NEW stored \in rows', stored.id = row.id
          PROVE  stored.owner = row.owner
      <4>1. row.id < nextId /\ row.id \in Nat
        BY <2>1, <3>1 DEF HoldsOwnRow, Row
      <4>2. PICK old \in rows : old.id = stored.id /\ old.owner = stored.owner
        BY <2>1, <3>2, <4>1 DEF OwnersKept
      <4> QED
        BY <2>1, <3>1, <3>2, <4>2 DEF HoldsOwnRow
    <3>3. \A row \in seen[s] : row.id < nextId'
      BY <2>1, <3>1 DEF HoldsOwnRow, Row
    <3> QED
      BY <2>1, <3>1, <3>2, <3>3 DEF PlaceOK, HoldsOwnRow, PayloadRejected, IsOwner
  <2> QED
    BY <2>2, <2>3
<1> QED
  BY <1>1, <1>2

-----------------------------------------------------------------------------
(* The actions. *)

LEMMA InitInv == ASSUME Init PROVE IndInv
BY BoundAssumption, CallsAssumption, SlugAssumption
   DEF Init, IndInv, TypeOK, IdsDrawn, SlugsUnique, SessionsHoldOwnRows, Tiers,
       Replies, Row, PlaceOK, HoldsOwnRow

LEMMA DemoteKeeps == ASSUME IndInv, NEW u \in Demotable, Demote(u) PROVE IndInv'
<1> USE DEF IndInv, Demote, db
<1>1. TypeOK'
  BY UsersAssumption DEF TypeOK, Tiers
<1>2. IdsDrawn' /\ SlugsUnique'
  BY DEF IdsDrawn, SlugsUnique
<1>3. SessionsHoldOwnRows'
  BY DEF SessionsHoldOwnRows, PlaceOK, HoldsOwnRow, IsOwner, PayloadRejected
<1> QED
  BY <1>1, <1>2, <1>3

LEMMA BeginKeeps ==
  ASSUME IndInv, NEW r \in Requests, NEW c \in Calls, Begin(r, c)
  PROVE  IndInv'
<1>1. c \in CallType /\ tier[c.user] \in Tiers
  BY CallsAssumption DEF IndInv, TypeOK, CallType
<1>2. TypeOK'
  BY <1>1 DEF IndInv, TypeOK, Begin, Place, db, Replies
<1>3. IdsDrawn' /\ SlugsUnique'
  BY DEF IndInv, IdsDrawn, SlugsUnique, Begin, db
<1>4. SessionsHoldOwnRows'
  <2> SUFFICES ASSUME NEW s \in Requests
               PROVE  PlaceOK(s)' /\ HoldsOwnRow(s)'
    BY DEF SessionsHoldOwnRows
  <2>1. PlaceOK(s) /\ HoldsOwnRow(s) /\ seen' = seen /\ rows' = rows /\ nextId' = nextId
    BY DEF IndInv, SessionsHoldOwnRows, Begin, db
  <2>2. CASE pc'[s] = pc[s] /\ call'[s] = call[s]
    BY <2>1, <2>2 DEF PlaceOK, HoldsOwnRow, IsOwner, PayloadRejected
  <2>3. CASE ~(pc'[s] = pc[s] /\ call'[s] = call[s])
    <3>1. s = r /\ pc[r] = "idle" /\ pc'[r] = Place(c.op) /\ call'[r] = c
          /\ ~PayloadRejected(c)
      BY <2>3 DEF IndInv, TypeOK, Begin
    <3>2. seen'[s] = {}
      BY <2>1, <3>1 DEF PlaceOK
    <3> QED
      BY <1>1, <3>1, <3>2 DEF PlaceOK, HoldsOwnRow, Place, CallType, Ops, PayloadRejected
  <2> QED
    BY <2>2, <2>3
<1> QED
  BY <1>2, <1>3, <1>4 DEF IndInv

LEMMA LoadKeeps == ASSUME IndInv, NEW r \in Requests, Load(r) PROVE IndInv'
<1> DEFINE found == {row \in rows : row.id = call[r].id}
           verdict == Verdict(r, found)
<1> USE DEF IndInv
<1>1. found \in SUBSET Row /\ pc[r] = "load" /\ UNCHANGED db
  BY DEF Load, TypeOK
<1>2. CASE verdict # "go"
  <2>1. verdict \in Replies
    BY <1>2 DEF Verdict, NotFound, Denied, Replies
  <2>2. Answer(r, verdict, IF verdict = "ok" THEN found ELSE {})
    BY <1>2 DEF Load
  <2> QED
    BY <1>1, <2>1, <2>2, AnswerKeeps
<1>3. CASE verdict = "go"
  <2>1. /\ pc' = [pc EXCEPT ![r] = "write"] /\ seen' = [seen EXCEPT ![r] = found]
        /\ UNCHANGED <<call, caller, tier, answer, db>>
    BY <1>3 DEF Load, Answer
  <2>2. /\ found # {} /\ call[r].op # "get"
        /\ \A row \in found : IsOwner(call[r].user, row)
    BY <1>3 DEF Verdict, NotFound, Denied
  <2>3. TypeOK'
    BY <1>1, <2>1 DEF TypeOK, db
  <2>4. IdsDrawn' /\ SlugsUnique'
    BY <2>1 DEF IdsDrawn, SlugsUnique, db
  <2>5. SessionsHoldOwnRows'
    <3> SUFFICES ASSUME NEW s \in Requests
                 PROVE  PlaceOK(s)' /\ HoldsOwnRow(s)'
      BY DEF SessionsHoldOwnRows
    <3>1. PlaceOK(s) /\ HoldsOwnRow(s) /\ PlaceOK(r)
          /\ call' = call /\ rows' = rows /\ nextId' = nextId
      BY <2>1 DEF SessionsHoldOwnRows, db
    <3>2. CASE s # r
      <4>1. pc'[s] = pc[s] /\ seen'[s] = seen[s]
        BY <2>1, <3>2 DEF TypeOK
      <4> QED
        BY <3>1, <4>1 DEF PlaceOK, HoldsOwnRow, IsOwner, PayloadRejected
    <3>3. CASE s = r
      <4>1. pc'[r] = "write" /\ seen'[r] = found
        BY <2>1 DEF TypeOK
      <4>2. PlaceOK(r)'
        BY <1>1, <2>2, <3>1, <4>1 DEF PlaceOK, PayloadRejected
      <4>3. \A row \in found :
              /\ row.id < nextId
              /\ \A other \in rows : other.id = row.id => other = row
        BY DEF IdsDrawn, SlugsUnique
      <4>4. HoldsOwnRow(r)'
        BY <2>2, <3>1, <4>1, <4>3 DEF HoldsOwnRow, IsOwner
      <4> QED
        BY <3>3, <4>2, <4>4
    <3> QED
      BY <3>2, <3>3
  <2> QED
    BY <2>3, <2>4, <2>5
<1> QED
  BY <1>2, <1>3

LEMMA FindKeeps == ASSUME IndInv, NEW r \in Requests, Find(r) PROVE IndInv'
<1> DEFINE found == {row \in rows : /\ row.slug = SlugOf[call[r].name]
                                    /\ InQuery(call[r].user, caller[r], row)}
<1>1. found \in SUBSET Row
  BY DEF IndInv, TypeOK
<1>2. Answer(r, IF found = {} THEN "missing" ELSE "ok", found) /\ UNCHANGED db
  BY DEF Find
<1> QED
  BY <1>1, <1>2, AnswerKeeps DEF Replies

LEMMA RejectedKeeps ==
  ASSUME IndInv, NEW r \in Requests, WriteRejected(r) \/ Fault(r)
  PROVE  IndInv'
<1>1. Answer(r, "error", {}) /\ UNCHANGED db
  BY DEF WriteRejected, Fault
<1> QED
  BY <1>1, AnswerKeeps DEF Replies

LEMMA FinishKeeps == ASSUME IndInv, NEW r \in Requests, Finish(r) PROVE IndInv'
<1> DEFINE found == {stored \in rows : \E row \in seen[r] : stored.id = row.id}
<1>1. found \in SUBSET Row
  BY DEF IndInv, TypeOK
<1>2. /\ Answer(r, IF seen[r] # {} /\ found = {} THEN "error" ELSE "ok", found)
      /\ UNCHANGED db
  BY DEF Finish
<1> QED
  BY <1>1, <1>2, AnswerKeeps DEF Replies

\* A creation is refused unless its slug, and its name, are free.
LEMMA CreateKeeps ==
  ASSUME IndInv, NEW r \in Requests, CommitCreate(r)
  PROVE  IndInv'
<1> DEFINE new == NewRow(r)
<1> USE DEF IndInv
<1>1. /\ pc[r] = "write" /\ call[r].op = "create" /\ call[r] \in Calls
      /\ nextId \in Nat /\ nextId <= MaxId /\ nextId' = nextId + 1
      /\ rows' = rows \cup {new} /\ Committed(r, {new}) /\ ~Taken(new, rows)
  BY BoundAssumption DEF CommitCreate, CreateFails, TypeOK
<1>2. new \in Row /\ new.id = nextId /\ new.owner = call[r].user
  BY <1>1, NewRowType
<1> HIDE DEF new
<1>3. rows' \in SUBSET Row /\ nextId' \in 1..(MaxId + 1) /\ nextId <= nextId'
  BY <1>1, <1>2, BoundAssumption DEF TypeOK
<1>4. IdsDrawn'
  BY <1>1, <1>2, <1>3 DEF IdsDrawn, TypeOK, Row
<1>5. \A row \in rows : row.id # nextId
  BY <1>1 DEF IdsDrawn, TypeOK, Row
<1>6. SlugsUnique'
  BY <1>1, <1>2, <1>5 DEF SlugsUnique, Taken
<1>7. OwnersKept
  BY <1>1, <1>2 DEF OwnersKept
<1>8. \A row \in {new} :
        /\ row.id < nextId' /\ IsOwner(call[r].user, row)
        /\ \A other \in {new} : other = row
        /\ \A stored \in rows' : stored.id = row.id => stored.owner = row.owner
  BY <1>1, <1>2, <1>5 DEF IsOwner
<1>9. {new} \in SUBSET Row /\ call[r].op # "delete"
  BY <1>1, <1>2
<1> QED
  BY <1>1, <1>3, <1>4, <1>6, <1>7, <1>8, <1>9, CommittedKeeps

\* What an edit leaves of the row it writes, and of the others.
LEMMA EditedRows ==
  ASSUME IndInv, NEW r \in Requests, pc[r] = "write", NEW row \in seen[r]
  PROVE  /\ row \in Row /\ call[r] \in Calls
         /\ EditRows(r, row) \in SUBSET Row
         /\ \A new \in EditRows(r, row) : \E old \in rows :
              /\ old.id = new.id /\ old.owner = new.owner
              /\ new = IF old.id = row.id THEN Edited(r, row, old) ELSE old
         /\ \A old \in rows : old.id # row.id => old \in EditRows(r, row)
<1>1. row \in Row /\ call[r] \in Calls /\ rows \subseteq Row
  BY DEF IndInv, TypeOK
<1>2. \A old \in rows : /\ Edited(r, row, old) \in Row
                         /\ Edited(r, row, old).id = old.id
                         /\ Edited(r, row, old).owner = old.owner
  BY <1>1, EditedRow
<1> QED
  BY <1>1, <1>2 DEF EditRows

LEMMA EditKeeps ==
  ASSUME IndInv, NEW r \in Requests, CommitEdit(r)
  PROVE  IndInv'
<1> USE DEF IndInv
<1>1. PICK row \in seen[r] : ~EditFails(r, row) /\ rows' = EditRows(r, row)
  BY DEF CommitEdit
<1>2. /\ pc[r] = "write" /\ call[r].op = "edit" /\ Committed(r, seen[r])
      /\ nextId' = nextId /\ seen[r] \in SUBSET Row
  BY DEF CommitEdit, TypeOK
<1>3. /\ row \in Row /\ call[r] \in Calls /\ rows' \in SUBSET Row
      /\ \A new \in rows' : \E old \in rows :
           /\ old.id = new.id /\ old.owner = new.owner
           /\ new = IF old.id = row.id THEN Edited(r, row, old) ELSE old
  BY <1>1, <1>2, EditedRows
<1>4. IdsDrawn' /\ OwnersKept
  BY <1>2, <1>3 DEF IdsDrawn, OwnersKept
<1>5. SlugsUnique'
  <2>1. CASE Dirty(r, row) = {}
    <3>1. \A old \in rows : Edited(r, row, old) = old
      BY <1>3, <2>1, EditedRow DEF TypeOK
    <3>2. \A new \in rows' : new \in rows
      BY <1>3, <3>1
    <3> QED
      BY <3>2 DEF SlugsUnique
  <2>2. CASE Dirty(r, row) # {}
    <3>1. \A old \in rows : old.id = row.id => ~Taken(Edited(r, row, old), rows)
      BY <1>1, <2>2 DEF EditFails
    <3> SUFFICES ASSUME NEW a \in rows', NEW b \in rows',
                        \/ a.id = b.id \/ a.slug = b.slug
                        \/ (Kind = "category" /\ a.name = b.name)
                 PROVE  a = b
      BY DEF SlugsUnique
    <3>2. PICK x \in rows : /\ x.id = a.id
                            /\ a = IF x.id = row.id THEN Edited(r, row, x) ELSE x
      BY <1>3
    <3>3. PICK y \in rows : /\ y.id = b.id
                            /\ b = IF y.id = row.id THEN Edited(r, row, y) ELSE y
      BY <1>3
    <3>4. CASE x.id = y.id
      BY <3>2, <3>3, <3>4 DEF SlugsUnique
    <3>5. CASE x.id # y.id /\ x.id = row.id
      BY <3>1, <3>2, <3>3, <3>5 DEF Taken
    <3>6. CASE x.id # y.id /\ y.id = row.id
      BY <3>1, <3>2, <3>3, <3>6 DEF Taken
    <3>7. CASE x.id # row.id /\ y.id # row.id
      BY <3>2, <3>3, <3>7 DEF SlugsUnique
    <3> QED
      BY <3>4, <3>5, <3>6, <3>7
  <2> QED
    BY <2>1, <2>2
<1>6. PlaceOK(r) /\ HoldsOwnRow(r)
  BY DEF SessionsHoldOwnRows
<1>7. \A held \in seen[r] : \A stored \in rows' :
        stored.id = held.id => stored.owner = held.owner
  BY <1>3, <1>6 DEF HoldsOwnRow
<1> QED
  BY <1>2, <1>3, <1>4, <1>5, <1>6, <1>7, CommittedKeeps DEF TypeOK, HoldsOwnRow

LEMMA DeleteKeeps ==
  ASSUME IndInv, NEW r \in Requests, CommitDelete(r)
  PROVE  IndInv'
<1> USE DEF IndInv
<1>1. /\ pc[r] = "write" /\ Committed(r, {}) /\ nextId' = nextId
      /\ \A row \in rows' : row \in rows
  BY DEF CommitDelete
<1>2. rows' \in SUBSET Row /\ IdsDrawn' /\ SlugsUnique' /\ OwnersKept
  BY <1>1 DEF TypeOK, IdsDrawn, SlugsUnique, OwnersKept
<1> QED
  BY <1>1, <1>2, CommittedKeeps DEF TypeOK

-----------------------------------------------------------------------------
(* The invariant, and what it says of the table. *)

LEMMA NextKeeps == ASSUME IndInv, [Next]_vars PROVE IndInv'
<1>1. CASE UNCHANGED vars
  BY <1>1 DEF vars, db, IndInv, TypeOK, IdsDrawn, SlugsUnique, SessionsHoldOwnRows,
              PlaceOK, HoldsOwnRow, IsOwner, PayloadRejected
<1>2. ASSUME NEW u \in Demotable, Demote(u) PROVE IndInv'
  BY <1>2, DemoteKeeps
<1>3. ASSUME NEW r \in Requests, NEW c \in Calls, Begin(r, c) PROVE IndInv'
  BY <1>3, BeginKeeps
<1>4. ASSUME NEW r \in Requests, Load(r) PROVE IndInv'
  BY <1>4, LoadKeeps
<1>5. ASSUME NEW r \in Requests, Find(r) PROVE IndInv'
  BY <1>5, FindKeeps
<1>6. ASSUME NEW r \in Requests, Commit(r) PROVE IndInv'
  BY <1>6, CreateKeeps, EditKeeps, DeleteKeeps DEF Commit
<1>7. ASSUME NEW r \in Requests, WriteRejected(r) \/ Fault(r) PROVE IndInv'
  BY <1>7, RejectedKeeps
<1>8. ASSUME NEW r \in Requests, Finish(r) PROVE IndInv'
  BY <1>8, FinishKeeps
<1> QED
  BY <1>1, <1>2, <1>3, <1>4, <1>5, <1>6, <1>7, <1>8 DEF Next

\* The table changes in the write phase of a request only.
LEMMA OnlyCommitsWrite ==
  ASSUME [Next]_vars, rows' # rows
  PROVE  \E r \in Requests : CommitCreate(r) \/ CommitEdit(r) \/ CommitDelete(r)
BY DEF Next, vars, db, Demote, Begin, Load, Find, WriteRejected, Finish, Fault,
       Answer, Commit

\* The invariant of Catalog is inductive.
THEOREM CatalogInvariance == Spec => []IndInv
<1>1. Init => IndInv
  BY InitInv
<1>2. IndInv /\ [Next]_vars => IndInv'
  BY NextKeeps
<1> QED
  BY <1>1, <1>2, PTL DEF Spec

\* Every variable keeps its type.
THEOREM CatalogTypes == Spec => []TypeOK
BY CatalogInvariance, PTL DEF IndInv

\* create_prompt_block and its siblings never look whether a slug is free; the
\* constraint still keeps slugs (and the names of categories) apart, for any number
\* of requests.
THEOREM SlugsStayUnique == Spec => []SlugsUnique
BY CatalogInvariance, PTL DEF IndInv

\* A handler that writes has a row its caller may write, however long ago it
\* was loaded and whatever was committed since.
THEOREM SessionsKeepOwnRows == Spec => []SessionsHoldOwnRows
BY CatalogInvariance, PTL DEF IndInv

\* The slug of a category is never empty: CategoryUpdate and CategoryCreate reject
\* a name that has none before the handler runs, and an edit writes no other.
THEOREM CategorySlugsNonEmpty ==
  ASSUME Kind = "category" PROVE Spec => []SlugsNonEmpty
<1>1. Init => SlugsNonEmpty
  BY DEF Init, SlugsNonEmpty
<1>2. IndInv /\ SlugsNonEmpty /\ [Next]_vars => SlugsNonEmpty'
  <2> SUFFICES ASSUME IndInv, SlugsNonEmpty, [Next]_vars, NEW new \in rows'
               PROVE  new.slug # EmptySlug
    BY DEF SlugsNonEmpty
  <2>1. CASE rows' = rows
    BY <2>1 DEF SlugsNonEmpty
  <2>2. ASSUME NEW r \in Requests, CommitCreate(r) PROVE new.slug # EmptySlug
    BY <2>2 DEF CommitCreate, CreateFails, SlugsNonEmpty
  <2>3. ASSUME NEW r \in Requests, CommitEdit(r) PROVE new.slug # EmptySlug
    <3>1. PICK row \in seen[r] : pc[r] = "write" /\ rows' = EditRows(r, row)
      BY <2>3 DEF CommitEdit
    <3>2. PICK old \in rows : new = IF old.id = row.id THEN Edited(r, row, old) ELSE old
      BY <3>1, EditedRows
    <3>3. new.slug \in {old.slug, SlugOf[call[r].name]}
      BY <3>1, <3>2, EditedRows, EditedRow DEF IndInv, TypeOK
    <3>4. ~PayloadRejected(call[r]) /\ call[r].op = "edit"
      BY <2>3 DEF CommitEdit, IndInv, SessionsHoldOwnRows, PlaceOK
    <3> QED
      BY <3>3, <3>4 DEF SlugsNonEmpty, PayloadRejected
  <2>4. ASSUME NEW r \in Requests, CommitDelete(r) PROVE new.slug # EmptySlug
    BY <2>4 DEF CommitDelete, SlugsNonEmpty
  <2> QED
    BY <2>1, <2>2, <2>3, <2>4, OnlyCommitsWrite
<1> QED
  BY <1>1, <1>2, CatalogInvariance, PTL DEF Spec

\* Only the owner of a record, or a superuser, edits or deletes it, and no edit
\* changes its owner: _require_owner is asked when the row is loaded, and still
\* holds when it is written.
THEOREM OwnersWriteOnly == Spec => OnlyOwnersWrite
<1> DEFINE Step ==
      \A old \in rows :
        old \notin rows' =>
          \E r \in Requests :
            /\ pc[r] = "write" /\ pc'[r] = "committed"
            /\ IsOwner(call[r].user, old)
            /\ \A new \in rows' : new.id = old.id => new.owner = old.owner
<1>1. IndInv /\ [Next]_vars => [Step]_vars
  <2> SUFFICES ASSUME IndInv, [Next]_vars, NEW old \in rows, old \notin rows'
               PROVE  \E r \in Requests :
                        /\ pc[r] = "write" /\ pc'[r] = "committed"
                        /\ IsOwner(call[r].user, old)
                        /\ \A new \in rows' : new.id = old.id => new.owner = old.owner
    OBVIOUS
  <2>1. PICK r \in Requests : CommitEdit(r) \/ CommitDelete(r)
    BY OnlyCommitsWrite DEF CommitCreate
  <2>2. /\ pc[r] = "write" /\ pc'[r] = "committed"
        /\ PlaceOK(r) /\ HoldsOwnRow(r)
    BY <2>1 DEF CommitEdit, CommitDelete, Committed, IndInv, TypeOK, SessionsHoldOwnRows
  <2>3. CASE CommitEdit(r)
    <3>1. PICK row \in seen[r] : rows' = EditRows(r, row)
      BY <2>3 DEF CommitEdit
    <3>2. old.id = row.id /\ old.owner = row.owner
      BY <2>2, <3>1, EditedRows DEF HoldsOwnRow
    <3>3. \A new \in rows' : new.id = old.id => new.owner = old.owner
      BY <2>2, <3>1, EditedRows DEF IndInv, SlugsUnique
    <3> QED
      BY <2>2, <3>2, <3>3 DEF HoldsOwnRow, IsOwner
  <2>4. CASE CommitDelete(r)
    <3>1. /\ old.id = call[r].id /\ call[r].op = "delete" /\ seen[r] # {}
          /\ \A new \in rows' : new.id # old.id
      BY <2>2, <2>4 DEF CommitDelete, PlaceOK
    <3>2. PICK row \in seen[r] : row.id = old.id /\ row.owner = old.owner
      BY <2>2, <3>1 DEF HoldsOwnRow
    <3> QED
      BY <2>2, <3>1, <3>2 DEF HoldsOwnRow, IsOwner
  <2> QED
    BY <2>1, <2>3, <2>4
<1>2. Spec => [][Step]_vars
  BY <1>1, CatalogInvariance, PTL DEF Spec
<1> QED
  BY <1>2 DEF OnlyOwnersWrite

\* An edit that loaded a record before its deletion does not bring it back.
THEOREM DeletedStaysDeleted == Spec => NoResurrection
<1> DEFINE Step == \A new \in rows' :
                     (\E old \in rows : old.id = new.id) \/ new.id = nextId
<1>1. IndInv /\ [Next]_vars => [Step]_vars
  <2> SUFFICES ASSUME IndInv, [Next]_vars, NEW new \in rows', new \notin rows
               PROVE  (\E old \in rows : old.id = new.id) \/ new.id = nextId
    OBVIOUS
  <2>1. PICK r \in Requests : CommitCreate(r) \/ CommitEdit(r)
    BY OnlyCommitsWrite DEF CommitDelete
  <2>2. CASE CommitCreate(r)
    BY <2>2, NewRowType, BoundAssumption
       DEF CommitCreate, CreateFails, IndInv, TypeOK, SessionsHoldOwnRows, PlaceOK
  <2>3. CASE CommitEdit(r)
    BY <2>3, EditedRows DEF CommitEdit
  <2> QED
    BY <2>1, <2>2, <2>3
<1>2. Spec => [][Step]_vars
  BY <1>1, CatalogInvariance, PTL DEF Spec
<1> QED
  BY <1>2 DEF NoResurrection

\* No answer shows a private record to anyone but its owner or a superuser: neither
\* the reads, which decide on the row or in the query, nor the writes, which read
\* the row again after the commit.
THEOREM AnswersAreVisible == Spec => OnlyVisibleShown
<1> DEFINE Step ==
      \A r \in Requests : pc[r] # "idle" /\ pc'[r] = "idle" =>
        \A row \in answer'.rows : IsVisible(call[r].user, row)
<1>1. IndInv /\ [Next]_vars => [Step]_vars
  <2> SUFFICES ASSUME IndInv, Next, NEW r \in Requests, pc[r] # "idle",
                      pc'[r] = "idle", NEW row \in answer'.rows
               PROVE  IsVisible(call[r].user, row)
    OBVIOUS
  <2>1. Load(r) \/ Find(r) \/ WriteRejected(r) \/ Finish(r) \/ Fault(r)
    <3>1. ASSUME NEW s \in Requests, NEW c \in Calls, Begin(s, c) PROVE FALSE
      BY <3>1, CallsAssumption DEF Begin, Place, IndInv, TypeOK
    <3>2. ASSUME NEW s \in Requests, Commit(s) PROVE FALSE
      BY <3>2
         DEF Commit, CommitCreate, CommitEdit, CommitDelete, Committed, IndInv, TypeOK
    <3>3. ASSUME NEW s \in Requests, s # r,
                 Load(s) \/ Find(s) \/ WriteRejected(s) \/ Finish(s) \/ Fault(s)
          PROVE  FALSE
      BY <3>3 DEF Load, Find, WriteRejected, Finish, Fault, Answer, IndInv, TypeOK
    <3> QED
      BY <3>1, <3>2, <3>3 DEF Next, Demote
  <2>2. call[r] \in Calls /\ PlaceOK(r) /\ HoldsOwnRow(r)
    BY DEF IndInv, TypeOK, SessionsHoldOwnRows
  <2>3. CASE Load(r)
    <3> DEFINE found == {x \in rows : x.id = call[r].id}
               verdict == Verdict(r, found)
    <3>1. Answer(r, verdict, IF verdict = "ok" THEN found ELSE {})
      BY <2>3 DEF Load, IndInv, TypeOK
    <3>2. verdict = "ok" /\ row \in found
      BY <3>1 DEF Answer
    <3>3. call[r].op = "get" /\ \A x \in found : IsVisible(call[r].user, x)
      BY <3>2 DEF Verdict, NotFound, Denied
    <3> QED
      BY <3>2, <3>3
  <2>4. CASE Find(r)
    <3>1. InQuery(call[r].user, caller[r], row)
      BY <2>4 DEF Find, Answer
    <3>2. Kind # "category"
      BY <2>2, <2>4, CategoryAssumption DEF Find, PlaceOK
    <3> QED
      BY <3>1, <3>2 DEF InQuery, IsVisible, IsOwner
  <2>5. CASE Finish(r)
    <3>1. PICK held \in seen[r] : row \in rows /\ row.id = held.id
      BY <2>5 DEF Finish, Answer
    <3> QED
      BY <2>2, <3>1 DEF HoldsOwnRow, IsOwner, IsVisible
  <2>6. CASE WriteRejected(r) \/ Fault(r)
    BY <2>6 DEF WriteRejected, Fault, Answer
  <2> QED
    BY <2>1, <2>3, <2>4, <2>5, <2>6
<1>2. Spec => [][Step]_vars
  BY <1>1, CatalogInvariance, PTL DEF Spec
<1> QED
  BY <1>2 DEF OnlyVisibleShown

\* An edit whose row nobody changed since it was loaded stores its payload.
THEOREM FreshEdits == Spec => FreshEditsAreExact
<1> DEFINE Step ==
      \A r \in Requests : \A row \in seen[r] :
        pc[r] = "write" /\ pc'[r] = "committed" /\ call[r].op = "edit"
          /\ row \in rows => Applied(row, call[r]) \in rows'
<1>1. IndInv /\ [Next]_vars => [Step]_vars
  <2> SUFFICES ASSUME IndInv, Next, NEW r \in Requests, NEW row \in seen[r],
                      pc[r] = "write", pc'[r] = "committed", call[r].op = "edit",
                      row \in rows
               PROVE  Applied(row, call[r]) \in rows'
    OBVIOUS
  <2>1. CommitEdit(r)
    <3>1. ASSUME NEW s \in Requests, NEW c \in Calls, Begin(s, c) PROVE FALSE
      BY <3>1 DEF Begin, Place, IndInv, TypeOK
    <3>2. ASSUME NEW s \in Requests,
                 Load(s) \/ Find(s) \/ WriteRejected(s) \/ Finish(s) \/ Fault(s)
          PROVE  FALSE
      BY <3>2 DEF Load, Find, WriteRejected, Finish, Fault, Answer, IndInv, TypeOK
    <3>3. ASSUME NEW s \in Requests, Commit(s) PROVE CommitEdit(r)
      BY <3>3
         DEF Commit, CommitCreate, CommitEdit, CommitDelete, Committed, IndInv, TypeOK
    <3> QED
      BY <3>1, <3>2, <3>3 DEF Next, Demote
  <2>2. HoldsOwnRow(r) /\ call[r] \in Calls /\ row \in Row
    BY DEF IndInv, TypeOK, SessionsHoldOwnRows
  <2>3. rows' = EditRows(r, row)
    BY <2>1, <2>2 DEF CommitEdit, HoldsOwnRow
  <2>4. Edited(r, row, row) \in rows'
    BY <2>3 DEF EditRows
  <2> QED
    BY <2>2, <2>4, EditedRow
<1>2. Spec => [][Step]_vars
  BY <1>1, CatalogInvariance, PTL DEF Spec
<1> QED
  BY <1>2 DEF FreshEditsAreExact

-----------------------------------------------------------------------------
(* Slugs follow names if no two edits of one record overlap. *)

\* A step that writes nothing and loads nothing keeps the sessions current.
LEMMA SlugQuiet ==
  ASSUME SlugInv, rows' = rows,
         \A q \in Requests : Editing(q)' =>
           \/ Editing(q) /\ seen'[q] = seen[q]
           \/ \A row \in seen'[q] : \A stored \in rows : stored.id = row.id => stored = row
  PROVE  SlugInv'
BY DEF SlugInv, SlugFollowsName

\* The requests that a write phase leaves at the same place.
LEMMA OthersWait ==
  ASSUME IndInv, NEW r \in Requests, NEW held, Committed(r, held), pc[r] = "write"
  PROVE  \A q \in Requests : Editing(q)' => q # r /\ Editing(q) /\ seen'[q] = seen[q]
BY DEF IndInv, TypeOK, Committed, Editing

\* Between load and write, a request that begins or answers edits nothing.
LEMMA OthersEdit ==
  ASSUME IndInv, NEW r \in Requests, NEW status, NEW shown, Answer(r, status, shown)
  PROVE  \A q \in Requests : Editing(q)' => Editing(q) /\ seen'[q] = seen[q]
BY DEF IndInv, TypeOK, Answer, Editing

LEMMA SlugCreate ==
  ASSUME IndInv, SlugInv, NEW r \in Requests, CommitCreate(r)
  PROVE  SlugInv'
<1>1. /\ pc[r] = "write" /\ call[r] \in Calls /\ nextId <= MaxId
      /\ rows' = rows \cup {NewRow(r)} /\ Committed(r, {NewRow(r)})
  BY BoundAssumption DEF CommitCreate, CreateFails, IndInv, TypeOK
<1>2. /\ NewRow(r).id = nextId
      /\ NewRow(r).name = call[r].name /\ NewRow(r).slug = SlugOf[call[r].name]
  <2>1. NewRow(r).id = nextId /\ NewRow(r).slug = SlugOf[call[r].name]
    BY <1>1, NewRowType DEF IndInv
  <2> QED BY <2>1 DEF NewRow, Applied
<1>3. \A q \in Requests : Editing(q)' => q # r /\ Editing(q) /\ seen'[q] = seen[q]
  BY <1>1, OthersWait
<1>4. \A q \in Requests : \A row \in seen[q] : row.id < nextId /\ row.id \in Nat
  BY BoundAssumption DEF IndInv, SessionsHoldOwnRows, HoldsOwnRow, TypeOK, Row
<1>5. nextId \in Nat
  BY BoundAssumption DEF IndInv, TypeOK
<1> QED BY <1>1, <1>2, <1>3, <1>4, <1>5 DEF SlugInv, SlugFollowsName

LEMMA SlugEdit ==
  ASSUME IndInv, SlugInv, OneEditPerRecord, NEW r \in Requests, CommitEdit(r)
  PROVE  SlugInv'
<1>1. /\ pc[r] = "write" /\ Editing(r) /\ Committed(r, seen[r])
      /\ call[r].op = "edit"
  BY DEF CommitEdit, Editing
<1>2. PICK row \in seen[r] : rows' = EditRows(r, row)
  BY DEF CommitEdit
<1>3. /\ row \in Row /\ call[r] \in Calls /\ row.id = call[r].id
  BY <1>1 DEF IndInv, TypeOK, SessionsHoldOwnRows, HoldsOwnRow
<1>4. \A new \in rows' : \E old \in rows :
         /\ old.id = new.id
         /\ new = IF old.id = row.id THEN Edited(r, row, old) ELSE old
  BY <1>1, <1>2, EditedRows
<1>5. \A old \in rows : old.id = row.id => old = row
  BY <1>1 DEF SlugInv
<1>6. Edited(r, row, row) = Applied(row, call[r])
  BY <1>3, EditedRow
<1>7. /\ Applied(row, call[r]).name = call[r].name
      /\ Applied(row, call[r]).slug = SlugOf[call[r].name]
  BY <1>3, AppliedRow
<1>8. SlugFollowsName'
  <2> SUFFICES ASSUME NEW new \in rows' PROVE new.slug = SlugOf[new.name]
    BY DEF SlugFollowsName
  <2>1. PICK old \in rows :
          /\ old.id = new.id
          /\ new = IF old.id = row.id THEN Edited(r, row, old) ELSE old
    BY <1>4
  <2>2. CASE old.id = row.id
    BY <1>5, <1>6, <1>7, <2>1, <2>2
  <2>3. CASE old.id # row.id
    BY <2>1, <2>3 DEF SlugInv, SlugFollowsName
  <2> QED BY <2>2, <2>3
<1>9. ASSUME NEW q \in Requests, Editing(q)', NEW held \in seen'[q], NEW stored \in rows',
             stored.id = held.id
      PROVE  stored = held
  <2>1. q # r /\ Editing(q) /\ seen'[q] = seen[q]
    BY <1>1, <1>9, OthersWait
  <2>2. held \in seen[q] /\ held.id = call[q].id
    BY <1>9, <2>1 DEF Editing, IndInv, SessionsHoldOwnRows, HoldsOwnRow
  <2>3. held.id # row.id
    BY <1>1, <1>3, <2>1, <2>2 DEF OneEditPerRecord
  <2>4. stored \in rows
    BY <1>4, <1>9, <2>3
  <2> QED BY <1>9, <2>1, <2>2, <2>4 DEF SlugInv
<1> QED BY <1>8, <1>9 DEF SlugInv

LEMMA SlugDelete ==
  ASSUME IndInv, SlugInv, NEW r \in Requests, CommitDelete(r)
  PROVE  SlugInv'
<1>1. pc[r] = "write" /\ Committed(r, {}) /\ \A row \in rows' : row \in rows
  BY DEF CommitDelete
<1>2. \A q \in Requests : Editing(q)' => Editing(q) /\ seen'[q] = seen[q]
  BY <1>1, OthersWait
<1> QED BY <1>1, <1>2 DEF SlugInv, SlugFollowsName

LEMMA SlugLoad ==
  ASSUME IndInv, SlugInv, NEW r \in Requests, Load(r)
  PROVE  SlugInv'
<1> DEFINE found == {row \in rows : row.id = call[r].id}
<1>1. rows' = rows
  BY DEF Load, db
<1>2. CASE pc' = [pc EXCEPT ![r] = "write"] /\ seen' = [seen EXCEPT ![r] = found] /\ call' = call
  <2>1. \A row \in found : \A stored \in rows : stored.id = row.id => stored = row
    BY DEF IndInv, SlugsUnique
  <2>2. ASSUME NEW q \in Requests, Editing(q)'
        PROVE  \/ Editing(q) /\ seen'[q] = seen[q]
               \/ \A row \in seen'[q] : \A stored \in rows : stored.id = row.id => stored = row
    <3>1. CASE q = r
      <4>1. seen'[q] = found
        BY <1>2, <3>1 DEF IndInv, TypeOK
      <4> QED BY <2>1, <4>1
    <3>2. CASE q # r
      BY <1>2, <2>2, <3>2 DEF IndInv, TypeOK, Editing
    <3> QED BY <3>1, <3>2
  <2> QED BY <1>1, <2>2, SlugQuiet
<1>3. CASE \E status, shown : Answer(r, status, shown)
  BY <1>1, <1>3, OthersEdit, SlugQuiet
<1> QED BY <1>2, <1>3 DEF Load

LEMMA SlugNext ==
  ASSUME IndInv, SlugInv, OneEditPerRecord, [Next]_vars
  PROVE  SlugInv'
<1>1. CASE UNCHANGED vars
  BY <1>1 DEF vars, SlugInv, SlugFollowsName, Editing
<1>2. ASSUME NEW u \in Demotable, Demote(u) PROVE SlugInv'
  BY <1>2 DEF Demote, db, SlugInv, SlugFollowsName, Editing
<1>3. ASSUME NEW r \in Requests, NEW c \in Calls, Begin(r, c) PROVE SlugInv'
  <2>1. rows' = rows /\ seen' = seen
    BY <1>3 DEF Begin, db
  <2>2. \A q \in Requests : (pc'[q] = pc[q] /\ call'[q] = call[q]) \/ q = r
    BY <1>3 DEF Begin, IndInv, TypeOK
  <2>3. seen[r] = {}
    BY <1>3 DEF Begin, IndInv, SessionsHoldOwnRows, PlaceOK
  <2>4. \A q \in Requests : Editing(q)' =>
          \/ Editing(q) /\ seen'[q] = seen[q]
          \/ \A row \in seen'[q] : \A stored \in rows : stored.id = row.id => stored = row
    BY <2>1, <2>2, <2>3 DEF Editing
  <2> QED BY <2>1, <2>4, SlugQuiet
<1>4. ASSUME NEW r \in Requests, Load(r) PROVE SlugInv'
  BY <1>4, SlugLoad
<1>5. ASSUME NEW r \in Requests, Commit(r) PROVE SlugInv'
  BY <1>5, SlugCreate, SlugEdit, SlugDelete DEF Commit
<1>6. ASSUME NEW r \in Requests, Find(r) \/ WriteRejected(r) \/ Finish(r) \/ Fault(r)
      PROVE  SlugInv'
  <2>1. /\ \E status, shown : Answer(r, status, shown)
        /\ rows' = rows
    BY <1>6 DEF Find, WriteRejected, Finish, Fault, db
  <2> QED BY <2>1, OthersEdit, SlugQuiet
<1> QED BY <1>1, <1>2, <1>3, <1>4, <1>5, <1>6 DEF Next

\* "The slug is derived from the name, so two clients cannot disagree on it"
\* (test_a_caller_supplied_slug_does_not_win).  It is so as long as no two edits of
\* one record overlap, whatever else does: creations, deletions, reads, faults, roles
\* that are taken away.  The run drift shows what two overlapping edits do.
THEOREM EditsKeepSlugs == Spec /\ []OneEditPerRecord => []SlugFollowsName
<1>1. Init => SlugInv
  BY DEF Init, SlugInv, SlugFollowsName, Editing
<1>2. IndInv /\ SlugInv /\ OneEditPerRecord /\ [Next]_vars => SlugInv'
  BY SlugNext
<1>3. SlugInv => SlugFollowsName
  BY DEF SlugInv
<1> QED BY <1>1, <1>2, <1>3, CatalogInvariance, PTL DEF Spec

=============================================================================
