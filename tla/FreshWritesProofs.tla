-------------------------- MODULE FreshWritesProofs --------------------------
(***************************************************************************)
(* Why the flushes of add_template_block_and_reorder and of                *)
(* update_template_block_position run in the order they do: on rows that   *)
(* nobody has changed, none of their statements meets a unique constraint, *)
(* and the rows are left at the positions 1..n, for any number of blocks.  *)
(***************************************************************************)
EXTENDS TemplateBlocksProofs

-----------------------------------------------------------------------------
(* Flushes and indexes. *)

\* A flush succeeds when no row is set to a position that another row of its
\* template has by then.
LEMMA NoClash ==
  ASSUME NEW rows \in SUBSET LinkRow, DistinctIds(rows),
         NEW D \in SUBSET IdsOf(rows), NEW pos \in [D -> Int], NEW order \in [D -> Int],
         \A l, m \in rows :
           l.id \in D /\ m.id # l.id /\ m.template = l.template =>
             pos[l.id] # IF m.id \in D /\ order[m.id] <= order[l.id]
                         THEN pos[m.id] ELSE m.position
  PROVE  ~FlushFails(rows, pos, order)
<1> SUFFICES ASSUME NEW i \in D,
                    LET done == Updated(rows, pos, {j \in D : order[j] <= order[i]})
                    IN \E l \in done : l.id = i /\ PositionTaken(done, l)
             PROVE  FALSE
  BY DEF FlushFails
<1> DEFINE S == {j \in D : order[j] <= order[i]}
           done == Updated(rows, pos, S)
<1>1. Repositions(done, rows, pos, S)
  <2>1. \A j \in S \cap IdsOf(rows) : pos[j] \in Int
    OBVIOUS
  <2> QED BY <2>1, UpdatedRows
<1>2. i \in S
  OBVIOUS
<1>3. PICK u \in done, v \in done :
        u.id = i /\ v.id # i /\ v.template = u.template /\ v.position = u.position
  BY DEF PositionTaken
<1>4. \A j \in D : j \in S <=> order[j] <= order[i]
  OBVIOUS
<1>5. S \subseteq D
  OBVIOUS
<1> HIDE DEF done, S
<1>6. PICK l \in rows : /\ u.id = l.id /\ u.template = l.template
                        /\ u.position = IF l.id \in S THEN pos[l.id] ELSE l.position
  BY <1>1 DEF Repositions
<1>7. PICK m \in rows : /\ v.id = m.id /\ v.template = m.template
                        /\ v.position = IF m.id \in S THEN pos[m.id] ELSE m.position
  BY <1>1 DEF Repositions
<1>8. m.id \in S <=> m.id \in D /\ order[m.id] <= order[l.id]
  BY <1>3, <1>4, <1>5, <1>6
<1> QED BY <1>2, <1>3, <1>6, <1>7, <1>8

\* Of two rows at different positions, the later one has the greater index.
LEMMA IndexStrict ==
  ASSUME NEW rows \in SUBSET LinkRow, IsFiniteSet(rows), NEW l \in rows, NEW m \in rows,
         l.position < m.position
  PROVE  Index(rows, l) < Index(rows, m)
<1> DEFINE upto(x) == {k \in rows : k.position <= x.position}
<1>0. \A k \in rows : k.position \in Int
  BY DEF LinkRow
<1>1. upto(l) \in SUBSET upto(m) /\ m \in upto(m) /\ m \notin upto(l)
  BY <1>0
<1>2. IsFiniteSet(upto(m)) /\ IsFiniteSet(upto(l))
  BY FS_Subset
<1>3. Index(rows, l) = Cardinality(upto(l)) /\ Index(rows, m) = Cardinality(upto(m))
  BY DEF Index
<1> HIDE DEF upto
<1>4. Cardinality(upto(l)) <= Cardinality(upto(m)) /\ Cardinality(upto(l)) # Cardinality(upto(m))
  BY <1>1, <1>2, FS_Subset
<1>5. Cardinality(upto(l)) \in Nat /\ Cardinality(upto(m)) \in Nat
  BY <1>2, FS_CardinalityType
<1> QED BY <1>3, <1>4, <1>5

\* What a request that writes on fresh rows knows.
LEMMA FreshFacts ==
  ASSUME NEW r, Writing(r), Fresh(r)
  PROVE  /\ links \in SUBSET LinkRow /\ DistinctIds(links) /\ DistinctPositions(links)
         /\ seen[r] \in SUBSET links
         /\ \A l \in links : l \in seen[r] <=> l.template = call[r].template
         /\ \A l \in links : l.position \in Int /\ l.position >= 1 /\ l.id \in Int
         /\ \A l, m \in seen[r] : l.position = m.position => l = m
<1>1. /\ links \in SUBSET LinkRow /\ DistinctIds(links) /\ DistinctPositions(links)
      /\ \A l \in links : l.position >= 1
  BY DEF Writing, IndInv, TypeOK, LinksInv, UniquePositions, PositionsInRange, DistinctIds,
         DistinctPositions
<1>2. \A l \in links : l.position \in Int /\ l.id \in Int
  BY <1>1, BoundAssumption DEF LinkRow, LinkIds
<1>3. seen[r] = {l \in links : l.template = call[r].template}
  BY DEF Fresh, LinksOf
<1> QED BY <1>1, <1>2, <1>3 DEF DistinctPositions

-----------------------------------------------------------------------------
(* An attachment. *)

\* Which rows are shifted, where to, and when.
LEMMA ShiftFacts ==
  ASSUME NEW r, Writing(r), Fresh(r)
  PROVE  LET p == ClampedPosition(call[r], seen[r])
             D == DOMAIN AddShift(r)
         IN /\ D \in SUBSET IdsOf(links) /\ AddShift(r) \in [D -> Int] /\ AddOrder(r) \in [D -> Int]
            /\ \A l \in links :
                 /\ l.id \in D <=> l \in seen[r] /\ l.position >= p
                 /\ l.id \in D => /\ AddShift(r)[l.id] = l.position + 1
                                  /\ AddOrder(r)[l.id] = -(l.position + 1)
<1> DEFINE p == ClampedPosition(call[r], seen[r])
           shifted == {l \in seen[r] : l.position >= p}
           D == IdsOf(shifted)
<1>1. /\ AddShift(r) = [i \in D |-> RowOf(shifted, i).position + 1]
      /\ AddOrder(r) = [i \in DOMAIN AddShift(r) |-> -AddShift(r)[i]]
  BY DEF AddShift, AddOrder
<1>2. DOMAIN AddShift(r) = D
  BY <1>1
<1>3. DistinctIds(links) /\ seen[r] \in SUBSET links
  BY FreshFacts
<1>4. \A l \in links : l.id \in D <=> l \in seen[r] /\ l.position >= p
  BY <1>3 DEF IdsOf, DistinctIds
<1>5. ASSUME NEW l \in links, l.id \in D
      PROVE  RowOf(shifted, l.id) = l
  <2>1. RowOf(shifted, l.id) \in shifted /\ RowOf(shifted, l.id).id = l.id
    BY <1>5, RowOfId
  <2> QED BY <1>3, <2>1 DEF DistinctIds
<1>6. D \in SUBSET IdsOf(links)
  BY <1>3 DEF IdsOf
<1>7. AddShift(r) \in [D -> Int] /\ AddOrder(r) \in [D -> Int]
  <2>1. \A n \in 1..nextId : n \in Int
    OBVIOUS
  <2> QED BY <1>2, <2>1, AddPositions
<1> HIDE DEF D, shifted, p
<1>8. ASSUME NEW l \in links, l.id \in D
      PROVE  AddShift(r)[l.id] = l.position + 1 /\ AddOrder(r)[l.id] = -(l.position + 1)
  BY <1>1, <1>2, <1>5, <1>8
<1> QED BY <1>2, <1>4, <1>6, <1>7, <1>8 DEF p

\* The last row moves first: each finds the position after its own free.
LEMMA FreshAddFlushes ==
  ASSUME NEW r, Writing(r), Fresh(r)
  PROVE  ~FlushFails(links, AddShift(r), AddOrder(r))
<1> DEFINE D == DOMAIN AddShift(r)
           p == ClampedPosition(call[r], seen[r])
<1>1. /\ links \in SUBSET LinkRow /\ DistinctIds(links) /\ seen[r] \in SUBSET links
      /\ \A l \in links : l \in seen[r] <=> l.template = call[r].template
      /\ \A l \in links : l.position \in Int
      /\ \A l, m \in seen[r] : l.position = m.position => l = m
  BY FreshFacts
<1>2. /\ D \in SUBSET IdsOf(links) /\ AddShift(r) \in [D -> Int] /\ AddOrder(r) \in [D -> Int]
      /\ \A l \in links : /\ l.id \in D <=> l \in seen[r] /\ l.position >= p
                          /\ l.id \in D => /\ AddShift(r)[l.id] = l.position + 1
                                           /\ AddOrder(r)[l.id] = -(l.position + 1)
  BY ShiftFacts
<1>3. p \in Int
  BY AddPositions, SeenFacts
<1> HIDE DEF D, p
<1>4. ASSUME NEW l \in links, NEW m \in links,
             l.id \in D, m.id # l.id, m.template = l.template
      PROVE  AddShift(r)[l.id] # IF m.id \in D /\ AddOrder(r)[m.id] <= AddOrder(r)[l.id]
                                 THEN AddShift(r)[m.id] ELSE m.position
  <2>1. l \in seen[r] /\ m \in seen[r] /\ l.position >= p /\ l.position # m.position
    BY <1>1, <1>2, <1>4
  <2> QED BY <1>1, <1>2, <1>3, <1>4, <2>1
<1> QED BY <1>1, <1>2, <1>4, NoClash

\* Then the new row finds its own free, and neither its block nor its template gone.
LEMMA FreshAddInserts ==
  ASSUME NEW r, Writing(r), Fresh(r), call[r].op = "add",
         call[r].block \in blocks, nextId <= MaxLinkId
  PROVE  ~InsertFails(Flushed(links, AddShift(r)), NewLink(r))
<1> DEFINE D == DOMAIN AddShift(r)
           p == ClampedPosition(call[r], seen[r])
           mid == Flushed(links, AddShift(r))
<1>1. /\ links \in SUBSET LinkRow /\ seen[r] \in SUBSET links
      /\ \A l \in links : l \in seen[r] <=> l.template = call[r].template
      /\ \A l \in links : l.position \in Int
  BY FreshFacts
<1>2. /\ AddShift(r) \in [D -> Int]
      /\ \A l \in links : /\ l.id \in D <=> l \in seen[r] /\ l.position >= p
                          /\ l.id \in D => AddShift(r)[l.id] = l.position + 1
  BY ShiftFacts
<1>3. p \in Int /\ nextId \in Nat
  BY AddPositions, SeenFacts
<1>4. Repositions(mid, links, AddShift(r), D)
  <2>1. \A i \in D \cap IdsOf(links) : AddShift(r)[i] \in Int
    BY <1>2
  <2> QED BY <1>1, <2>1, UpdatedRows DEF Flushed
<1>5. /\ NewLink(r).template = call[r].template /\ NewLink(r).block = call[r].block
      /\ NewLink(r).position = p
  BY DEF NewLink
<1>6. call[r].block \notin BlocksOf(seen[r])
  BY DEF Writing, IndInv, SessionInv, PlaceOK
<1> HIDE DEF D, p, mid
<1>7. ASSUME NEW u \in mid, u.template = call[r].template
      PROVE  u.position # p /\ u.block # call[r].block
  <2>1. PICK l \in links : /\ u.template = l.template /\ u.block = l.block
                          /\ u.position = IF l.id \in D THEN AddShift(r)[l.id] ELSE l.position
    BY <1>4 DEF Repositions
  <2>2. l \in seen[r] /\ l.block # call[r].block
    BY <1>1, <1>6, <1>7, <2>1 DEF BlocksOf
  <2> QED BY <1>1, <1>2, <1>3, <2>1, <2>2
<1>8. ~PositionTaken(mid, NewLink(r))
  BY <1>5, <1>7 DEF PositionTaken
<1>9. call[r].template \in templates /\ ~(nextId > MaxLinkId)
  BY <1>3, BoundAssumption DEF Fresh
<1> QED BY <1>5, <1>7, <1>8, <1>9 DEF InsertFails, mid

-----------------------------------------------------------------------------
(* A move. *)

\* The rows of the template, all of which a move writes, get distinct positions.
LEMMA MoveFacts ==
  ASSUME NEW r, Writing(r), Fresh(r), call[r].op = "move"
  PROVE  LET D == IdsOf(seen[r])
             final == MoveFinal(r)
         IN /\ D \in SUBSET IdsOf(links)
            /\ \A i \in D : i \in Int
            /\ final \in [D -> Int] /\ MoveParked(r) \in [D -> Int]
            /\ \A i \in D : final[i] >= 1 /\ MoveParked(r)[i] = -final[i]
            /\ \A l \in links : l.id \in D <=> l.template = call[r].template
            /\ \A i, j \in D : i # j => final[i] # final[j]
<1> DEFINE D == IdsOf(seen[r])
           others == {m \in seen[r] : m.block # call[r].block}
           p == call[r].position
<1>1. /\ links \in SUBSET LinkRow /\ DistinctIds(links) /\ seen[r] \in SUBSET links
      /\ \A l \in links : l \in seen[r] <=> l.template = call[r].template
      /\ \A l \in links : l.position \in Int /\ l.id \in Int
      /\ \A l, m \in seen[r] : l.position = m.position => l = m
  BY FreshFacts
<1>2. \A l, m \in seen[r] : l.block = m.block => l = m
  BY <1>1 DEF Writing, IndInv, LinksInv, UniqueBlocks
<1>3. /\ others \in SUBSET LinkRow /\ IsFiniteSet(others) /\ Cardinality(others) \in Nat
      /\ nextId \in Nat /\ p \in Int
      /\ MoveFinal(r) \in [D -> 1..(nextId - 1)]
  BY SeenFacts, MovePositions DEF CallType
<1>4. \A i \in D : RowOf(seen[r], i) \in seen[r] /\ RowOf(seen[r], i).id = i
  BY RowOfId
<1>5. \A i \in D : MoveFinal(r)[i] = MovedPosition(r, RowOf(seen[r], i))
  BY DEF MoveFinal
<1>6. \A i \in D : MoveFinal(r)[i] \in Int /\ MoveFinal(r)[i] >= 1
  BY <1>3
<1>7. \A i \in D : MoveParked(r)[i] = -MoveFinal(r)[i]
  BY DEF MoveParked
<1>8. MoveFinal(r) \in [D -> Int] /\ MoveParked(r) \in [D -> Int]
  BY <1>3, <1>6, MovePositions
<1>9. \A l \in links : l.id \in D <=> l.template = call[r].template
  BY <1>1 DEF IdsOf, DistinctIds
<1>10. D \in SUBSET IdsOf(links) /\ \A i \in D : i \in Int
  BY <1>1 DEF IdsOf
\* Indexes without the moved row: those from the wanted one on make room for it.
<1>11. ASSUME NEW l \in others, NEW m \in others, l # m
       PROVE  Index(others, l) \in Int /\ Index(others, m) \in Int
              /\ Index(others, l) # Index(others, m)
  <2>1. l.position \in Int /\ m.position \in Int /\ l.position # m.position
    BY <1>1, <1>11
  <2>2. Index(others, l) \in 1..Cardinality(others) /\ Index(others, m) \in 1..Cardinality(others)
    BY <1>3, IndexInRange
  <2>3. l.position < m.position => Index(others, l) < Index(others, m)
    BY <1>3, IndexStrict
  <2>4. m.position < l.position => Index(others, m) < Index(others, l)
    BY <1>3, IndexStrict
  <2> HIDE DEF others
  <2> QED BY <1>3, <2>1, <2>2, <2>3, <2>4
<1>12. ASSUME NEW l \in others
       PROVE  /\ Index(others, l) \in Int
              /\ MovedPosition(r, l) = IF Index(others, l) < p
                                       THEN Index(others, l) ELSE Index(others, l) + 1
  <2>1. Index(others, l) \in 1..Cardinality(others)
    BY <1>3, IndexInRange
  <2> QED BY <1>3, <2>1 DEF MovedPosition
<1>13. ASSUME NEW l \in seen[r], l.block = call[r].block
       PROVE  MovedPosition(r, l) = p
  BY <1>13 DEF MovedPosition
<1>14. \A l \in seen[r] : l \in others <=> l.block # call[r].block
  OBVIOUS
<1> HIDE DEF D, others, p
<1>15. ASSUME NEW l \in seen[r], NEW m \in seen[r], l # m
       PROVE  MovedPosition(r, l) # MovedPosition(r, m)
  <2>1. l \in others \/ m \in others
    BY <1>2, <1>14, <1>15
  <2>2. CASE l \in others /\ m \in others
    BY <1>3, <1>11, <1>12, <1>15, <2>2
  <2>3. CASE l \in others /\ m \notin others
    BY <1>3, <1>12, <1>13, <1>14, <2>3
  <2>4. CASE l \notin others /\ m \in others
    BY <1>3, <1>12, <1>13, <1>14, <2>4
  <2> QED BY <2>1, <2>2, <2>3, <2>4
<1>16. \A i, j \in D : i # j => MoveFinal(r)[i] # MoveFinal(r)[j]
  BY <1>4, <1>5, <1>15
<1> QED BY <1>6, <1>7, <1>8, <1>9, <1>10, <1>16 DEF D

\* The first flush parks every row at a negative position, the second finds the
\* positive ones free.
LEMMA FreshMoveSucceeds ==
  ASSUME NEW r, Writing(r), Fresh(r), call[r].op = "move"
  PROVE  ~MoveFails(r)
<1> DEFINE D == IdsOf(seen[r])
           final == MoveFinal(r)
           parked == MoveParked(r)
           mid == Flushed(links, parked)
<1>1. /\ links \in SUBSET LinkRow /\ DistinctIds(links)
      /\ \A l \in links : l.position \in Int /\ l.position >= 1
  BY FreshFacts
<1>2. /\ D \in SUBSET IdsOf(links)
      /\ \A i \in D : i \in Int
      /\ final \in [D -> Int] /\ parked \in [D -> Int]
      /\ \A i \in D : final[i] >= 1 /\ parked[i] = -final[i]
      /\ \A l \in links : l.id \in D <=> l.template = call[r].template
      /\ \A i, j \in D : i # j => final[i] # final[j]
  BY MoveFacts
<1>3. PrimaryKeyOrder(parked) \in [D -> Int] /\ PrimaryKeyOrder(final) \in [D -> Int]
  BY <1>2 DEF PrimaryKeyOrder
<1>4. /\ Repositions(mid, links, parked, D)
      /\ IdsOf(mid) = IdsOf(links) /\ DistinctIds(mid)
  <2>1. \A i \in D \cap IdsOf(links) : parked[i] \in Int
    BY <1>2
  <2> QED BY <1>1, <1>2, <2>1, UpdatedRows, UpdatedDistinct DEF Flushed
<1>5. mid \in SUBSET LinkRow
  BY <1>4 DEF Repositions
<1> HIDE DEF D, final, parked, mid
<1>6. ASSUME NEW i \in D
      PROVE  final[i] \in Int /\ parked[i] \in Int /\ parked[i] < 0
  BY <1>2
<1>7. \A i, j \in D : i # j => parked[i] # parked[j]
  BY <1>2, <1>6
<1>8. ASSUME NEW l \in links, NEW m \in links,
             l.id \in D, m.id # l.id, m.template = l.template
      PROVE  parked[l.id] # IF /\ m.id \in D
                               /\ PrimaryKeyOrder(parked)[m.id] <= PrimaryKeyOrder(parked)[l.id]
                            THEN parked[m.id] ELSE m.position
  BY <1>1, <1>6, <1>7, <1>8
<1>9. ~FlushFails(links, parked, PrimaryKeyOrder(parked))
  BY <1>1, <1>2, <1>3, <1>8, NoClash
<1>10. ASSUME NEW u \in mid, NEW v \in mid,
              u.id \in D, v.id # u.id, v.template = u.template
       PROVE  final[u.id] # IF /\ v.id \in D
                               /\ PrimaryKeyOrder(final)[v.id] <= PrimaryKeyOrder(final)[u.id]
                            THEN final[v.id] ELSE v.position
  <2>1. PICK l \in links : u.id = l.id /\ u.template = l.template
    BY <1>4 DEF Repositions
  <2>2. PICK m \in links : /\ v.id = m.id /\ v.template = m.template
                          /\ v.position = IF m.id \in D THEN parked[m.id] ELSE m.position
    BY <1>4 DEF Repositions
  <2>3. v.id \in D /\ v.position < 0
    BY <1>2, <1>6, <1>10, <2>1, <2>2
  <2>4. final[u.id] >= 1 /\ final[u.id] # final[v.id]
    BY <1>2, <1>10, <2>3
  <2>5. v.position \in Int /\ final[u.id] \in Int
    BY <1>6, <1>10, <2>2, <2>3
  <2> QED BY <2>3, <2>4, <2>5
<1>11. ~FlushFails(mid, final, PrimaryKeyOrder(final))
  BY <1>2, <1>3, <1>4, <1>5, <1>10, NoClash
<1> QED BY <1>9, <1>11 DEF MoveFails, mid, final, parked

-----------------------------------------------------------------------------
\* See FreshWritesSucceed: an attachment or a move on rows that nobody changed
\* since they were read meets no constraint, however many rows it writes.
THEOREM FreshWrites == Spec => []FreshWritesSucceed
<1>1. IndInv => FreshWritesSucceed
  <2> SUFFICES ASSUME IndInv, NEW r \in Requests,
                      pc[r] = "write", call[r].op \in {"add", "move"}, Fresh(r),
                      call[r].op = "add" => call[r].block \in blocks /\ nextId <= MaxLinkId
               PROVE  ~WriteFails(r)
    BY DEF FreshWritesSucceed
  <2>1. Writing(r)
    BY DEF Writing
  <2>2. CASE call[r].op = "add"
    <3>1. ~AddFails(r)
      BY <2>1, <2>2, FreshAddFlushes, FreshAddInserts DEF AddFails
    <3> QED BY <2>2, <3>1 DEF WriteFails
  <2>3. CASE call[r].op = "move"
    <3>1. ~MoveFails(r)
      BY <2>1, <2>3, FreshMoveSucceeds
    <3> QED BY <2>3, <3>1 DEF WriteFails
  <2> QED BY <2>2, <2>3
<1> QED BY <1>1, Invariance, PTL

-----------------------------------------------------------------------------
(* A removal, whose flush goes in the order of ids. *)

\* Rows at distinct positions from 1 on: a row's index is at most its position.
LEMMA IndexAtMost ==
  ASSUME NEW rows \in SUBSET LinkRow,
         \A l, m \in rows : l.position = m.position => l = m,
         \A l \in rows : l.position >= 1,
         NEW l \in rows
  PROVE  Index(rows, l) <= l.position
<1> DEFINE upto == {m \in rows : m.position <= l.position}
           p == l.position
           f == [m \in upto |-> m.position]
<1>1. \A m \in rows : m.position \in Int
  BY DEF LinkRow
<1>2. f \in Injection(upto, 1..p)
  BY <1>1 DEF Injection, IsInjective
<1>3. p \in Nat
  BY <1>1
<1>4. IsFiniteSet(1..p) /\ Cardinality(1..p) = p
  BY <1>3, FS_Interval
<1> HIDE DEF f, upto, p
<1>5. Cardinality(upto) <= p
  BY <1>2, <1>4, FS_Injection
<1> QED BY <1>5 DEF Index, upto, p

\* Every row of such a flush is set to its index, which the rows before it have
\* left and the rows after it are beyond.
LEMMA FreshRemoveSucceeds ==
  ASSUME NEW r, Writing(r), Fresh(r), IdsFollowPositions(seen[r] \ RemovedRows(r))
  PROVE  ~RemoveFails(r)
<1> DEFINE rest == seen[r] \ RemovedRows(r)
           moved == {l \in rest : Index(rest, l) # l.position}
           D == IdsOf(moved)
           left == Without(links, RemovedRows(r))
           pos == RemoveRenumber(r)
           order == PrimaryKeyOrder(pos)
<1>1. /\ links \in SUBSET LinkRow /\ DistinctIds(links) /\ seen[r] \in SUBSET links
      /\ \A l \in links : l \in seen[r] <=> l.template = call[r].template
      /\ \A l \in links : l.position \in Int /\ l.position >= 1 /\ l.id \in Int
      /\ \A l, m \in seen[r] : l.position = m.position => l = m
  BY FreshFacts
<1>2. rest \in SUBSET LinkRow /\ rest \in SUBSET links /\ IsFiniteSet(rest)
  BY <1>1, SeenFacts
<1>3. /\ left \in SUBSET LinkRow /\ DistinctIds(left) /\ rest \in SUBSET left
      /\ \A l \in left : l \in links /\ (l.template = call[r].template <=> l \in rest)
  BY <1>1 DEF Without, IdsOf, DistinctIds, RemovedRows
<1>4. \A l \in rest : Index(rest, l) \in Int /\ Index(rest, l) <= l.position
  <2>1. \A l \in rest : Index(rest, l) \in 1..Cardinality(rest)
    BY <1>2, IndexInRange
  <2>2. /\ \A l, m \in rest : l.position = m.position => l = m
        /\ \A l \in rest : l.position >= 1
    BY <1>1
  <2> HIDE DEF rest
  <2>3. \A l \in rest : Index(rest, l) <= l.position
    BY <1>2, <2>2, IndexAtMost
  <2>4. Cardinality(rest) \in Nat
    BY <1>2, FS_CardinalityType
  <2> QED BY <2>1, <2>3, <2>4
<1>5. \A l, m \in rest : l.position < m.position => Index(rest, l) < Index(rest, m)
  <2> HIDE DEF rest
  <2> QED BY <1>2, IndexStrict
<1>6. pos = [i \in D |-> Index(rest, RowOf(rest, i))]
  BY DEF RemoveRenumber
<1>7. \A l \in rest : RowOf(rest, l.id) = l
  BY <1>1, <1>2, RowOfId DEF IdsOf, DistinctIds
<1>8. D \in SUBSET IdsOf(left) /\ \A i \in D : \E l \in rest : l.id = i
  BY <1>3 DEF IdsOf
<1>9. \A l \in rest : /\ l.id \in D <=> Index(rest, l) # l.position
                      /\ l.id \in D => pos[l.id] = Index(rest, l)
  BY <1>1, <1>2, <1>6, <1>7 DEF IdsOf, DistinctIds
<1>10. \A l, m \in rest : l.position < m.position => l.id < m.id
  BY DEF IdsFollowPositions
<1> HIDE DEF rest, moved, left
<1>11. pos \in [D -> Int]
  <2>1. \A i \in D : pos[i] \in Int
    BY <1>4, <1>8, <1>9
  <2> QED BY <1>6, <2>1
<1>12. order = [i \in D |-> i] /\ order \in [D -> Int]
  BY <1>1, <1>2, <1>8, <1>11 DEF PrimaryKeyOrder
<1> HIDE DEF D, pos, order
<1>13. ASSUME NEW l \in left, NEW m \in left,
              l.id \in D, m.id # l.id, m.template = l.template
       PROVE  pos[l.id] # IF m.id \in D /\ order[m.id] <= order[l.id]
                          THEN pos[m.id] ELSE m.position
  <2>1. PICK x \in rest : x.id = l.id
    BY <1>8, <1>13
  <2>2. l \in rest /\ m \in rest
    BY <1>3, <1>13, <2>1 DEF DistinctIds
  <2>3. /\ l.position \in Int /\ m.position \in Int /\ l.position # m.position
        /\ l.id \in Int /\ m.id \in Int
        /\ Index(rest, l) \in Int /\ Index(rest, m) \in Int
    <3>1. l # m /\ l \in seen[r] /\ m \in seen[r]
      BY <1>13, <2>2 DEF rest
    <3> QED BY <1>1, <1>4, <2>2, <3>1
  <2>4. pos[l.id] = Index(rest, l)
    BY <1>9, <1>13, <2>2
  <2>5. CASE m.position < l.position
    <3>1. Index(rest, m) < Index(rest, l) /\ m.id < l.id
      BY <1>5, <1>10, <2>2, <2>5
    <3>2. CASE m.id \in D
      <4>1. order[m.id] <= order[l.id] /\ pos[m.id] = Index(rest, m)
        BY <1>9, <1>12, <1>13, <2>2, <2>3, <3>1, <3>2
      <4> QED BY <2>3, <2>4, <3>1, <3>2, <4>1
    <3>3. CASE m.id \notin D
      <4>1. Index(rest, m) = m.position
        BY <1>9, <2>2, <3>3
      <4> QED BY <2>3, <2>4, <3>1, <3>3, <4>1
    <3> QED BY <3>2, <3>3
  <2>6. CASE l.position < m.position
    <3>1. Index(rest, l) < Index(rest, m) /\ l.id < m.id /\ Index(rest, m) <= m.position
      BY <1>4, <1>5, <1>10, <2>2, <2>6
    <3>2. m.id \in D => ~(order[m.id] <= order[l.id])
      BY <1>12, <1>13, <2>3, <3>1
    <3> QED BY <2>3, <2>4, <3>1, <3>2
  <2> QED BY <2>3, <2>5, <2>6
<1>14. ~FlushFails(left, pos, order)
  BY <1>3, <1>8, <1>11, <1>12, <1>13, NoClash
<1> QED BY <1>14 DEF RemoveFails, left, pos, order

\* delete_template_block_and_reorder: "Remove a block from a template and normalize
\* positions."  The run removal shows that a removal of rows that nobody else changed
\* may be rejected; by this theorem only if ids do not follow positions, because a
\* block was moved or was inserted before others.
THEOREM OrderedRemovals == Spec => []OrderedRemovalsSucceed
<1>1. IndInv => OrderedRemovalsSucceed
  BY FreshRemoveSucceeds DEF OrderedRemovalsSucceed, Writing
<1> QED BY <1>1, Invariance, PTL

-----------------------------------------------------------------------------
(* What such a write leaves: the positions 1..n. *)

\* As many rows as ids.
LEMMA RowsAreIds ==
  ASSUME NEW rows, IsFiniteSet(rows), DistinctIds(rows)
  PROVE  IsFiniteSet(IdsOf(rows)) /\ Cardinality(IdsOf(rows)) = Cardinality(rows)
<1> DEFINE f == [l \in rows |-> l.id]
<1>1. f \in Bijection(rows, IdsOf(rows))
  BY DEF Bijection, Injection, Surjection, IsInjective, DistinctIds, IdsOf
<1>2. ExistsBijection(rows, IdsOf(rows))
  BY <1>1 DEF ExistsBijection
<1> QED BY <1>2, FS_Bijection

\* The rows of t are packed when none is beyond their number.
LEMMA Packed ==
  ASSUME NEW rows, NEW ts, NEW bs, NEW n \in Nat \ {0}, TableOK(rows, ts, bs, n), NEW t,
         LET own == {l \in rows : l.template = t}
         IN \A l \in own : l.position \in 1..Cardinality(own)
  PROVE  LET own == {l \in rows : l.template = t}
         IN {l.position : l \in own} = 1..Cardinality(own)
<1> DEFINE own == {l \in rows : l.template = t}
           f == [l \in own |-> l.position]
<1>1. own \in SUBSET LinkRow /\ DistinctIds(own) /\ \A l \in own : l.id < n
  BY DEF TableOK, DistinctIds
<1>2. \A l, m \in own : l.position = m.position => l = m
  BY DEF TableOK, DistinctPositions
<1>3. \A l \in own : l.position \in 1..Cardinality(own)
  OBVIOUS
<1> HIDE DEF own
<1>4. IsFiniteSet(own) /\ Cardinality(own) \in Nat
  BY <1>1, FewerThanIds
<1>5. f \in Injection(own, 1..Cardinality(own))
  BY <1>2, <1>3 DEF Injection, IsInjective
<1>6. /\ IsFiniteSet(1..Cardinality(own))
      /\ Cardinality(1..Cardinality(own)) = Cardinality(own)
  BY <1>4, FS_Interval
<1>7. f \in Surjection(own, 1..Cardinality(own))
  BY <1>5, <1>6, FS_Injection
<1>8. {l.position : l \in own} = 1..Cardinality(own)
  BY <1>3, <1>7 DEF Surjection
<1> QED BY <1>8 DEF own

\* How many rows of t a table has, from their ids.
LEMMA OwnCount ==
  ASSUME NEW rows, NEW ts, NEW bs, NEW n \in Nat \ {0}, TableOK(rows, ts, bs, n), NEW t
  PROVE  Cardinality({l \in rows : l.template = t}) = Cardinality(IdsOf({l \in rows : l.template = t}))
<1> DEFINE own == {l \in rows : l.template = t}
<1>1. own \in SUBSET LinkRow /\ DistinctIds(own) /\ \A l \in own : l.id < n
  BY DEF TableOK, DistinctIds
<1> HIDE DEF own
<1>2. IsFiniteSet(own)
  BY <1>1, FewerThanIds
<1>3. Cardinality(own) = Cardinality(IdsOf(own))
  BY <1>1, <1>2, RowsAreIds
<1> QED BY <1>3 DEF own

\* An UPDATE leaves the rows whose ids it does not name as they are.
LEMMA OthersStay ==
  ASSUME NEW old \in SUBSET LinkRow, NEW new, NEW pos, NEW S, Repositions(new, old, pos, S)
  PROVE  /\ \A l \in new : l.id \notin S => l \in old
         /\ \A l \in old : l.id \notin S => l \in new
<1>1. ASSUME NEW u \in LinkRow, NEW l \in LinkRow, u.id = l.id, u.template = l.template,
             u.block = l.block, u.position = l.position
      PROVE  u = l
  BY <1>1 DEF LinkRow
<1>2. ASSUME NEW u \in new, u.id \notin S
      PROVE  u \in old
  BY <1>1, <1>2 DEF Repositions
<1>3. ASSUME NEW l \in old, l.id \notin S
      PROVE  l \in new
  BY <1>1, <1>3 DEF Repositions
<1> QED BY <1>2, <1>3

\* The rows of template q.
RowsOf(rows, q) == {l \in rows : l.template = q}

\* An UPDATE that names no row of q leaves the rows of q as they are.
LEMMA OthersOf ==
  ASSUME NEW old \in SUBSET LinkRow, NEW new, NEW pos, NEW S, Repositions(new, old, pos, S),
         NEW q, \A l \in old : l.id \in S => l.template # q
  PROVE  RowsOf(new, q) = RowsOf(old, q)
<1>1. \A l \in new : l.template = q => l.id \notin S
  BY DEF Repositions
<1>2. \A l \in old : l.template = q => l.id \notin S
  OBVIOUS
<1>3. /\ \A l \in new : l.id \notin S => l \in old
      /\ \A l \in old : l.id \notin S => l \in new
  BY OthersStay
<1> QED BY <1>1, <1>2, <1>3 DEF RowsOf

\* What an attachment leaves: the rows from its position on are one further.
LEMMA RowsAdded ==
  ASSUME NEW r, Writing(r), Fresh(r), ~AddFails(r)
  PROVE  LET p == ClampedPosition(call[r], seen[r])
             t == call[r].template
             own == {l \in AddRows(r) : l.template = t}
         IN /\ Cardinality(own) = Cardinality(seen[r]) + 1
            /\ p \in 1..(Cardinality(seen[r]) + 1)
            /\ \A u \in own :
                 \/ u.block = call[r].block /\ u.position = p
                 \/ \E l \in seen[r] :
                      /\ u.block = l.block
                      /\ u.position = IF l.position >= p THEN l.position + 1 ELSE l.position
            /\ \A q \in Templates \ {t} : {l \in AddRows(r) : l.template = q} = LinksOf(q)
<1> DEFINE D == DOMAIN AddShift(r)
           p == ClampedPosition(call[r], seen[r])
           mid == Flushed(links, AddShift(r))
           k == Cardinality(seen[r])
           t == call[r].template
           own == {l \in AddRows(r) : l.template = t}
<1>1. /\ links \in SUBSET LinkRow /\ seen[r] \in SUBSET links
      /\ \A l \in links : l \in seen[r] <=> l.template = t
      /\ \A l \in links : l.position \in Int /\ l.id \in Int
  BY FreshFacts
<1>2. /\ D \in SUBSET IdsOf(links) /\ AddShift(r) \in [D -> Int]
      /\ \A l \in links : /\ l.id \in D <=> l \in seen[r] /\ l.position >= p
                          /\ l.id \in D => AddShift(r)[l.id] = l.position + 1
  BY ShiftFacts
<1>3. /\ IsFiniteSet(seen[r]) /\ k \in Nat /\ nextId \in Nat \ {0}
      /\ DistinctIds(seen[r]) /\ \A l \in seen[r] : l.id < nextId
      /\ call[r].position \in Int
  BY SeenFacts DEF CallType
<1>4. p \in 1..(k + 1)
  BY <1>3 DEF ClampedPosition
<1>5. Repositions(mid, links, AddShift(r), D)
  <2>1. \A i \in D \cap IdsOf(links) : AddShift(r)[i] \in Int
    BY <1>2
  <2> QED BY <1>1, <2>1, UpdatedRows DEF Flushed
<1>6. AddRows(r) = mid \cup {NewLink(r)}
  BY DEF AddRows
<1>7. /\ NewLink(r).id = nextId /\ NewLink(r).template = t
      /\ NewLink(r).position = p /\ NewLink(r).block = call[r].block
  BY DEF NewLink
<1>8. TableOK(AddRows(r), templates, blocks, nextId + 1)
  BY AddKeepsTable
<1>9. Cardinality(own) = Cardinality(IdsOf(own))
  <2>1. nextId + 1 \in Nat \ {0}
    BY <1>3
  <2> QED BY <1>8, <2>1, OwnCount
<1> HIDE DEF D, p, mid, k, t
<1>10. Cardinality(IdsOf(own)) = k + 1
  <2>1. IdsOf({l \in mid : l.template = t}) = IdsOf(seen[r])
    BY <1>1, <1>5 DEF Repositions, IdsOf
  <2>2. IdsOf(own) = IdsOf(seen[r]) \cup {nextId}
    BY <1>6, <1>7, <2>1 DEF IdsOf
  <2>3. nextId \notin IdsOf(seen[r])
    BY <1>3 DEF IdsOf
  <2>4. IsFiniteSet(IdsOf(seen[r])) /\ Cardinality(IdsOf(seen[r])) = k
    BY <1>3, RowsAreIds DEF k
  <2> HIDE DEF own
  <2> QED BY <2>2, <2>3, <2>4, FS_AddElement
<1>11. ASSUME NEW u \in own
       PROVE  \/ u.block = call[r].block /\ u.position = p
              \/ \E l \in seen[r] :
                   /\ u.block = l.block
                   /\ u.position = IF l.position >= p THEN l.position + 1 ELSE l.position
  <2>1. CASE u = NewLink(r)
    BY <1>7, <2>1
  <2>2. CASE u \in mid
    <3>1. PICK l \in links : /\ u.template = l.template /\ u.block = l.block
                            /\ u.position = IF l.id \in D THEN AddShift(r)[l.id] ELSE l.position
      BY <1>5, <2>2 DEF Repositions
    <3> QED BY <1>1, <1>2, <3>1
  <2> QED BY <1>6, <2>1, <2>2
<1>12. ASSUME NEW q \in Templates \ {t}
       PROVE  {l \in AddRows(r) : l.template = q} = LinksOf(q)
  <2>1. \A l \in links : l.id \in D => l.template # q
    BY <1>1, <1>2
  <2>2. RowsOf(mid, q) = RowsOf(links, q)
    <3>1. links \in SUBSET LinkRow
      BY <1>1
    <3> QED BY <1>5, <2>1, <3>1, OthersOf
  <2> QED BY <1>6, <1>7, <2>2 DEF LinksOf, RowsOf
<1> HIDE DEF own
<1>13. /\ Cardinality(own) = k + 1
       /\ p \in 1..(k + 1)
       /\ \A u \in own :
            \/ u.block = call[r].block /\ u.position = p
            \/ \E l \in seen[r] :
                 /\ u.block = l.block
                 /\ u.position = IF l.position >= p THEN l.position + 1 ELSE l.position
       /\ \A q \in Templates \ {t} : {l \in AddRows(r) : l.template = q} = LinksOf(q)
  BY <1>4, <1>9, <1>10, <1>11, <1>12
<1> QED BY <1>13 DEF p, k, t, own

\* What a move leaves: every row at its new position.
LEMMA RowsMoved ==
  ASSUME NEW r, Writing(r), Fresh(r), call[r].op = "move", ~MoveFails(r)
  PROVE  LET t == call[r].template
             own == {l \in MoveRows(r) : l.template = t}
         IN /\ Cardinality(own) = Cardinality(seen[r])
            /\ \A u \in own : \E l \in seen[r] :
                 /\ u.block = l.block
                 /\ u.position = MovedPosition(r, l)
                 /\ u.position \in 1..Cardinality(seen[r])
            /\ \A q \in Templates \ {t} : {l \in MoveRows(r) : l.template = q} = LinksOf(q)
<1> DEFINE D == IdsOf(seen[r])
           final == MoveFinal(r)
           parked == MoveParked(r)
           mid == Flushed(links, parked)
           t == call[r].template
           own == {l \in MoveRows(r) : l.template = t}
           k == Cardinality(seen[r])
<1>1. /\ links \in SUBSET LinkRow /\ seen[r] \in SUBSET links /\ DistinctIds(links)
      /\ \A l \in links : l \in seen[r] <=> l.template = t
  BY FreshFacts
<1>2. /\ final \in [D -> Int] /\ parked \in [D -> Int]
      /\ \A l \in links : l.id \in D <=> l.template = t
  BY MoveFacts
<1>3. final \in [D -> 1..k] /\ \A i \in D : final[i] = MovedPosition(r, RowOf(seen[r], i))
  BY MovePositions DEF MoveFinal
<1>4. IsFiniteSet(seen[r]) /\ DistinctIds(seen[r]) /\ nextId \in Nat \ {0}
  BY SeenFacts
<1>5. Cardinality(D) = k
  BY <1>4, RowsAreIds
<1>6. \A l \in seen[r] : l.id \in D /\ RowOf(seen[r], l.id) = l
  BY <1>4, RowOfId DEF IdsOf, DistinctIds
<1>7. Repositions(mid, links, parked, D)
  <2>1. \A i \in D \cap IdsOf(links) : parked[i] \in Int
    BY <1>2
  <2> QED BY <1>1, <1>2, <2>1, UpdatedRows DEF Flushed
<1>8. mid \in SUBSET LinkRow
  BY <1>7 DEF Repositions
<1>9. Repositions(MoveRows(r), mid, final, D)
  <2>1. \A i \in D \cap IdsOf(mid) : final[i] \in Int
    BY <1>2
  <2> QED BY <1>2, <1>8, <2>1, UpdatedRows DEF Flushed, MoveRows
<1>10. TableOK(MoveRows(r), templates, blocks, nextId)
  BY MoveKeepsTable
<1>11. Cardinality(own) = Cardinality(IdsOf(own))
  <2>1. nextId \in Nat \ {0}
    BY <1>4
  <2> HIDE DEF t
  <2>2. \A rows : TableOK(rows, templates, blocks, nextId) =>
          Cardinality({l \in rows : l.template = t}) = Cardinality(IdsOf({l \in rows : l.template = t}))
    BY <2>1, OwnCount
  <2> QED BY <1>10, <2>2
<1> HIDE DEF final, parked, mid, t, k
<1>12. IdsOf(own) = D
  <2>1. IdsOf({l \in mid : l.template = t}) = D
    BY <1>1, <1>7 DEF Repositions, IdsOf
  <2>2. IdsOf({l \in MoveRows(r) : l.template = t}) = IdsOf({l \in mid : l.template = t})
    BY <1>9 DEF Repositions, IdsOf
  <2> QED BY <2>1, <2>2
<1> HIDE DEF D
<1>13. ASSUME NEW u \in own
       PROVE  \E l \in seen[r] : /\ u.block = l.block
                                 /\ u.position = MovedPosition(r, l)
                                 /\ u.position \in 1..k
  <2>1. PICK m \in mid : /\ u.template = m.template /\ u.block = m.block
                        /\ u.position = IF m.id \in D THEN final[m.id] ELSE m.position
    BY <1>9 DEF Repositions
  <2>2. PICK l \in links : m.id = l.id /\ m.template = l.template /\ m.block = l.block
    BY <1>7 DEF Repositions
  <2>3. l \in seen[r]
    BY <1>1, <2>1, <2>2
  <2> QED BY <1>3, <1>6, <2>1, <2>2, <2>3
<1>14. ASSUME NEW q \in Templates \ {t}
       PROVE  {l \in MoveRows(r) : l.template = q} = LinksOf(q)
  <2>1. \A l \in links : l.id \in D => l.template # q
    BY <1>2
  <2>2. RowsOf(mid, q) = RowsOf(links, q)
    BY <1>1, <1>7, <2>1, OthersOf
  <2>3. \A l \in mid : l.id \in D => l.template # q
    BY <1>7, <2>1 DEF Repositions
  <2>4. RowsOf(MoveRows(r), q) = RowsOf(mid, q)
    BY <1>8, <1>9, <2>3, OthersOf
  <2> QED BY <2>2, <2>4 DEF LinksOf, RowsOf
<1> HIDE DEF own
<1>15. /\ Cardinality(own) = k
       /\ \A u \in own : \E l \in seen[r] :
            /\ u.block = l.block
            /\ u.position = MovedPosition(r, l)
            /\ u.position \in 1..k
       /\ \A q \in Templates \ {t} : {l \in MoveRows(r) : l.template = q} = LinksOf(q)
  BY <1>5, <1>11, <1>12, <1>13, <1>14
<1> QED BY <1>15 DEF own, t, k

\* What a removal leaves: every other row at its index.
LEMMA RowsRemoved ==
  ASSUME NEW r, Writing(r), Fresh(r), ~RemoveFails(r)
  PROVE  LET t == call[r].template
             rest == seen[r] \ RemovedRows(r)
             own == {l \in RemoveRows(r) : l.template = t}
         IN /\ Cardinality(own) = Cardinality(rest)
            /\ \A u \in own : \E l \in rest :
                 u.block = l.block /\ u.position = Index(rest, l)
            /\ \A q \in Templates \ {t} : {l \in RemoveRows(r) : l.template = q} = LinksOf(q)
<1> DEFINE D == DOMAIN RemoveRenumber(r)
           gone == RemovedRows(r)
           rest == seen[r] \ gone
           moved == {l \in rest : Index(rest, l) # l.position}
           left == Without(links, gone)
           t == call[r].template
           own == {l \in RemoveRows(r) : l.template = t}
<1>1. /\ links \in SUBSET LinkRow /\ seen[r] \in SUBSET links /\ DistinctIds(links)
      /\ \A l \in links : l \in seen[r] <=> l.template = t
  BY FreshFacts
<1>2. /\ rest \in SUBSET LinkRow /\ IsFiniteSet(rest) /\ nextId \in Nat \ {0}
  BY SeenFacts
<1>3. DistinctIds(rest) /\ gone \in SUBSET seen[r]
  BY <1>1 DEF DistinctIds, RemovedRows
<1>4. Cardinality(IdsOf(rest)) = Cardinality(rest)
  BY <1>2, <1>3, RowsAreIds
<1>5. /\ D = IdsOf(moved)
      /\ \A i \in D : RemoveRenumber(r)[i] = Index(rest, RowOf(rest, i))
  BY DEF RemoveRenumber
<1>6. left \in SUBSET links /\ \A l \in left : l \in seen[r] => l \in rest
  BY DEF Without, IdsOf
<1>7. rest \in SUBSET left /\ \A l \in links : l \notin seen[r] => l \in left
  BY <1>1, <1>3 DEF Without, IdsOf, DistinctIds
<1>8. Repositions(RemoveRows(r), left, RemoveRenumber(r), D)
  <2>1. \A i \in D \cap IdsOf(left) : RemoveRenumber(r)[i] \in Int
    BY RemovePositions
  <2>2. left \in SUBSET LinkRow
    BY <1>1, <1>6
  <2> HIDE DEF left
  <2> QED BY <2>1, <2>2, UpdatedRows DEF Flushed, RemoveRows, left, gone
<1>9. TableOK(RemoveRows(r), templates, blocks, nextId)
  BY RemoveKeepsTable
<1>10. Cardinality(own) = Cardinality(IdsOf(own))
  BY <1>2, <1>9, OwnCount
<1>11. rest \in SUBSET seen[r]
  OBVIOUS
<1> HIDE DEF D, rest, left, t, gone
<1>12. ASSUME NEW l \in rest
       PROVE  (IF l.id \in D THEN RemoveRenumber(r)[l.id] ELSE l.position) = Index(rest, l)
  <2>1. CASE l.id \in D
    <3>1. RowOf(rest, l.id) = l
      BY <1>3, <1>12, RowOfId DEF IdsOf, DistinctIds
    <3> QED BY <1>5, <2>1, <3>1
  <2>2. CASE l.id \notin D
    <3>1. l \notin moved
      BY <1>5, <2>2 DEF IdsOf
    <3> QED BY <1>12, <2>2, <3>1
  <2> QED BY <2>1, <2>2
<1>13. \A i \in D : \E l \in rest : l.id = i
  BY <1>5 DEF IdsOf
<1> HIDE DEF moved
<1>14. ASSUME NEW u \in own
       PROVE  \E l \in rest : u.block = l.block /\ u.position = Index(rest, l)
  <2>1. PICK l \in left :
          /\ u.template = l.template /\ u.block = l.block
          /\ u.position = IF l.id \in D THEN RemoveRenumber(r)[l.id] ELSE l.position
    BY <1>8 DEF Repositions
  <2>2. l \in rest
    BY <1>1, <1>6, <1>14, <2>1
  <2> QED BY <1>12, <2>1, <2>2
<1>15. IdsOf(own) = IdsOf(rest)
  <2>1. \A l \in left : l.template = t <=> l \in rest
    BY <1>1, <1>6, <1>7, <1>11
  <2> QED BY <1>7, <1>8, <2>1 DEF Repositions, IdsOf
<1>16. ASSUME NEW q \in Templates \ {t}
       PROVE  {l \in RemoveRows(r) : l.template = q} = LinksOf(q)
  <2>1. \A l \in left : l.id \in D => l.template # q
    BY <1>1, <1>6, <1>11, <1>13 DEF DistinctIds
  <2>2. RowsOf(RemoveRows(r), q) = RowsOf(left, q)
    BY <1>1, <1>6, <1>8, <2>1, OthersOf
  <2> QED BY <1>1, <1>6, <1>7, <2>2 DEF LinksOf, RowsOf
<1> HIDE DEF own
<1>17. /\ Cardinality(own) = Cardinality(rest)
       /\ \A u \in own : \E l \in rest : u.block = l.block /\ u.position = Index(rest, l)
       /\ \A q \in Templates \ {t} : {l \in RemoveRows(r) : l.template = q} = LinksOf(q)
  BY <1>4, <1>10, <1>14, <1>15, <1>16
<1> QED BY <1>17 DEF own, t, rest, gone

\* An attachment to contiguous rows opens exactly the hole it fills.
LEMMA FreshAddPacks ==
  ASSUME NEW r, Writing(r), Fresh(r), ~AddFails(r), Contiguous(call[r].template)
  PROVE  LET own == {l \in AddRows(r) : l.template = call[r].template}
         IN {l.position : l \in own} = 1..Cardinality(own)
<1> DEFINE own == {l \in AddRows(r) : l.template = call[r].template}
           p == ClampedPosition(call[r], seen[r])
           k == Cardinality(seen[r])
<1>1. /\ Cardinality(own) = k + 1 /\ p \in 1..(k + 1)
      /\ \A u \in own :
           \/ u.position = p
           \/ \E l \in seen[r] :
                u.position = IF l.position >= p THEN l.position + 1 ELSE l.position
  BY RowsAdded
<1>2. k \in Nat /\ nextId + 1 \in Nat \ {0}
  BY SeenFacts
<1>3. \A l \in seen[r] : l.position \in 1..k
  BY DEF Contiguous, Fresh
<1>4. TableOK(AddRows(r), templates, blocks, nextId + 1)
  BY AddKeepsTable
<1> HIDE DEF own, p, k
<1>5. \A u \in own : u.position \in 1..Cardinality(own)
  BY <1>1, <1>2, <1>3
<1> QED BY <1>2, <1>4, <1>5, Packed DEF own

\* A move gives the rows of the template the positions of a permutation.
LEMMA FreshMovePacks ==
  ASSUME NEW r, Writing(r), Fresh(r), call[r].op = "move", ~MoveFails(r)
  PROVE  LET own == {l \in MoveRows(r) : l.template = call[r].template}
         IN {l.position : l \in own} = 1..Cardinality(own)
<1> DEFINE own == {l \in MoveRows(r) : l.template = call[r].template}
<1>1. \A u \in own : u.position \in 1..Cardinality(own)
  BY RowsMoved
<1>2. TableOK(MoveRows(r), templates, blocks, nextId) /\ nextId \in Nat \ {0}
  BY MoveKeepsTable, SeenFacts
<1> QED BY <1>1, <1>2, Packed

\* A removal leaves every remaining row at its index, contiguous before or not.
LEMMA FreshRemovePacks ==
  ASSUME NEW r, Writing(r), Fresh(r), ~RemoveFails(r)
  PROVE  LET own == {l \in RemoveRows(r) : l.template = call[r].template}
         IN {l.position : l \in own} = 1..Cardinality(own)
<1> DEFINE own == {l \in RemoveRows(r) : l.template = call[r].template}
           rest == seen[r] \ RemovedRows(r)
<1>1. /\ Cardinality(own) = Cardinality(rest)
      /\ \A u \in own : \E l \in rest : u.position = Index(rest, l)
  BY RowsRemoved
<1>2. rest \in SUBSET LinkRow /\ IsFiniteSet(rest) /\ nextId \in Nat \ {0}
  BY SeenFacts
<1>3. TableOK(RemoveRows(r), templates, blocks, nextId)
  BY RemoveKeepsTable
<1> HIDE DEF own, rest
<1>4. \A u \in own : u.position \in 1..Cardinality(own)
  BY <1>1, <1>2, IndexInRange
<1> QED BY <1>2, <1>3, <1>4, Packed DEF own

\* A request is committed by its own commit.
LEMMA CommitsItself ==
  ASSUME IndInv, Next, NEW r \in Requests, Commits(r)
  PROVE  Commit(r)
<1>1. PICK q \in Requests : Begin(q) \/ Handle(q) \/ Fault(q)
  BY DEF Next
<1>2. pc[r] = "write" /\ pc'[r] = "committed" /\ pc \in [Requests -> PCs]
  BY DEF Commits, IndInv, TypeOK
<1>3. \E place : pc' = [pc EXCEPT ![q] = place]
  BY <1>1 DEF Begin, Handle, Fault, Commit, SelectTemplate, SelectLinks, SelectBlocks, GetBlock,
              SelectUsage, WriteRejected, Finish, CommitAdd, CommitMove, CommitRemove,
              CommitDeleteTemplate, CommitDeleteBlock, Committed, Follow, Answer, Goto
<1>4. q = r
  BY <1>2, <1>3
<1> QED BY <1>1, <1>2, <1>4
        DEF Begin, Handle, Fault, SelectTemplate, SelectLinks, SelectBlocks, GetBlock,
            SelectUsage, WriteRejected, Finish, Answer, Goto

\* See FreshCommitsAreContiguous: a write on rows that nobody changed since they
\* were read leaves the positions 1..n; a move and a removal do so whatever the
\* positions were, and repair the gaps and the drift of stale writes.
THEOREM FreshCommits == Spec => FreshCommitsAreContiguous
<1> DEFINE Step == \A r \in Requests :
       LET t == call[r].template
       IN Commits(r) /\ call[r].op \in {"add", "move", "remove"} /\ Fresh(r)
            /\ (call[r].op = "add" => Contiguous(t))
          => Contiguous(t)'
<1>1. IndInv /\ [Next]_vars => [Step]_vars
  <2> SUFFICES ASSUME IndInv, Next, NEW r \in Requests, Commits(r),
                      call[r].op \in {"add", "move", "remove"}, Fresh(r),
                      call[r].op = "add" => Contiguous(call[r].template)
               PROVE  Contiguous(call[r].template)'
    OBVIOUS
  <2> DEFINE own == {l \in links' : l.template = call[r].template}
  <2>1. Commit(r) /\ Writing(r)
    BY CommitsItself DEF Writing, Commits
  <2>2. call' = call
    BY <2>1 DEF Commit, CommitAdd, CommitMove, CommitRemove, CommitDeleteTemplate,
                CommitDeleteBlock, Committed
  <2>3. {l.position : l \in own} = 1..Cardinality(own)
    <3>1. CASE CommitAdd(r)
      BY <2>1, <3>1, FreshAddPacks DEF CommitAdd
    <3>2. CASE CommitMove(r)
      BY <2>1, <3>2, FreshMovePacks DEF CommitMove
    <3>3. CASE CommitRemove(r)
      BY <2>1, <3>3, FreshRemovePacks DEF CommitRemove
    <3>4. ~CommitDeleteTemplate(r) /\ ~CommitDeleteBlock(r)
      BY DEF CommitDeleteTemplate, CommitDeleteBlock
    <3> QED BY <2>1, <3>1, <3>2, <3>3, <3>4 DEF Commit
  <2> QED BY <2>2, <2>3 DEF Contiguous, LinksOf
<1>2. Spec => [][Step]_vars
  BY <1>1, Invariance, PTL DEF Spec
<1> QED BY <1>2 DEF FreshCommitsAreContiguous

=============================================================================
