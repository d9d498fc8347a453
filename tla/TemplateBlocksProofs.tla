------------------------ MODULE TemplateBlocksProofs ------------------------
(* Theorems about TemplateBlocks, for every value of its constants. *)
EXTENDS TemplateBlocks, FiniteSetTheorems, TLAPS

-----------------------------------------------------------------------------
(* Sets of link rows and what a flush does to them. *)

DistinctIds(rows) == \A l, m \in rows : l.id = m.id => l = m
DistinctPositions(rows) ==
  \A l, m \in rows :
    l.template = m.template /\ l.position = m.position => l = m
DistinctBlocks(rows) ==
  \A l, m \in rows : l.template = m.template /\ l.block = m.block => l = m

\* new has the rows of old, the positions of those in S taken from pos.
Repositions(new, old, pos, S) ==
  /\ new \subseteq LinkRow
  /\ \A u \in new : \E l \in old :
       /\ u.id = l.id /\ u.template = l.template /\ u.block = l.block
       /\ u.position = IF l.id \in S THEN pos[l.id] ELSE l.position
  /\ \A l \in old : \E u \in new :
       /\ u.id = l.id /\ u.template = l.template /\ u.block = l.block
       /\ u.position = IF l.id \in S THEN pos[l.id] ELSE l.position

\* An UPDATE of positions changes positions only.
LEMMA UpdatedRows ==
  ASSUME NEW rows \in SUBSET LinkRow, NEW S, NEW pos,
         \A i \in S \cap IdsOf(rows) : pos[i] \in Int
  PROVE  Repositions(Updated(rows, pos, S), rows, pos, S)
<1> DEFINE upd(l) == IF l.id \in S THEN [l EXCEPT !.position = pos[l.id]] ELSE l
<1>1. ASSUME NEW l \in rows
      PROVE  /\ upd(l) \in LinkRow
             /\ upd(l).id = l.id
             /\ upd(l).template = l.template
             /\ upd(l).block = l.block
             /\ upd(l).position = IF l.id \in S THEN pos[l.id] ELSE l.position
  BY DEF LinkRow, IdsOf
<1>2. Updated(rows, pos, S) = {upd(l) : l \in rows}
  BY DEF Updated
<1> HIDE DEF upd
<1> QED BY <1>1, <1>2 DEF Repositions

LEMMA UpdatedDistinct ==
  ASSUME NEW rows \in SUBSET LinkRow, NEW S, NEW pos,
         \A i \in S \cap IdsOf(rows) : pos[i] \in Int
  PROVE  /\ IdsOf(Updated(rows, pos, S)) = IdsOf(rows)
         /\ DistinctIds(rows) => DistinctIds(Updated(rows, pos, S))
         /\ DistinctIds(rows) /\ DistinctBlocks(rows)
              => DistinctBlocks(Updated(rows, pos, S))
<1> DEFINE new == Updated(rows, pos, S)
<1>1. Repositions(new, rows, pos, S)
  BY UpdatedRows
<1> HIDE DEF new
<1> USE DEF Repositions
<1>2. IdsOf(new) = IdsOf(rows)
  BY <1>1 DEF IdsOf
<1>3. ASSUME DistinctIds(rows), NEW u \in new, NEW v \in new, u.id = v.id
      PROVE  u = v
  <2>1. /\ u \in LinkRow /\ v \in LinkRow
        /\ u.template = v.template /\ u.block = v.block /\ u.position = v.position
    BY <1>1, <1>3 DEF DistinctIds
  <2> QED BY <2>1, <1>3 DEF LinkRow
<1>4. ASSUME DistinctIds(rows), DistinctBlocks(rows)
      PROVE  DistinctBlocks(new)
  <2> SUFFICES ASSUME NEW u \in new, NEW v \in new,
                      u.template = v.template, u.block = v.block
               PROVE  u.id = v.id
    BY <1>3, <1>4 DEF DistinctBlocks
  <2> QED BY <1>1, <1>4 DEF DistinctBlocks
<1> QED BY <1>2, <1>3, <1>4 DEF DistinctIds, new

\* A flush that does not fail leaves no two rows of a template on one position.
LEMMA FlushKeepsPositionsDistinct ==
  ASSUME NEW rows \in SUBSET LinkRow, DistinctIds(rows), DistinctPositions(rows),
         NEW D, NEW pos \in [D -> Int], NEW order \in [D -> Int],
         ~FlushFails(rows, pos, order)
  PROVE  DistinctPositions(Flushed(rows, pos))
<1> DEFINE done(i) == Updated(rows, pos, {j \in D : order[j] <= order[i]})
           new == Flushed(rows, pos)
<1>1. Repositions(new, rows, pos, D)
  BY UpdatedRows DEF Flushed
<1>2. ASSUME NEW i \in D
      PROVE  Repositions(done(i), rows, pos, {j \in D : order[j] <= order[i]})
  BY UpdatedRows
<1>3. ASSUME NEW i \in D, NEW l \in done(i), l.id = i
      PROVE  ~PositionTaken(done(i), l)
  BY <1>3 DEF FlushFails
<1>4. DistinctIds(new)
  BY UpdatedDistinct DEF Flushed
<1> HIDE DEF done, new
<1> USE DEF Repositions
\* The row that is written last of two would find the other on its position.
<1>5. ASSUME NEW u \in new, NEW v \in new, u.id # v.id,
             u.template = v.template, u.position = v.position,
             u.id \in D, v.id \in D => order[v.id] <= order[u.id]
      PROVE  FALSE
  <2>1. PICK l \in rows :
          /\ u.id = l.id /\ u.template = l.template /\ u.position = pos[l.id]
    BY <1>1, <1>5
  <2>2. PICK m \in rows :
          /\ v.id = m.id /\ v.template = m.template
          /\ v.position = IF m.id \in D THEN pos[m.id] ELSE m.position
    BY <1>1
  <2>3. PICK x \in done(u.id) : x.id = l.id /\ x.template = l.template
                                 /\ x.position = pos[l.id]
    BY <1>2, <1>5, <2>1
  <2>4. PICK y \in done(u.id) : y.id = m.id /\ y.template = m.template
                                 /\ y.position = v.position
    BY <1>2, <1>5, <2>2
  <2> QED BY <1>3, <1>5, <2>1, <2>2, <2>3, <2>4 DEF PositionTaken
<1> SUFFICES ASSUME NEW u \in new, NEW v \in new,
                    u.template = v.template, u.position = v.position,
                    u.id # v.id
             PROVE  FALSE
  BY <1>4 DEF DistinctPositions, DistinctIds, new
<1>6. CASE u.id \in D \/ v.id \in D
  <2>1. u.id \in D /\ v.id \in D => order[u.id] <= order[v.id] \/ order[v.id] <= order[u.id]
    OBVIOUS
  <2> QED BY <1>5, <1>6, <2>1
<1>7. CASE u.id \notin D /\ v.id \notin D
  BY <1>1, <1>7 DEF DistinctPositions
<1> QED BY <1>6, <1>7

-----------------------------------------------------------------------------
(* Indexes and the positions each handler writes. *)

LEMMA RowOfId ==
  ASSUME NEW rows, NEW i \in IdsOf(rows)
  PROVE  RowOf(rows, i) \in rows /\ RowOf(rows, i).id = i
BY DEF RowOf, IdsOf

\* Rows with different ids below n are fewer than n.
LEMMA FewerThanIds ==
  ASSUME NEW rows \in SUBSET LinkRow, DistinctIds(rows),
         NEW n \in Nat \ {0}, \A l \in rows : l.id < n
  PROVE  /\ IsFiniteSet(rows)
         /\ Cardinality(rows) \in Nat
         /\ Cardinality(rows) < n
<1> DEFINE f == [l \in rows |-> l.id]
<1>1. \A l \in rows : l.id \in 1..(n-1)
  BY DEF LinkRow, LinkIds
<1>2. f \in Injection(rows, 1..(n-1))
  BY <1>1 DEF Injection, IsInjective, DistinctIds
<1>3. IsFiniteSet(1..(n-1)) /\ Cardinality(1..(n-1)) = n-1
  BY FS_Interval
<1> HIDE DEF f
<1>4. IsFiniteSet(rows) /\ Cardinality(rows) <= n-1
  BY <1>2, <1>3, FS_Injection
<1> QED BY <1>4, FS_CardinalityType

LEMMA IndexInRange ==
  ASSUME NEW rows \in SUBSET LinkRow, IsFiniteSet(rows), NEW l \in rows
  PROVE  Index(rows, l) \in 1..Cardinality(rows)
<1> DEFINE below == {m \in rows : m.position <= l.position}
<1>1. below \in SUBSET rows /\ l \in below
  BY DEF LinkRow
<1>2. /\ IsFiniteSet(below)
      /\ Cardinality(below) <= Cardinality(rows)
      /\ Cardinality(below) \in Nat /\ Cardinality(rows) \in Nat
  BY <1>1, FS_Subset, FS_CardinalityType
<1>3. Cardinality(below) # 0
  BY <1>1, <1>2, FS_EmptySet
<1> QED BY <1>2, <1>3 DEF Index

\* What a request in its write phase works on.
Writing(r) == IndInv /\ r \in Requests /\ pc[r] = "write"

LEMMA SeenFacts ==
  ASSUME NEW r, Writing(r)
  PROVE  /\ call[r] \in CallType
         /\ seen[r] \in SUBSET LinkRow /\ DistinctIds(seen[r])
         /\ nextId \in Nat \ {0}
         /\ \A l \in seen[r] : l.id < nextId /\ l.position \in 1..(nextId - 1)
         /\ \A rows \in SUBSET seen[r] :
              /\ IsFiniteSet(rows) /\ Cardinality(rows) \in Nat
              /\ Cardinality(rows) < nextId
<1>1. /\ call[r] \in CallType
      /\ seen[r] \in SUBSET LinkRow /\ DistinctIds(seen[r])
      /\ nextId \in Nat \ {0}
  BY CallsAssumption, BoundAssumption
     DEF Writing, IndInv, TypeOK, SessionInv, DistinctIds
<1>2. \A l \in seen[r] : l.id < nextId /\ l.position \in 1..(nextId - 1)
  BY <1>1 DEF Writing, IndInv, SessionInv, LinkRow
<1>3. ASSUME NEW rows \in SUBSET seen[r]
      PROVE  /\ IsFiniteSet(rows) /\ Cardinality(rows) \in Nat
             /\ Cardinality(rows) < nextId
  <2>1. rows \in SUBSET LinkRow /\ DistinctIds(rows) /\ \A l \in rows : l.id < nextId
    BY <1>1, <1>2 DEF DistinctIds
  <2> QED BY <2>1, <1>1, FewerThanIds
<1> QED BY <1>1, <1>2, <1>3

\* The position of a new link is one of 1..nextId: see PositionsInRange.
LEMMA AddPositions ==
  ASSUME NEW r, Writing(r)
  PROVE  /\ ClampedPosition(call[r], seen[r]) \in 1..nextId
         /\ AddShift(r) \in [DOMAIN AddShift(r) -> 1..nextId]
         /\ AddOrder(r) \in [DOMAIN AddShift(r) -> Int]
<1>1. /\ call[r].position \in Int /\ nextId \in Nat \ {0}
      /\ Cardinality(seen[r]) \in Nat /\ Cardinality(seen[r]) < nextId
      /\ \A l \in seen[r] : l.position \in 1..(nextId - 1)
  BY SeenFacts DEF CallType
<1>2. ClampedPosition(call[r], seen[r]) \in 1..nextId
  BY <1>1 DEF ClampedPosition
<1>3. AddShift(r) \in [DOMAIN AddShift(r) -> 1..nextId]
  <2> DEFINE rows == {l \in seen[r] :
                        l.position >= ClampedPosition(call[r], seen[r])}
  <2>1. \A l \in rows : l.position + 1 \in 1..nextId
    BY <1>1
  <2> HIDE DEF rows
  <2>2. \A i \in IdsOf(rows) : RowOf(rows, i).position + 1 \in 1..nextId
    BY <2>1, RowOfId
  <2>3. AddShift(r) = [i \in IdsOf(rows) |-> RowOf(rows, i).position + 1]
    BY DEF AddShift, rows
  <2> QED BY <2>2, <2>3
<1>4. AddOrder(r) \in [DOMAIN AddShift(r) -> Int]
  BY <1>1, <1>3 DEF AddOrder
<1> QED BY <1>2, <1>3, <1>4

LEMMA MovePositions ==
  ASSUME NEW r, Writing(r), call[r].op = "move"
  PROVE  /\ MoveFinal(r) \in [IdsOf(seen[r]) -> 1..Cardinality(seen[r])]
         /\ MoveFinal(r) \in [IdsOf(seen[r]) -> 1..(nextId - 1)]
         /\ MoveParked(r) \in [IdsOf(seen[r]) -> Int]
<1> DEFINE others == {m \in seen[r] : m.block # call[r].block}
<1>1. /\ seen[r] \in SUBSET LinkRow /\ nextId \in Nat \ {0}
      /\ Cardinality(seen[r]) \in Nat /\ Cardinality(seen[r]) < nextId
      /\ IsFiniteSet(seen[r])
      /\ IsFiniteSet(others) /\ Cardinality(others) \in Nat
  BY SeenFacts
<1>2. /\ call[r].position \in 1..Cardinality(seen[r])
      /\ call[r].block \in BlocksOf(seen[r])
  BY DEF Writing, IndInv, SessionInv, PlaceOK
<1>3. Cardinality(others) < Cardinality(seen[r])
  <2>1. PICK moved \in seen[r] : moved.block = call[r].block
    BY <1>2 DEF BlocksOf
  <2>2. others \in SUBSET seen[r] /\ others # seen[r]
    BY <2>1
  <2> HIDE DEF others
  <2> QED BY <2>2, <1>1, FS_Subset
<1>4. ASSUME NEW l \in seen[r]
      PROVE  MovedPosition(r, l) \in 1..Cardinality(seen[r])
  <2>1. CASE l.block = call[r].block
    BY <2>1, <1>1, <1>2 DEF MovedPosition
  <2>2. CASE l.block # call[r].block
    <3>1. Index(others, l) \in 1..Cardinality(others)
      BY <2>2, <1>1, IndexInRange
    <3>2. MovedPosition(r, l) = IF Index(others, l) < call[r].position
                                THEN Index(others, l) ELSE Index(others, l) + 1
      BY <2>2 DEF MovedPosition
    <3> HIDE DEF others
    <3> QED BY <3>1, <3>2, <1>1, <1>2, <1>3
  <2> QED BY <2>1, <2>2
<1>5. MoveFinal(r) \in [IdsOf(seen[r]) -> 1..Cardinality(seen[r])]
  BY <1>4, RowOfId DEF MoveFinal
<1>6. MoveFinal(r) \in [IdsOf(seen[r]) -> 1..(nextId - 1)]
  <2>1. 1..Cardinality(seen[r]) \subseteq 1..(nextId - 1)
    BY <1>1
  <2> QED BY <1>5, <2>1
<1>7. MoveParked(r) \in [IdsOf(seen[r]) -> Int]
  BY <1>1, <1>5 DEF MoveParked
<1> QED BY <1>5, <1>6, <1>7

LEMMA RemovePositions ==
  ASSUME NEW r, Writing(r)
  PROVE  RemoveRenumber(r) \in [DOMAIN RemoveRenumber(r) -> 1..(nextId - 1)]
<1> DEFINE rest  == seen[r] \ RemovedRows(r)
           moved == {l \in rest : Index(rest, l) # l.position}
<1>1. /\ rest \in SUBSET LinkRow /\ nextId \in Nat \ {0}
      /\ IsFiniteSet(rest) /\ Cardinality(rest) \in Nat
      /\ Cardinality(rest) < nextId
  BY SeenFacts
<1>2. RemoveRenumber(r) = [i \in IdsOf(moved) |-> Index(rest, RowOf(rest, i))]
  BY DEF RemoveRenumber
<1>3. \A i \in IdsOf(moved) : RowOf(rest, i) \in rest
  BY RowOfId DEF IdsOf
<1> HIDE DEF rest, moved
<1>4. \A i \in IdsOf(moved) : Index(rest, RowOf(rest, i)) \in 1..(nextId - 1)
  BY <1>1, <1>3, IndexInRange
<1> QED BY <1>2, <1>4

-----------------------------------------------------------------------------
(* The table as a whole. *)

TableOK(rows, ts, bs, n) ==
  /\ rows \subseteq LinkRow
  /\ DistinctIds(rows) /\ DistinctPositions(rows) /\ DistinctBlocks(rows)
  /\ \A l \in rows : l.id < n /\ l.template \in ts /\ l.block \in bs

InRange(rows, n) == \A l \in rows : l.position >= 1 /\ l.position < n

SameIdentities(new, old) ==
  \A u \in new : \E l \in old :
    u.id = l.id /\ u.template = l.template /\ u.block = l.block

LEMMA TableOfInv ==
  ASSUME IndInv
  PROVE  TableOK(links, templates, blocks, nextId) /\ InRange(links, nextId)
BY DEF IndInv, TypeOK, LinksInv, UniquePositions, UniqueBlocks, InRange,
       ReferentialIntegrity, PositionsInRange, TableOK, DistinctIds,
       DistinctPositions, DistinctBlocks

LEMMA InvOfTable ==
  ASSUME TableOK(links, templates, blocks, nextId), InRange(links, nextId)
  PROVE  links \subseteq LinkRow /\ LinksInv
BY DEF LinksInv, UniquePositions, UniqueBlocks, InRange, ReferentialIntegrity,
       PositionsInRange, TableOK, DistinctIds, DistinctPositions, DistinctBlocks

LEMMA FlushKeepsTable ==
  ASSUME NEW rows, NEW ts, NEW bs, NEW n, TableOK(rows, ts, bs, n),
         NEW D, NEW pos \in [D -> Int], NEW order \in [D -> Int],
         ~FlushFails(rows, pos, order)
  PROVE  /\ TableOK(Flushed(rows, pos), ts, bs, n)
         /\ SameIdentities(Flushed(rows, pos), rows)
         /\ Repositions(Flushed(rows, pos), rows, pos, D)
<1> DEFINE new == Flushed(rows, pos)
<1>1. rows \in SUBSET LinkRow /\ DistinctIds(rows) /\ DistinctBlocks(rows)
      /\ DistinctPositions(rows)
  BY DEF TableOK
<1>2. DistinctPositions(new)
  BY <1>1, FlushKeepsPositionsDistinct
<1>3. Repositions(new, rows, pos, D)
  BY <1>1, UpdatedRows DEF Flushed
<1>4. DistinctIds(new) /\ DistinctBlocks(new)
  BY <1>1, UpdatedDistinct DEF Flushed
<1> HIDE DEF new
<1>5. SameIdentities(new, rows)
  BY <1>3 DEF Repositions, SameIdentities
<1>6. TableOK(new, ts, bs, n)
  BY <1>2, <1>3, <1>4, <1>5 DEF TableOK, SameIdentities, Repositions
<1> QED BY <1>3, <1>5, <1>6 DEF new

LEMMA SubsetKeepsTable ==
  ASSUME NEW rows, NEW ts, NEW bs, NEW n, TableOK(rows, ts, bs, n),
         InRange(rows, n), NEW new \in SUBSET rows
  PROVE  TableOK(new, ts, bs, n) /\ InRange(new, n) /\ SameIdentities(new, rows)
BY DEF TableOK, InRange, SameIdentities, DistinctIds, DistinctPositions,
       DistinctBlocks

\* What the write phase of each reordering leaves in the table.
LEMMA AddKeepsTable ==
  ASSUME NEW r, Writing(r), ~AddFails(r)
  PROVE  /\ NewLink(r) \in LinkRow /\ NewLink(r).id = nextId
         /\ TableOK(AddRows(r), templates, blocks, nextId + 1)
         /\ InRange(AddRows(r), nextId + 1)
         /\ SameIdentities(AddRows(r) \ {NewLink(r)}, links)
<1> DEFINE mid == Flushed(links, AddShift(r))
           l == NewLink(r)
<1>1. TableOK(links, templates, blocks, nextId) /\ InRange(links, nextId)
  BY TableOfInv DEF Writing
<1>2. /\ AddShift(r) \in [DOMAIN AddShift(r) -> 1..nextId]
      /\ AddShift(r) \in [DOMAIN AddShift(r) -> Int]
      /\ AddOrder(r) \in [DOMAIN AddShift(r) -> Int]
      /\ ClampedPosition(call[r], seen[r]) \in 1..nextId
      /\ nextId \in Nat \ {0} /\ call[r] \in CallType
  BY AddPositions, SeenFacts
<1>3. ~FlushFails(links, AddShift(r), AddOrder(r)) /\ ~InsertFails(mid, l)
  BY DEF AddFails
<1>4. /\ TableOK(mid, templates, blocks, nextId)
      /\ SameIdentities(mid, links)
      /\ Repositions(mid, links, AddShift(r), DOMAIN AddShift(r))
  BY <1>1, <1>2, <1>3, FlushKeepsTable
<1>5. /\ l \in LinkRow
      /\ l.id = nextId /\ l.template = call[r].template /\ l.block = call[r].block
      /\ l.position \in 1..nextId
  <2>1. nextId <= MaxLinkId
    BY <1>2, <1>3, BoundAssumption DEF InsertFails
  <2> QED BY <1>2, <2>1, BoundAssumption
          DEF NewLink, LinkRow, LinkIds, CallType
<1>6. AddRows(r) = mid \cup {l}
  BY DEF AddRows
<1> HIDE DEF mid, l
<1>7. /\ l.template \in templates /\ l.block \in blocks
      /\ ~PositionTaken(mid, l)
      /\ \A m \in mid : ~(m.template = l.template /\ m.block = l.block)
  BY <1>3 DEF InsertFails
<1>8. \A m \in mid : m.id < nextId /\ m.id \in Int
  BY <1>4 DEF TableOK, LinkRow, LinkIds
<1>9. TableOK(mid \cup {l}, templates, blocks, nextId + 1)
  <2>1. DistinctIds(mid \cup {l})
    BY <1>2, <1>4, <1>5, <1>8 DEF TableOK, DistinctIds
  <2>2. DistinctPositions(mid \cup {l})
    BY <1>2, <1>4, <1>5, <1>7, <1>8 DEF TableOK, DistinctPositions, PositionTaken
  <2>3. DistinctBlocks(mid \cup {l})
    BY <1>4, <1>7 DEF TableOK, DistinctBlocks
  <2> QED BY <1>2, <1>4, <1>5, <1>7, <1>8, <2>1, <2>2, <2>3 DEF TableOK
<1>10. InRange(mid \cup {l}, nextId + 1)
  <2>1. \A m \in mid : m.position >= 1 /\ m.position < nextId + 1
    BY <1>1, <1>2, <1>4 DEF Repositions, InRange, TableOK, LinkRow
  <2> QED BY <1>2, <1>5, <2>1 DEF InRange
<1>11. SameIdentities((mid \cup {l}) \ {l}, links)
  BY <1>4 DEF SameIdentities
<1> QED BY <1>5, <1>6, <1>9, <1>10, <1>11 DEF l

LEMMA MoveKeepsTable ==
  ASSUME NEW r, Writing(r), call[r].op = "move", ~MoveFails(r)
  PROVE  /\ TableOK(MoveRows(r), templates, blocks, nextId)
         /\ InRange(MoveRows(r), nextId)
         /\ SameIdentities(MoveRows(r), links)
<1> DEFINE D == IdsOf(seen[r])
           parked == Flushed(links, MoveParked(r))
<1>1. TableOK(links, templates, blocks, nextId) /\ InRange(links, nextId)
  BY TableOfInv DEF Writing
<1>2. /\ MoveParked(r) \in [D -> Int]
      /\ MoveFinal(r) \in [D -> 1..(nextId - 1)]
      /\ MoveFinal(r) \in [D -> Int]
      /\ PrimaryKeyOrder(MoveParked(r)) \in [D -> Int]
      /\ PrimaryKeyOrder(MoveFinal(r)) \in [D -> Int]
      /\ nextId \in Nat \ {0}
  <2>1. \A i \in D : i \in Int
    BY SeenFacts DEF LinkRow, LinkIds, IdsOf
  <2> QED BY <2>1, MovePositions, SeenFacts DEF PrimaryKeyOrder
<1>3. /\ ~FlushFails(links, MoveParked(r), PrimaryKeyOrder(MoveParked(r)))
      /\ ~FlushFails(parked, MoveFinal(r), PrimaryKeyOrder(MoveFinal(r)))
  BY DEF MoveFails
<1> HIDE DEF D
<1>4. /\ TableOK(parked, templates, blocks, nextId)
      /\ SameIdentities(parked, links)
      /\ Repositions(parked, links, MoveParked(r), D)
  BY <1>1, <1>2, <1>3, FlushKeepsTable
<1>5. MoveRows(r) = Flushed(parked, MoveFinal(r))
  BY DEF MoveRows
<1> HIDE DEF parked
<1>6. /\ TableOK(MoveRows(r), templates, blocks, nextId)
      /\ SameIdentities(MoveRows(r), parked)
      /\ Repositions(MoveRows(r), parked, MoveFinal(r), D)
  BY <1>2, <1>3, <1>4, <1>5, FlushKeepsTable
<1>7. SameIdentities(MoveRows(r), links)
  BY <1>4, <1>6 DEF SameIdentities
\* A row that was parked gets its final position, any other keeps its own.
<1>8. InRange(MoveRows(r), nextId)
  <2> SUFFICES ASSUME NEW u \in MoveRows(r)
               PROVE  u.position >= 1 /\ u.position < nextId
    BY DEF InRange
  <2>1. PICK v \in parked :
          u.position = IF v.id \in D THEN MoveFinal(r)[v.id] ELSE v.position
    BY <1>6 DEF Repositions
  <2>2. CASE v.id \in D
    <3>1. MoveFinal(r)[v.id] \in 1..(nextId - 1)
      BY <1>2, <2>2
    <3> QED BY <1>2, <2>1, <2>2, <3>1
  <2>3. CASE v.id \notin D
    <3>1. PICK l \in links : v.position = l.position
      BY <1>4, <2>3 DEF Repositions
    <3> QED BY <1>1, <2>1, <2>3, <3>1 DEF InRange
  <2> QED BY <2>2, <2>3
<1> QED BY <1>6, <1>7, <1>8

LEMMA RemoveKeepsTable ==
  ASSUME NEW r, Writing(r), ~RemoveFails(r)
  PROVE  /\ TableOK(RemoveRows(r), templates, blocks, nextId)
         /\ InRange(RemoveRows(r), nextId)
         /\ SameIdentities(RemoveRows(r), links)
<1> DEFINE D == DOMAIN RemoveRenumber(r)
           left == Without(links, RemovedRows(r))
<1>1. TableOK(links, templates, blocks, nextId) /\ InRange(links, nextId)
  BY TableOfInv DEF Writing
<1>2. /\ TableOK(left, templates, blocks, nextId) /\ InRange(left, nextId)
      /\ SameIdentities(left, links)
  <2>1. left \in SUBSET links
    BY DEF Without
  <2> HIDE DEF left
  <2> QED BY <1>1, <2>1, SubsetKeepsTable
<1>3. /\ RemoveRenumber(r) \in [D -> 1..(nextId - 1)]
      /\ RemoveRenumber(r) \in [D -> Int]
      /\ nextId \in Nat \ {0}
  BY RemovePositions, SeenFacts
<1>4. ~FlushFails(left, RemoveRenumber(r), PrimaryKeyOrder(RemoveRenumber(r)))
  BY DEF RemoveFails
<1>5. RemoveRows(r) = Flushed(left, RemoveRenumber(r))
  BY DEF RemoveRows
<1>6. \A i \in D : i \in Int
  BY <1>4, <1>2 DEF FlushFails, TableOK, IdsOf, LinkRow, LinkIds
<1> HIDE DEF left
<1>7. PrimaryKeyOrder(RemoveRenumber(r)) \in [D -> Int]
  BY <1>6 DEF PrimaryKeyOrder
<1> HIDE DEF D
<1>8. /\ TableOK(RemoveRows(r), templates, blocks, nextId)
      /\ SameIdentities(RemoveRows(r), left)
      /\ Repositions(RemoveRows(r), left, RemoveRenumber(r), D)
  BY <1>2, <1>3, <1>4, <1>5, <1>7, FlushKeepsTable
<1>9. SameIdentities(RemoveRows(r), links)
  BY <1>2, <1>8 DEF SameIdentities
<1>10. InRange(RemoveRows(r), nextId)
  BY <1>2, <1>3, <1>8 DEF Repositions, InRange
<1> QED BY <1>8, <1>9, <1>10

-----------------------------------------------------------------------------
(* The inductive invariant. *)

\* Rows that a session may hold: loaded now or earlier, or written by itself.
HoldOK(rows) ==
  /\ rows \subseteq LinkRow
  /\ DistinctIds(rows)
  /\ \A l \in rows : l.id < nextId /\ l.position >= 1 /\ l.position < nextId
  /\ \A l \in rows, m \in links :
       l.id = m.id => l.template = m.template /\ l.block = m.block

LEMMA HoldOfInv ==
  ASSUME IndInv, NEW r \in Requests
  PROVE  HoldOK(seen[r])
BY DEF IndInv, TypeOK, SessionInv, LoadedRowsKeepIdentity, HoldOK, DistinctIds

LEMMA HoldLinks ==
  ASSUME IndInv, NEW rows \in SUBSET links
  PROVE  HoldOK(rows)
<1>1. TableOK(links, templates, blocks, nextId) /\ InRange(links, nextId)
  BY TableOfInv
<1> QED BY <1>1 DEF HoldOK, TableOK, InRange, DistinctIds

\* A step of r that does not write: the tables stay and r's session holds what
\* it held, what it has just read, or nothing.
LEMMA ReadStep ==
  ASSUME IndInv, UNCHANGED db, NEW r \in Requests, TypeOK',
         seen' = [seen EXCEPT ![r] = seen'[r]],
         HoldOK(seen'[r]),
         \A q \in Requests \ {r} : pc'[q] = pc[q] /\ call'[q] = call[q],
         PlaceOK(pc'[r], call'[r], seen'[r])
  PROVE  IndInv'
<1>1. LinksInv'
  BY DEF db, IndInv, LinksInv, UniquePositions, UniqueBlocks,
         ReferentialIntegrity, PositionsInRange
<1>2. \A q \in Requests : HoldOK(seen'[q])
  BY HoldOfInv DEF IndInv, TypeOK
<1>3. LoadedRowsKeepIdentity'
  BY <1>2 DEF HoldOK, LoadedRowsKeepIdentity, db
<1>4. \A q \in Requests : SessionInv(q)'
  <2> SUFFICES ASSUME NEW q \in Requests
               PROVE  SessionInv(q)'
    OBVIOUS
  <2>1. HoldOK(seen'[q]) /\ nextId' = nextId
    BY <1>2 DEF db
  <2>2. PlaceOK(pc'[q], call'[q], seen'[q])
    BY DEF IndInv, SessionInv, TypeOK
  <2>3. PlaceOK(pc[q], call[q], seen[q])' <=> PlaceOK(pc'[q], call'[q], seen'[q])
    BY DEF PlaceOK, BlocksOf
  <2> QED BY <2>1, <2>2, <2>3 DEF HoldOK, DistinctIds, SessionInv
<1> QED BY <1>1, <1>3, <1>4 DEF IndInv

\* A commit of r: links' keeps the identity of every row that was there before,
\* so what other sessions hold is stale in its positions at most.
LEMMA CommitStep ==
  ASSUME IndInv, NEW r \in Requests, TypeOK',
         NEW row, Committed(r, row),
         nextId' \in {nextId, nextId + 1},
         TableOK(links', templates', blocks', nextId'),
         InRange(links', nextId'),
         \A u \in links' : \/ u.id = nextId
                           \/ \E l \in links : /\ u.id = l.id
                                               /\ u.template = l.template
                                               /\ u.block = l.block,
         row \in SUBSET seen[r] \/ row \in SUBSET links'
  PROVE  IndInv'
<1>1. LinksInv'
  BY DEF LinksInv, UniquePositions, UniqueBlocks, InRange, ReferentialIntegrity,
       PositionsInRange, TableOK, DistinctIds, DistinctPositions, DistinctBlocks
<1>2. nextId \in Int /\ nextId' >= nextId /\ nextId' \in Int
  BY DEF IndInv, TypeOK
<1>3. ASSUME NEW rows \in SUBSET LinkRow, HoldOK(rows)
      PROVE  /\ DistinctIds(rows)
             /\ \A l \in rows : l.id < nextId' /\ l.position >= 1
                                 /\ l.position < nextId'
             /\ \A l \in rows, m \in links' :
                  l.id = m.id => l.template = m.template /\ l.block = m.block
  <2>1. \A l \in rows : l.id \in Int /\ l.position \in Int
    BY DEF LinkRow, LinkIds
  <2> QED BY <1>2, <1>3, <2>1 DEF HoldOK
<1>4. ASSUME NEW rows \in SUBSET links'
      PROVE  /\ DistinctIds(rows)
             /\ \A l \in rows : l.id < nextId' /\ l.position >= 1
                                 /\ l.position < nextId'
             /\ \A l \in rows, m \in links' :
                  l.id = m.id => l.template = m.template /\ l.block = m.block
  BY DEF TableOK, InRange, DistinctIds
<1>5. \A q \in Requests :
        /\ DistinctIds(seen'[q])
        /\ \A l \in seen'[q] : l.id < nextId' /\ l.position >= 1
                                 /\ l.position < nextId'
        /\ \A l \in seen'[q], m \in links' :
             l.id = m.id => l.template = m.template /\ l.block = m.block
  <2> SUFFICES ASSUME NEW q \in Requests
      PROVE /\ DistinctIds(seen'[q])
            /\ \A l \in seen'[q] : l.id < nextId' /\ l.position >= 1
                                     /\ l.position < nextId'
            /\ \A l \in seen'[q], m \in links' :
                 l.id = m.id => l.template = m.template /\ l.block = m.block
    OBVIOUS
  <2>1. seen'[q] = seen[q] \/ (q = r /\ seen'[q] = row)
    BY DEF Committed, IndInv, TypeOK
  <2>2. seen[q] \in SUBSET LinkRow /\ HoldOK(seen[q])
    BY HoldOfInv DEF HoldOK
  <2>3. CASE seen'[q] = seen[q]
    BY <2>2, <2>3, <1>3
  <2>4. CASE q = r /\ seen'[q] = row /\ row \in SUBSET seen[r]
    BY <2>2, <2>4, <1>3 DEF DistinctIds
  <2>5. CASE q = r /\ seen'[q] = row /\ row \in SUBSET links'
    BY <2>5, <1>4
  <2> QED BY <2>1, <2>3, <2>4, <2>5
<1>6. LoadedRowsKeepIdentity'
  BY <1>5 DEF LoadedRowsKeepIdentity
<1>7. \A q \in Requests : SessionInv(q)'
  <2> SUFFICES ASSUME NEW q \in Requests
               PROVE  SessionInv(q)'
    OBVIOUS
  <2>1. PlaceOK(pc[q], call[q], seen[q])'
    BY DEF Committed, Goto, IndInv, SessionInv, TypeOK, PlaceOK, BlocksOf
  <2> QED BY <2>1, <1>5 DEF DistinctIds, SessionInv
<1> QED BY <1>1, <1>6, <1>7 DEF IndInv

\* An answer forgets the call and everything the session held.
LEMMA AnswerStep ==
  ASSUME IndInv, UNCHANGED db, NEW r \in Requests, NEW status \in Replies,
         Answer(r, status)
  PROVE  IndInv'
<1> USE DEF Answer, Goto
<1>1. TypeOK'
  BY DEF IndInv, TypeOK, db, PCs, Replies
<1>2. HoldOK({})
  BY DEF HoldOK, DistinctIds
<1>3. seen'[r] = {} /\ seen' = [seen EXCEPT ![r] = seen'[r]] /\ pc'[r] = "idle"
  BY DEF IndInv, TypeOK
<1>4. \A q \in Requests \ {r} : pc'[q] = pc[q] /\ call'[q] = call[q]
  BY DEF IndInv, TypeOK
<1>5. PlaceOK(pc'[r], call'[r], seen'[r])
  BY <1>3 DEF PlaceOK
<1> HIDE DEF Answer, Goto
<1> QED BY <1>1, <1>2, <1>3, <1>4, <1>5, ReadStep

\* The verdict on a loaded template is an answer or the next place to go.
LEMMA Verdicts ==
  ASSUME NEW r, call[r] \in CallType, NEW loaded
  PROVE  /\ Verdict(r, loaded) \in Replies \cup {"write", "block"}
         /\ PlaceOK(Verdict(r, loaded), call[r], seen[r])
<1>1. call[r].op \in Ops
  BY DEF CallType
<1>2. CASE call[r].op = "read"
  BY <1>2 DEF Verdict, Replies, PlaceOK
<1>3. CASE call[r].op # "read"
             /\ ~IsOwner(call[r].user, TemplateOwner[call[r].template])
  BY <1>1, <1>3 DEF Verdict, Replies, Ops, PlaceOK
<1>4. CASE call[r].op # "read"
             /\ IsOwner(call[r].user, TemplateOwner[call[r].template])
  BY <1>1, <1>4 DEF Verdict, Replies, Ops, PlaceOK
<1> QED BY <1>2, <1>3, <1>4

\* A request that goes on: to another place, holding the given link rows.
LEMMA GotoStep ==
  ASSUME IndInv, UNCHANGED db, NEW r \in Requests, pc[r] # "idle",
         NEW place \in PCs, Goto(r, place), UNCHANGED <<call, reply>>,
         held' \in [Requests -> SUBSET Blocks],
         NEW rows, HoldOK(rows), seen' = [seen EXCEPT ![r] = rows],
         PlaceOK(place, call[r], rows)
  PROVE  IndInv'
<1> USE DEF Goto
<1>1. TypeOK'
  BY DEF IndInv, TypeOK, db, HoldOK
<1>2. seen'[r] = rows /\ pc'[r] = place /\ call'[r] = call[r]
  BY DEF IndInv, TypeOK
<1>3. \A q \in Requests \ {r} : pc'[q] = pc[q] /\ call'[q] = call[q]
  BY DEF IndInv, TypeOK
<1> HIDE DEF Goto
<1> QED BY <1>1, <1>2, <1>3, ReadStep

LEMMA FollowStep ==
  ASSUME IndInv, UNCHANGED db, NEW r \in Requests, pc[r] # "idle",
         NEW verdict \in Replies \cup {"write", "block", "usage"},
         NEW rows \in SUBSET Blocks, Follow(r, verdict, rows),
         PlaceOK(verdict, call[r], seen[r])
  PROVE  IndInv'
<1>1. CASE verdict \in Replies
  BY <1>1, AnswerStep DEF Follow
<1>2. CASE verdict \notin Replies
  <2>1. /\ Goto(r, verdict) /\ UNCHANGED <<call, reply>> /\ verdict \in PCs
        /\ held' = [held EXCEPT ![r] = rows]
        /\ seen' = seen
    BY <1>2 DEF Follow, PCs
  <2>2. /\ held' \in [Requests -> SUBSET Blocks]
        /\ seen' = [seen EXCEPT ![r] = seen[r]]
    BY <2>1 DEF IndInv, TypeOK
  <2>3. HoldOK(seen[r])
    BY HoldOfInv
  <2> QED BY <2>1, <2>2, <2>3, GotoStep
<1> QED BY <1>1, <1>2

\* Every step of a request before its write phase.
LEMMA HandleReads ==
  ASSUME IndInv, NEW r \in Requests,
         Begin(r) \/ SelectTemplate(r) \/ SelectLinks(r) \/ SelectBlocks(r)
           \/ GetBlock(r) \/ SelectUsage(r)
  PROVE  IndInv'
<1>1. UNCHANGED db
  BY DEF Begin, SelectTemplate, SelectLinks, SelectBlocks, GetBlock,
         SelectUsage, db
<1>2. HoldOK(seen[r])
  BY HoldOfInv
<1>3. /\ seen = [seen EXCEPT ![r] = seen[r]]
      /\ held \in [Requests -> SUBSET Blocks]
      /\ pc[r] # "idle" => call[r] \in CallType
  BY CallsAssumption DEF IndInv, TypeOK
<1>4. CASE Begin(r)
  <2>1. TypeOK'
    BY <1>4, CallsAssumption DEF Begin, Goto, IndInv, TypeOK, db, PCs, Replies
  <2>2. /\ \A q \in Requests \ {r} : pc'[q] = pc[q] /\ call'[q] = call[q]
        /\ PlaceOK(pc'[r], call'[r], seen'[r]) /\ seen' = seen
    BY <1>4 DEF Begin, Goto, IndInv, TypeOK, PlaceOK
  <2> QED BY <1>1, <1>2, <1>3, <2>1, <2>2, ReadStep
<1>5. CASE SelectTemplate(r)
  <2>1. CASE call[r].template \in templates
    BY <1>1, <1>2, <1>3, <1>5, <2>1, GotoStep DEF SelectTemplate, PCs, PlaceOK
  <2>2. CASE call[r].template \notin templates
    BY <1>1, <1>5, <2>2, AnswerStep DEF SelectTemplate, Replies
  <2> QED BY <2>1, <2>2
<1>6. CASE SelectLinks(r)
  <2>1. HoldOK(LinksOf(call[r].template))
    BY HoldLinks DEF LinksOf
  <2> QED BY <1>1, <1>3, <1>6, <2>1, GotoStep DEF SelectLinks, PCs, PlaceOK
<1>7. CASE SelectBlocks(r)
  <2> DEFINE loaded == blocks \cap BlocksOf(seen[r])
  <2>1. /\ Follow(r, Verdict(r, loaded), loaded)
        /\ pc[r] # "idle"
        /\ loaded \in SUBSET Blocks
    BY <1>7 DEF SelectBlocks, IndInv, TypeOK
  <2> HIDE DEF loaded
  <2>2. /\ Verdict(r, loaded) \in Replies \cup {"write", "block", "usage"}
        /\ PlaceOK(Verdict(r, loaded), call[r], seen[r])
    BY <1>3, <2>1, Verdicts
  <2> QED BY <1>1, <2>1, <2>2, FollowStep
<1>8. CASE GetBlock(r)
  <2> DEFINE rows == held[r] \cup {call[r].block}
  <2>1. /\ Follow(r, BlockVerdict(r), rows)
        /\ pc[r] # "idle"
    BY <1>8 DEF GetBlock
  <2>2. rows \in SUBSET Blocks
    BY <1>3, <2>1 DEF CallType
  <2> HIDE DEF rows
  <2>3. /\ BlockVerdict(r) \in Replies \cup {"write", "block", "usage"}
        /\ PlaceOK(BlockVerdict(r), call[r], seen[r])
    BY <1>8 DEF GetBlock, BlockVerdict, Replies, PlaceOK, IndInv, SessionInv
  <2> QED BY <1>1, <2>1, <2>2, <2>3, FollowStep
<1>9. CASE SelectUsage(r)
  <2>1. CASE \E l \in links : l.block = call[r].block
    BY <1>1, <1>9, <2>1, AnswerStep DEF SelectUsage, Replies
  <2>2. CASE ~\E l \in links : l.block = call[r].block
    <3>1. PlaceOK("write", call[r], seen[r])
      BY <1>9 DEF SelectUsage, PlaceOK, IndInv, SessionInv
    <3> QED BY <1>1, <1>2, <1>3, <1>9, <2>2, <3>1, GotoStep DEF SelectUsage, PCs
  <2> QED BY <2>1, <2>2
<1> QED BY <1>4, <1>5, <1>6, <1>7, <1>8, <1>9

\* Every commit: the constraints hold of what it leaves in the table, and rows
\* that other sessions hold keep their identity.
LEMMA HandleCommits ==
  ASSUME IndInv, NEW r \in Requests, Commit(r)
  PROVE  IndInv'
<1> USE DEF Commit
<1>1. Writing(r)
  BY DEF Writing, CommitAdd, CommitMove, CommitRemove, CommitDeleteTemplate,
         CommitDeleteBlock
<1>2. TableOK(links, templates, blocks, nextId) /\ InRange(links, nextId)
  BY TableOfInv
<1>3. /\ nextId \in Nat /\ nextId \in 1..(MaxLinkId + 1)
      /\ seen[r] \in SUBSET LinkRow
  BY BoundAssumption DEF IndInv, TypeOK
\* The part of the type invariant that no table decides.
<1>4. ASSUME NEW row \in SUBSET LinkRow, Committed(r, row),
             templates' \subseteq Templates, blocks' \subseteq Blocks,
             links' \subseteq LinkRow, nextId' \in 1..(MaxLinkId + 1)
      PROVE  TypeOK'
  BY <1>1, <1>4 DEF Committed, Goto, Writing, IndInv, TypeOK, PCs
<1>5. CASE CommitAdd(r)
  <2>1. /\ TableOK(links', templates', blocks', nextId') /\ InRange(links', nextId')
        /\ SameIdentities(links' \ {NewLink(r)}, links)
        /\ NewLink(r) \in LinkRow /\ NewLink(r).id = nextId /\ NewLink(r) \in links'
    BY <1>1, <1>5, AddKeepsTable DEF CommitAdd, AddRows
  <2>2. nextId' \in 1..(MaxLinkId + 1) /\ nextId' = nextId + 1
    BY <1>3, <1>5, <2>1, BoundAssumption DEF CommitAdd, LinkRow, LinkIds
  <2>3. TypeOK'
    BY <1>4, <1>5, <2>1, <2>2 DEF CommitAdd, TableOK, IndInv, TypeOK
  <2> QED BY <1>5, <2>1, <2>2, <2>3, CommitStep DEF CommitAdd, SameIdentities
<1>6. CASE CommitMove(r)
  <2> DEFINE row == {l \in seen[r] : l.block = call[r].block}
  <2>1. /\ TableOK(links', templates', blocks', nextId') /\ InRange(links', nextId')
        /\ SameIdentities(links', links)
        /\ nextId' = nextId
    BY <1>1, <1>6, MoveKeepsTable DEF CommitMove
  <2>2. Committed(r, row) /\ row \in SUBSET seen[r]
    BY <1>6 DEF CommitMove
  <2> HIDE DEF row
  <2>3. TypeOK'
    BY <1>3, <1>4, <1>6, <2>1, <2>2 DEF CommitMove, TableOK, IndInv, TypeOK
  <2> QED BY <2>1, <2>2, <2>3, CommitStep DEF SameIdentities
<1>7. CASE CommitRemove(r)
  <2>1. /\ TableOK(links', templates', blocks', nextId') /\ InRange(links', nextId')
        /\ SameIdentities(links', links)
        /\ nextId' = nextId /\ Committed(r, {})
    BY <1>1, <1>7, RemoveKeepsTable DEF CommitRemove
  <2>2. TypeOK'
    BY <1>3, <1>4, <1>7, <2>1 DEF CommitRemove, TableOK, IndInv, TypeOK
  <2> QED BY <2>1, <2>2, CommitStep DEF SameIdentities
<1>8. CASE CommitDeleteTemplate(r)
  <2>1. /\ links' \in SUBSET links /\ nextId' = nextId /\ Committed(r, {})
        /\ templates' = templates \ {call[r].template} /\ blocks' = blocks
        /\ \A l \in links' : l.template # call[r].template
    BY <1>8 DEF CommitDeleteTemplate, DeleteTemplateFails, Without
  <2>2. /\ TableOK(links', templates, blocks, nextId) /\ InRange(links', nextId)
        /\ SameIdentities(links', links)
    BY <1>2, <2>1, SubsetKeepsTable
  <2>3. TableOK(links', templates', blocks', nextId')
    BY <2>1, <2>2 DEF TableOK
  <2>4. TypeOK'
    BY <1>3, <1>4, <2>1, <2>3 DEF TableOK, IndInv, TypeOK
  <2> QED BY <2>1, <2>2, <2>3, <2>4, CommitStep DEF SameIdentities
<1>9. CASE CommitDeleteBlock(r)
  <2>1. /\ links' = links /\ nextId' = nextId /\ Committed(r, {})
        /\ templates' = templates /\ blocks' = blocks \ {call[r].block}
        /\ \A l \in links : l.block # call[r].block
    BY <1>9 DEF CommitDeleteBlock, DeleteBlockFails
  <2>2. TableOK(links', templates', blocks', nextId') /\ InRange(links', nextId')
    BY <1>2, <2>1 DEF TableOK
  <2>3. TypeOK'
    BY <1>3, <1>4, <2>1, <2>2 DEF TableOK, IndInv, TypeOK
  <2> QED BY <2>1, <2>2, <2>3, CommitStep
<1> QED BY <1>5, <1>6, <1>7, <1>8, <1>9

-----------------------------------------------------------------------------
(* The theorems. *)

LEMMA InitInv == Init => IndInv
<1> SUFFICES ASSUME Init PROVE IndInv
  OBVIOUS
<1>1. TypeOK
  BY BoundAssumption DEF Init, TypeOK, PCs, Replies
<1>2. LinksInv /\ LoadedRowsKeepIdentity
  BY DEF Init, LinksInv, UniquePositions, UniqueBlocks, ReferentialIntegrity,
         PositionsInRange, LoadedRowsKeepIdentity
<1>3. \A r \in Requests : SessionInv(r)
  BY DEF Init, SessionInv, PlaceOK
<1> QED BY <1>1, <1>2, <1>3 DEF IndInv

LEMMA NextInv == IndInv /\ [Next]_vars => IndInv'
<1> SUFFICES ASSUME IndInv, [Next]_vars PROVE IndInv'
  OBVIOUS
<1>1. ASSUME NEW r \in Requests, Begin(r) PROVE IndInv'
  BY <1>1, HandleReads
<1>2. ASSUME NEW r \in Requests, Handle(r) PROVE IndInv'
  <2>1. CASE SelectTemplate(r) \/ SelectLinks(r) \/ SelectBlocks(r)
               \/ GetBlock(r) \/ SelectUsage(r)
    BY <2>1, HandleReads
  <2>2. CASE Commit(r)
    BY <2>2, HandleCommits
  <2>3. CASE WriteRejected(r)
    BY <2>3, AnswerStep DEF WriteRejected, Replies
  <2>4. CASE Finish(r)
    BY <2>4, AnswerStep DEF Finish, Replies
  <2> QED BY <1>2, <2>1, <2>2, <2>3, <2>4 DEF Handle
<1>3. ASSUME NEW r \in Requests, Fault(r) PROVE IndInv'
  BY <1>3, AnswerStep DEF Fault, Replies
<1>4. CASE UNCHANGED vars
  BY <1>4 DEF vars, IndInv, TypeOK, LinksInv, UniquePositions, UniqueBlocks,
         ReferentialIntegrity, PositionsInRange, LoadedRowsKeepIdentity,
         SessionInv, PlaceOK, BlocksOf
<1> QED BY <1>1, <1>2, <1>3, <1>4 DEF Next

\* The inductive invariant holds of every run, for any number of templates,
\* blocks, users and workers and any set of calls.
THEOREM Invariance == Spec => []IndInv
<1>1. Init => IndInv
  BY InitInv
<1>2. IndInv /\ [Next]_vars => IndInv'
  BY NextInv
<1> QED BY <1>1, <1>2, PTL DEF Spec

\* Every variable keeps its type.
THEOREM TypeCorrectness == Spec => []TypeOK
BY Invariance, PTL DEF IndInv

\* Concurrent reorderings never leave two links of a template on one position.
THEOREM PositionsStayUnique == Spec => []UniquePositions
<1>1. IndInv => UniquePositions
  BY DEF IndInv, LinksInv
<1> QED BY <1>1, Invariance, PTL

\* Concurrent attachments never attach a block twice to a template.
THEOREM BlocksStayUnique == Spec => []UniqueBlocks
<1>1. IndInv => UniqueBlocks
  BY DEF IndInv, LinksInv
<1> QED BY <1>1, Invariance, PTL

\* Concurrent deletions never leave a link to a missing template or block.
THEOREM LinksNeverDangle == Spec => []ReferentialIntegrity
<1>1. IndInv => ReferentialIntegrity
  BY DEF IndInv, LinksInv
<1> QED BY <1>1, Invariance, PTL

\* No parked position is ever committed, and stale reorderings never push a
\* position beyond the number of attachments made so far.
THEOREM PositionsStayInRange == Spec => []PositionsInRange
<1>1. IndInv => PositionsInRange
  BY DEF IndInv, LinksInv
<1> QED BY <1>1, Invariance, PTL

\* A link row that a session holds and that is still stored links what it linked:
\* only its position can be stale.
THEOREM IdentityKept == Spec => []LoadedRowsKeepIdentity
BY Invariance, PTL DEF IndInv

\* A read that finds a link without its block means the link is gone by now.
THEOREM TornReads == Spec => []TornReadMeansUnlinked
<1>1. IndInv => TornReadMeansUnlinked
  <2> SUFFICES ASSUME IndInv, NEW r \in Requests, NEW l \in seen[r],
                      l.block \notin blocks, NEW m \in links, m.id = l.id
               PROVE  FALSE
    BY DEF TornReadMeansUnlinked, IdsOf
  <2>1. m.block = l.block
    BY DEF IndInv, LoadedRowsKeepIdentity
  <2> QED BY <2>1 DEF IndInv, LinksInv, ReferentialIntegrity
<1> QED BY <1>1, Invariance, PTL

\* A commit of one request is not the commit of another: it only adds a link
\* when it is the commit of an attachment.
LEMMA NewLinksAreAdded ==
  ASSUME IndInv, Next, NEW l \in links', l.id \notin IdsOf(links)
  PROVE  \E r \in Requests : CommitAdd(r) /\ l = NewLink(r)
<1>1. PICK r \in Requests : Begin(r) \/ Handle(r) \/ Fault(r)
  BY DEF Next
<1>2. ASSUME SameIdentities(links', links) PROVE FALSE
  BY <1>2 DEF SameIdentities, IdsOf
<1>3. SameIdentities(links, links)
  BY DEF SameIdentities
<1>4. Commit(r)
  BY <1>1, <1>2, <1>3
     DEF Begin, Handle, Fault, SelectTemplate, SelectLinks, SelectBlocks,
         GetBlock, SelectUsage, WriteRejected, Finish, db
<1>5. Writing(r)
  BY <1>4 DEF Writing, Commit, CommitAdd, CommitMove, CommitRemove,
              CommitDeleteTemplate, CommitDeleteBlock
<1>6. ~CommitMove(r)
  BY <1>2, <1>5, MoveKeepsTable DEF CommitMove
<1>7. ~CommitRemove(r)
  BY <1>2, <1>5, RemoveKeepsTable DEF CommitRemove
<1>8. ~CommitDeleteTemplate(r) /\ ~CommitDeleteBlock(r)
  BY <1>2, <1>3 DEF CommitDeleteTemplate, CommitDeleteBlock, Without,
                    SameIdentities
<1>9. CommitAdd(r)
  BY <1>4, <1>6, <1>7, <1>8 DEF Commit
<1>10. SameIdentities(links' \ {NewLink(r)}, links)
  BY <1>5, <1>9, AddKeepsTable DEF CommitAdd
<1> QED BY <1>9, <1>10 DEF SameIdentities, IdsOf

\* Only a superuser ever links a template to a block of another owner.
THEOREM CrossOwnerLinks == Spec => CrossOwnerLinksBySuperuser
<1> DEFINE Step == \A l \in links' :
       /\ l.id \notin IdsOf(links)
       /\ TemplateOwner[l.template] # BlockOwner[l.block]
       => \E r \in Requests : Commits(r) /\ call[r].user \in Superusers
<1>1. IndInv /\ [Next]_vars => [Step]_vars
  <2> SUFFICES ASSUME IndInv, Next, NEW l \in links', l.id \notin IdsOf(links),
                      TemplateOwner[l.template] # BlockOwner[l.block]
               PROVE  \E r \in Requests : Commits(r) /\ call[r].user \in Superusers
    OBVIOUS
  <2>1. PICK r \in Requests : CommitAdd(r) /\ l = NewLink(r)
    BY NewLinksAreAdded
  <2>2. Commits(r)
    BY <2>1 DEF CommitAdd, Committed, Goto, Commits, IndInv, TypeOK
  <2>3. /\ IsOwner(call[r].user, TemplateOwner[call[r].template])
        /\ IsOwner(call[r].user, BlockOwner[call[r].block])
    BY <2>1 DEF CommitAdd, IndInv, SessionInv, PlaceOK
  <2>4. l.template = call[r].template /\ l.block = call[r].block
    BY <2>1 DEF NewLink
  <2> QED BY <2>2, <2>3, <2>4 DEF IsOwner
<1>2. Spec => [][Step]_vars
  BY <1>1, Invariance, PTL DEF Spec
<1> QED BY <1>2 DEF CrossOwnerLinksBySuperuser

\* Sessions hold links of the template they were called for.
THEOREM SessionsStayOnTemplate == Spec => []HoldsOwnTemplate
<1>1. Init => HoldsOwnTemplate
  BY DEF Init, HoldsOwnTemplate
<1>2. IndInv /\ HoldsOwnTemplate /\ [Next]_vars => HoldsOwnTemplate'
  <2> SUFFICES ASSUME IndInv, HoldsOwnTemplate, [Next]_vars
               PROVE  HoldsOwnTemplate'
    OBVIOUS
  <2> USE DEF HoldsOwnTemplate
  <2>1. TypeOK
    BY DEF IndInv
  <2>2. ASSUME NEW r \in Requests,
               /\ \A q \in Requests \ {r} :
                    pc'[q] = pc[q] /\ call'[q] = call[q] /\ seen'[q] = seen[q]
               /\ pc'[r] = "idle" => seen'[r] = {}
               /\ \A l \in seen'[r] : l.template = call'[r].template
        PROVE  HoldsOwnTemplate'
    BY <2>2
  <2>3. ASSUME NEW r \in Requests, NEW status, Answer(r, status)
        PROVE  HoldsOwnTemplate'
    BY <2>1, <2>3 DEF Answer, Goto, TypeOK
  <2>4. ASSUME NEW r \in Requests, NEW row, Committed(r, row),
               \A l \in row : l.template = call[r].template
        PROVE  HoldsOwnTemplate'
    BY <2>1, <2>4 DEF Committed, Goto, TypeOK
  <2>5. ASSUME NEW r \in Requests, Commit(r) PROVE HoldsOwnTemplate'
    <3>1. NewLink(r).template = call[r].template
      BY DEF NewLink
    <3> QED BY <2>4, <2>5, <3>1
            DEF Commit, CommitAdd, CommitMove, CommitRemove,
                CommitDeleteTemplate, CommitDeleteBlock
  <2>6. ASSUME NEW r \in Requests, NEW place, place # "idle", pc[r] # "idle",
               Goto(r, place), UNCHANGED <<call, seen>>
        PROVE  HoldsOwnTemplate'
    BY <2>1, <2>6 DEF Goto, TypeOK
  <2>7. ASSUME NEW r \in Requests, NEW verdict, NEW rows, verdict # "idle",
               pc[r] # "idle", Follow(r, verdict, rows)
        PROVE  HoldsOwnTemplate'
    BY <2>3, <2>6, <2>7 DEF Follow
  <2>8. ASSUME NEW r \in Requests, Begin(r) PROVE HoldsOwnTemplate'
    BY <2>1, <2>8 DEF Begin, Goto, TypeOK
  <2>9. ASSUME NEW r \in Requests, SelectLinks(r) PROVE HoldsOwnTemplate'
    BY <2>1, <2>9 DEF SelectLinks, LinksOf, Goto, TypeOK
  <2>10. ASSUME NEW r \in Requests, SelectTemplate(r) \/ SelectUsage(r)
         PROVE  HoldsOwnTemplate'
    BY <2>3, <2>6, <2>10 DEF SelectTemplate, SelectUsage
  <2>11. ASSUME NEW r \in Requests, SelectBlocks(r)
         PROVE  HoldsOwnTemplate'
    <3> DEFINE loaded == blocks \cap BlocksOf(seen[r])
    <3>1. call[r] \in CallType /\ pc[r] # "idle" /\ Follow(r, Verdict(r, loaded), loaded)
      BY <2>1, <2>11, CallsAssumption DEF SelectBlocks, TypeOK
    <3> HIDE DEF loaded
    <3>2. Verdict(r, loaded) # "idle"
      BY <3>1, Verdicts DEF Replies
    <3> QED BY <2>7, <3>1, <3>2
  <2>12. ASSUME NEW r \in Requests, GetBlock(r)
         PROVE  HoldsOwnTemplate'
    <3>1. BlockVerdict(r) # "idle"
      BY DEF BlockVerdict
    <3> QED BY <2>7, <2>12, <3>1 DEF GetBlock
  <2>13. ASSUME NEW r \in Requests, WriteRejected(r) \/ Finish(r) \/ Fault(r)
         PROVE  HoldsOwnTemplate'
    BY <2>3, <2>13 DEF WriteRejected, Finish, Fault
  <2>14. CASE UNCHANGED vars
    BY <2>14 DEF vars
  <2> QED BY <2>5, <2>8, <2>9, <2>10, <2>11, <2>12, <2>13, <2>14 DEF Next, Handle
<1> QED BY <1>1, <1>2, Invariance, PTL DEF Spec

-----------------------------------------------------------------------------
(* Membership is implemented. *)

\* The blocks of template t among rows.
Attached(rows, t) == BlocksOf({l \in rows : l.template = t})

LEMMA AttachedMembers ==
  ASSUME NEW rows, NEW t, NEW b
  PROVE  b \in Attached(rows, t)
           <=> \E l \in rows : l.template = t /\ l.block = b
BY DEF Attached, BlocksOf

\* A flush neither attaches nor detaches anything.
LEMMA FlushKeepsMembers ==
  ASSUME NEW rows \in SUBSET LinkRow, NEW D, NEW pos \in [D -> Int], NEW t
  PROVE  Attached(Flushed(rows, pos), t) = Attached(rows, t)
<1>1. Repositions(Flushed(rows, pos), rows, pos, D)
  BY UpdatedRows DEF Flushed
<1> QED BY <1>1 DEF Repositions, Attached, BlocksOf

LEMMA CommitIsMembershipStep ==
  ASSUME IndInv, HoldsOwnTemplate, NEW r \in Requests, Commit(r)
  PROVE  Members!Next \/ UNCHANGED Members!vars
<1> DEFINE t == call[r].template
           b == call[r].block
           mem == [s \in Templates |-> BlocksOf(LinksOf(s))]
<1>0. /\ mem = [s \in Templates |-> Attached(links, s)]
      /\ mem' = [s \in Templates |-> Attached(links', s)]
  BY DEF LinksOf, Attached, BlocksOf
<1>1. /\ Writing(r) /\ t \in Templates /\ b \in Blocks
      /\ links \in SUBSET LinkRow
      /\ TableOK(links, templates, blocks, nextId)
  <2>1. Writing(r)
    BY DEF Writing, Commit, CommitAdd, CommitMove, CommitRemove,
           CommitDeleteTemplate, CommitDeleteBlock
  <2> QED BY <2>1, SeenFacts, TableOfInv DEF CallType, IndInv, TypeOK
<1>2. CASE CommitAdd(r)
  <2> DEFINE made == Flushed(links, AddShift(r))
  <2>1. /\ AddShift(r) \in [DOMAIN AddShift(r) -> Int]
        /\ ~InsertFails(made, NewLink(r))
    BY <1>1, <1>2, AddPositions, SeenFacts DEF CommitAdd, AddFails
  <2>2. /\ links' = made \cup {NewLink(r)}
        /\ NewLink(r).template = t /\ NewLink(r).block = b
        /\ templates' = templates /\ blocks' = blocks
    BY <1>2 DEF CommitAdd, AddRows, NewLink
  <2>3. \A s : Attached(made, s) = Attached(links, s)
    BY <1>1, <2>1, FlushKeepsMembers
  <2> HIDE DEF made, t, b
  <2>4. ASSUME NEW s
        PROVE  Attached(links', s) = IF s = t THEN Attached(links, s) \cup {b}
                                              ELSE Attached(links, s)
    <3>1. Attached(links', s) = IF s = t THEN Attached(made, s) \cup {b}
                                         ELSE Attached(made, s)
      BY <2>2 DEF Attached, BlocksOf
    <3> QED BY <2>3, <3>1
  <2>5. t \in templates /\ b \in blocks /\ b \notin Attached(links, t)
    <3>1. t \in templates /\ b \in blocks /\ b \notin Attached(made, t)
      BY <2>1, <2>2 DEF InsertFails, Attached, BlocksOf
    <3> QED BY <2>3, <3>1
  <2>6. b \notin mem[t] /\ mem' = [mem EXCEPT ![t] = @ \cup {b}]
    <3>1. \A s \in Templates : mem[s] = Attached(links, s)
      BY <1>0
    <3>2. \A s \in Templates :
            Attached(links', s) = IF s = t THEN mem[s] \cup {b} ELSE mem[s]
      BY <2>4, <3>1
    <3>3. mem' = [s \in Templates |-> IF s = t THEN mem[s] \cup {b} ELSE mem[s]]
      BY <1>0, <3>2
    <3> QED BY <1>1, <2>5, <3>1, <3>3
  <2>7. Members!Attach(t, b)
    BY <2>2, <2>5, <2>6 DEF Members!Attach
  <2> QED BY <1>1, <2>7 DEF Members!Next
<1>3. CASE CommitMove(r)
  <2> DEFINE parked == Flushed(links, MoveParked(r))
  <2>1. /\ MoveParked(r) \in [IdsOf(seen[r]) -> Int]
        /\ MoveFinal(r) \in [IdsOf(seen[r]) -> Int]
    BY <1>1, <1>3, MovePositions, SeenFacts DEF CommitMove
  <2>2. parked \in SUBSET LinkRow
    BY <1>1, <2>1, UpdatedRows DEF Flushed, Repositions
  <2>3. /\ links' = Flushed(parked, MoveFinal(r))
        /\ templates' = templates /\ blocks' = blocks
    BY <1>3 DEF CommitMove, MoveRows
  <2>4. \A s : Attached(parked, s) = Attached(links, s)
    BY <1>1, <2>1, FlushKeepsMembers
  <2> HIDE DEF parked
  <2>5. \A s : Attached(links', s) = Attached(parked, s)
    BY <2>1, <2>2, <2>3, FlushKeepsMembers
  <2>6. mem' = mem
    BY <1>0, <2>4, <2>5
  <2> QED BY <2>3, <2>6 DEF Members!vars
<1>4. CASE CommitRemove(r)
  <2> DEFINE left == Without(links, RemovedRows(r))
  <2>1. /\ RemoveRenumber(r) \in [DOMAIN RemoveRenumber(r) -> Int]
        /\ left \in SUBSET LinkRow
    BY <1>1, RemovePositions, SeenFacts DEF Without
  <2>2. /\ links' = Flushed(left, RemoveRenumber(r))
        /\ templates' = templates /\ blocks' = blocks
    BY <1>4 DEF CommitRemove, RemoveRows
  \* a stored row with the id of a removed one links this template and block
  <2>4. \A l \in links : l.id \in IdsOf(RemovedRows(r))
                           => l.template = t /\ l.block = b
    BY DEF RemovedRows, IdsOf, IndInv, LoadedRowsKeepIdentity, HoldsOwnTemplate
  <2>5. DistinctBlocks(links)
    BY <1>1 DEF TableOK
  <2>6. left = {l \in links : l.id \notin IdsOf(RemovedRows(r))}
    BY DEF Without
  <2> HIDE DEF left, t, b
  <2>3. \A s : Attached(links', s) = Attached(left, s)
    BY <2>1, <2>2, FlushKeepsMembers
  <2>7. CASE \E l \in links : l.id \in IdsOf(RemovedRows(r))
    <3>1. PICK gone \in links : gone.id \in IdsOf(RemovedRows(r))
      BY <2>7
    <3>2. gone.template = t /\ gone.block = b /\ left = links \ {gone}
      BY <2>4, <2>5, <2>6, <3>1 DEF DistinctBlocks
    <3>3. b \in Attached(links, t)
      BY <3>1, <3>2, AttachedMembers
    <3>4. ASSUME NEW s
          PROVE  Attached(left, s) = IF s = t THEN Attached(links, s) \ {b}
                                              ELSE Attached(links, s)
      <4>1. ASSUME NEW c
            PROVE  c \in Attached(left, s)
                     <=> c \in Attached(links, s) /\ ~(s = t /\ c = b)
        <5>1. c \in Attached(left, s)
                <=> \E l \in left : l.template = s /\ l.block = c
          BY AttachedMembers
        <5>2. c \in Attached(links, s)
                <=> \E l \in links : l.template = s /\ l.block = c
          BY AttachedMembers
        <5> QED BY <2>5, <3>1, <3>2, <5>1, <5>2 DEF DistinctBlocks
      <4> QED BY <4>1
    <3>5. b \in mem[t] /\ mem' = [mem EXCEPT ![t] = @ \ {b}]
      <4>1. \A s \in Templates : mem[s] = Attached(links, s)
        BY <1>0
      <4>2. \A s \in Templates :
              Attached(links', s) = IF s = t THEN mem[s] \ {b} ELSE mem[s]
        BY <2>3, <3>4, <4>1
      <4>3. mem' = [s \in Templates |-> IF s = t THEN mem[s] \ {b} ELSE mem[s]]
        BY <1>0, <4>2
      <4> QED BY <1>1, <3>3, <4>1, <4>3
    <3>6. Members!Detach(t, b)
      BY <2>2, <3>5 DEF Members!Detach
    <3> QED BY <1>1, <3>6 DEF Members!Next
  <2>8. CASE ~\E l \in links : l.id \in IdsOf(RemovedRows(r))
    <3>1. left = links
      BY <2>6, <2>8
    <3>2. mem' = mem
      BY <1>0, <2>3, <3>1
    <3> QED BY <2>2, <3>2 DEF Members!vars
  <2> QED BY <2>7, <2>8
<1>5. CASE CommitDeleteTemplate(r)
  <2>1. /\ links' = Without(links, seen[r])
        /\ templates' = templates \ {t} /\ blocks' = blocks
        /\ \A l \in links' : l.template # t
    BY <1>5 DEF CommitDeleteTemplate, DeleteTemplateFails
  <2>2. \A l \in links : l.id \in IdsOf(seen[r]) => l.template = t
    BY DEF IdsOf, IndInv, LoadedRowsKeepIdentity, HoldsOwnTemplate
  <2>3. \A s \in Templates : mem'[s] = IF s = t THEN {} ELSE mem[s]
    BY <1>0, <2>1, <2>2 DEF Without, LinksOf, BlocksOf
  <2>4. mem' = [mem EXCEPT ![t] = {}]
    BY <1>0, <1>1, <2>3
  <2>5. CASE t \in templates
    BY <1>1, <2>1, <2>4, <2>5 DEF Members!Next, Members!DeleteTemplate
  <2>6. CASE t \notin templates
    <3>1. mem[t] = {}
      BY <1>1, <2>6 DEF TableOK, LinksOf, BlocksOf
    <3> QED BY <2>1, <2>4, <2>6, <3>1 DEF Members!vars
  <2> QED BY <2>5, <2>6
<1>6. CASE CommitDeleteBlock(r)
  <2>1. /\ links' = links /\ templates' = templates /\ blocks' = blocks \ {b}
        /\ \A l \in links : l.block # b
    BY <1>6 DEF CommitDeleteBlock, DeleteBlockFails
  <2>2. \A s \in Templates : b \notin mem[s]
    BY <2>1 DEF LinksOf, BlocksOf
  <2>3. mem' = mem
    BY <1>0, <2>1 DEF LinksOf
  <2>4. CASE b \in blocks
    BY <1>1, <2>1, <2>2, <2>3, <2>4 DEF Members!Next, Members!DeleteBlock
  <2>5. CASE b \notin blocks
    BY <2>1, <2>3, <2>5 DEF Members!vars
  <2> QED BY <2>4, <2>5
<1> QED BY <1>2, <1>3, <1>4, <1>5, <1>6 DEF Commit

\* For any number of concurrent requests, which blocks a template has changes
\* only in the atomic steps of Membership: nothing is half attached, detached
\* twice or lost.
THEOREM MembershipIsAtomic == Spec => RefinesMembership
<1>1. Init => Members!Init
  BY DEF Init, Members!Init, LinksOf, BlocksOf
<1>2. IndInv /\ HoldsOwnTemplate /\ [Next]_vars => [Members!Next]_Members!vars
  <2> SUFFICES ASSUME IndInv, HoldsOwnTemplate, [Next]_vars
               PROVE  Members!Next \/ UNCHANGED Members!vars
    OBVIOUS
  <2>1. CASE UNCHANGED db
    BY <2>1 DEF db, Members!vars, LinksOf, BlocksOf
  <2>2. ASSUME NEW r \in Requests, Commit(r)
        PROVE  Members!Next \/ UNCHANGED Members!vars
    BY <2>2, CommitIsMembershipStep
  <2>3. ASSUME NEW r \in Requests, Begin(r) \/ Handle(r) \/ Fault(r), ~Commit(r)
        PROVE  UNCHANGED db
    BY <2>3 DEF Begin, Handle, Fault, SelectTemplate, SelectLinks, SelectBlocks,
                GetBlock, SelectUsage, WriteRejected, Finish, db
  <2>4. UNCHANGED vars => UNCHANGED db
    BY DEF vars, db
  <2> QED BY <2>1, <2>2, <2>3, <2>4 DEF Next
<1> QED BY <1>1, <1>2, Invariance, SessionsStayOnTemplate, PTL
        DEF Spec, RefinesMembership, Members!Spec

=============================================================================
