------------------------ MODULE TemplateOrderProofs ------------------------
(***************************************************************************)
(* The order of a template's blocks, for every value of the constants: a   *)
(* write on rows that nobody has changed is one step of OrderedTemplates,  *)
(* and a client that is alone sees nothing else.                           *)
(***************************************************************************)
EXTENDS FreshWritesProofs, TemplateOrder, SequenceTheorems

-----------------------------------------------------------------------------
(* Sequences. *)

LEMMA FunctionIsSeq ==
  ASSUME NEW S, NEW n \in Nat, NEW s \in [1..n -> S]
  PROVE  s \in Seq(S) /\ Len(s) = n
OBVIOUS

LEMMA InsertAtElements ==
  ASSUME NEW S, NEW s \in Seq(S), NEW i \in 1..(Len(s) + 1), NEW e \in S
  PROVE  /\ InsertAt(s, i, e) \in Seq(S)
         /\ Len(InsertAt(s, i, e)) = Len(s) + 1
         /\ \A k \in 1..(Len(s) + 1) :
              InsertAt(s, i, e)[k] = IF k < i THEN s[k] ELSE IF k = i THEN e ELSE s[k - 1]
<1> DEFINE a == SubSeq(s, 1, i - 1)
           b == <<e>>
           c == SubSeq(s, i, Len(s))
<1>1. /\ Len(s) \in Nat /\ i \in Int
      /\ \A k \in 1..(i - 1) : s[k] \in S
      /\ \A k \in i..Len(s) : s[k] \in S
  BY LenProperties, ElementOfSeq
<1>2. /\ a \in Seq(S) /\ Len(a) = i - 1
      /\ \A k \in 1..(i - 1) : a[k] = s[k]
  <2>1. /\ a \in Seq(S) /\ Len(a) = IF 1 <= i - 1 THEN i - 1 - 1 + 1 ELSE 0
        /\ \A k \in 1..(i - 1 - 1 + 1) : a[k] = s[1 + k - 1]
    BY <1>1, SubSeqProperties
  <2> HIDE DEF a
  <2> QED BY <1>1, <2>1
<1>3. b \in Seq(S) /\ Len(b) = 1 /\ b[1] = e
  OBVIOUS
<1>4. /\ c \in Seq(S) /\ Len(c) = Len(s) - i + 1
      /\ \A k \in 1..(Len(s) - i + 1) : c[k] = s[i + k - 1]
  <2>1. /\ c \in Seq(S) /\ Len(c) = IF i <= Len(s) THEN Len(s) - i + 1 ELSE 0
        /\ \A k \in 1..(Len(s) - i + 1) : c[k] = s[i + k - 1]
    BY <1>1, SubSeqProperties
  <2> HIDE DEF c
  <2> QED BY <1>1, <2>1
<1>5. InsertAt(s, i, e) = (a \o b) \o c
  BY DEF InsertAt
<1> DEFINE ab == a \o b
           n == Len(s)
<1> HIDE DEF a, b, c
<1>6. /\ ab \in Seq(S) /\ Len(ab) = i
      /\ \A k \in 1..i : ab[k] = IF k <= i - 1 THEN a[k] ELSE b[k - (i - 1)]
  <2>1. /\ ab \in Seq(S) /\ Len(ab) = Len(a) + Len(b)
        /\ \A k \in 1..(Len(a) + Len(b)) :
             ab[k] = IF k <= Len(a) THEN a[k] ELSE b[k - Len(a)]
    BY <1>2, <1>3, ConcatProperties
  <2> QED BY <1>1, <1>2, <1>3, <2>1
<1> HIDE DEF ab
<1> DEFINE abc == ab \o c
<1>7. /\ abc \in Seq(S) /\ Len(abc) = Len(ab) + Len(c)
      /\ \A k \in 1..(Len(ab) + Len(c)) :
           abc[k] = IF k <= Len(ab) THEN ab[k] ELSE c[k - Len(ab)]
  BY <1>4, <1>6, ConcatProperties
<1> HIDE DEF abc, n
<1>8. n \in Nat /\ i \in 1..(n + 1)
  BY <1>1 DEF n
<1>9. /\ Len(abc) = n + 1
      /\ \A k \in 1..(n + 1) : abc[k] = IF k <= i THEN ab[k] ELSE c[k - i]
  <2>1. Len(c) = n - i + 1
    BY <1>4 DEF n
  <2> QED BY <1>6, <1>7, <1>8, <2>1
<1>10. \A k \in 1..(n - i + 1) : c[k] = s[i + k - 1]
  BY <1>4 DEF n
<1>11. ASSUME NEW k \in 1..(n + 1)
       PROVE  abc[k] = IF k < i THEN s[k] ELSE IF k = i THEN e ELSE s[k - 1]
  <2>1. CASE k < i
    <3>1. k \in 1..i /\ k \in 1..(i - 1) /\ k <= i /\ k <= i - 1
      BY <1>8, <2>1
    <3> QED BY <1>2, <1>6, <1>9, <2>1, <3>1
  <2>2. CASE k = i
    <3>1. ab[i] = b[i - (i - 1)] /\ i - (i - 1) = 1
      BY <1>6, <1>8
    <3> QED BY <1>3, <1>8, <1>9, <2>2, <3>1
  <2>3. CASE k > i
    <3>1. k - i \in 1..(n - i + 1) /\ i + (k - i) - 1 = k - 1 /\ ~(k <= i)
      BY <1>8, <2>3
    <3>2. c[k - i] = s[k - 1]
      BY <1>10, <3>1
    <3> QED BY <1>8, <1>9, <2>3, <3>1, <3>2
  <2> QED BY <1>8, <2>1, <2>2, <2>3
<1> QED BY <1>5, <1>7, <1>9, <1>11 DEF abc, ab, n

\* s is x with e at place i.
InsertsAt(s, x, i, e) ==
  /\ s \in Seq(Blocks) /\ Len(s) = Len(x) + 1
  /\ \A k \in 1..(Len(x) + 1) : s[k] = IF k < i THEN x[k] ELSE IF k = i THEN e ELSE x[k - 1]

LEMMA InsertList ==
  ASSUME NEW x \in Seq(Blocks), NEW i \in 1..(Len(x) + 1), NEW e \in Blocks
  PROVE  InsertsAt(InsertAt(x, i, e), x, i, e)
BY InsertAtElements DEF InsertsAt

LEMMA RemoveAtElements ==
  ASSUME NEW S, NEW s \in Seq(S), NEW j \in 1..Len(s)
  PROVE  /\ RemoveAt(s, j) \in Seq(S)
         /\ Len(RemoveAt(s, j)) = Len(s) - 1
         /\ \A k \in 1..(Len(s) - 1) : RemoveAt(s, j)[k] = IF k < j THEN s[k] ELSE s[k + 1]
<1> DEFINE a == SubSeq(s, 1, j - 1)
           c == SubSeq(s, j + 1, Len(s))
<1>1. /\ Len(s) \in Nat /\ j \in Int
      /\ \A k \in 1..(j - 1) : s[k] \in S
      /\ \A k \in (j + 1)..Len(s) : s[k] \in S
  BY LenProperties, ElementOfSeq
<1>2. /\ a \in Seq(S) /\ Len(a) = j - 1
      /\ \A k \in 1..(j - 1) : a[k] = s[k]
  <2>1. /\ a \in Seq(S) /\ Len(a) = IF 1 <= j - 1 THEN j - 1 - 1 + 1 ELSE 0
        /\ \A k \in 1..(j - 1 - 1 + 1) : a[k] = s[1 + k - 1]
    BY <1>1, SubSeqProperties
  <2> HIDE DEF a
  <2> QED BY <1>1, <2>1
<1>3. /\ c \in Seq(S) /\ Len(c) = Len(s) - j
      /\ \A k \in 1..(Len(s) - j) : c[k] = s[j + k]
  <2>1. j + 1 \in Int
    BY <1>1
  <2>2. /\ c \in Seq(S) /\ Len(c) = IF j + 1 <= Len(s) THEN Len(s) - (j + 1) + 1 ELSE 0
        /\ \A k \in 1..(Len(s) - (j + 1) + 1) : c[k] = s[(j + 1) + k - 1]
    BY <1>1, <2>1, SubSeqProperties
  <2> HIDE DEF c
  <2>3. \A k \in 1..(Len(s) - j) : k \in 1..(Len(s) - (j + 1) + 1) /\ (j + 1) + k - 1 = j + k
    BY <1>1
  <2> QED BY <1>1, <2>2, <2>3
<1>4. RemoveAt(s, j) = a \o c
  BY DEF RemoveAt
<1> DEFINE ac == a \o c
<1> HIDE DEF a, c
<1>5. /\ ac \in Seq(S) /\ Len(ac) = Len(a) + Len(c)
      /\ \A k \in 1..(Len(a) + Len(c)) :
           ac[k] = IF k <= Len(a) THEN a[k] ELSE c[k - Len(a)]
  BY <1>2, <1>3, ConcatProperties
<1> HIDE DEF ac
<1>6. ASSUME NEW k \in 1..(Len(s) - 1)
      PROVE  ac[k] = IF k < j THEN s[k] ELSE s[k + 1]
  <2>1. ac[k] = IF k <= j - 1 THEN a[k] ELSE c[k - (j - 1)]
    BY <1>1, <1>2, <1>3, <1>5
  <2>2. CASE k < j
    BY <1>1, <1>2, <2>1, <2>2
  <2>3. CASE k >= j
    <3>1. k - (j - 1) \in 1..(Len(s) - j) /\ j + (k - (j - 1)) = k + 1 /\ ~(k <= j - 1)
      BY <1>1, <2>3
    <3>2. c[k - (j - 1)] = s[k + 1]
      BY <1>3, <3>1
    <3> QED BY <1>1, <2>1, <2>3, <3>1, <3>2
  <2> QED BY <1>1, <2>2, <2>3
<1> QED BY <1>1, <1>2, <1>3, <1>4, <1>5, <1>6 DEF ac

-----------------------------------------------------------------------------
(* Rows listed by position. *)

\* The blocks of rows, sorted by position.
Listed(rows) == LET s == Sorted(rows) IN [i \in DOMAIN s |-> s[i].block]

\* Rows of one template.
OwnRows(rows) ==
  /\ rows \in SUBSET LinkRow
  /\ IsFiniteSet(rows)
  /\ \A l, m \in rows : l.position = m.position => l = m

\* The index orders rows as their positions do.
LEMMA IndexOrder ==
  ASSUME NEW rows, OwnRows(rows), NEW l \in rows, NEW m \in rows
  PROVE  /\ Index(rows, l) \in 1..Cardinality(rows) /\ Cardinality(rows) \in Nat
         /\ Index(rows, l) < Index(rows, m) <=> l.position < m.position
         /\ Index(rows, l) = Index(rows, m) => l = m
<1>1. rows \in SUBSET LinkRow /\ IsFiniteSet(rows) /\ Cardinality(rows) \in Nat
  BY FS_CardinalityType DEF OwnRows
<1>2. Index(rows, l) \in 1..Cardinality(rows) /\ Index(rows, m) \in 1..Cardinality(rows)
  BY <1>1, IndexInRange
<1>3. l.position \in Int /\ m.position \in Int
  BY <1>1 DEF LinkRow
<1>4. l.position < m.position => Index(rows, l) < Index(rows, m)
  BY <1>1, IndexStrict
<1>5. m.position < l.position => Index(rows, m) < Index(rows, l)
  BY <1>1, IndexStrict
<1>6. l.position = m.position => l = m
  BY DEF OwnRows
<1> QED BY <1>1, <1>2, <1>3, <1>4, <1>5, <1>6

\* Every place of the list is some row's index.
LEMMA IndexOnto ==
  ASSUME NEW rows, OwnRows(rows), NEW i \in 1..Cardinality(rows)
  PROVE  \E l \in rows : Index(rows, l) = i
<1> DEFINE f == [l \in rows |-> Index(rows, l)]
           n == Cardinality(rows)
<1>1. IsFiniteSet(rows) /\ n \in Nat
  BY FS_CardinalityType DEF OwnRows
<1>2. \A l, m \in rows : Index(rows, l) \in 1..n /\ (Index(rows, l) = Index(rows, m) => l = m)
  BY IndexOrder
<1> HIDE DEF n
<1>3. f \in Injection(rows, 1..n)
  BY <1>2 DEF Injection, IsInjective
<1>4. IsFiniteSet(1..n) /\ Cardinality(1..n) = n
  BY <1>1, FS_Interval
<1>5. f \in Surjection(rows, 1..n)
  BY <1>3, <1>4, FS_Injection DEF n
<1> QED BY <1>5 DEF Surjection, n

\* A row's block is listed at its index, and nothing else is listed.
LEMMA SortedRows ==
  ASSUME NEW rows, OwnRows(rows)
  PROVE  /\ Listed(rows) \in [1..Cardinality(rows) -> Blocks]
         /\ \A l \in rows : Listed(rows)[Index(rows, l)] = l.block
         /\ \A i \in 1..Cardinality(rows) :
              \E l \in rows : Index(rows, l) = i /\ Listed(rows)[i] = l.block
<1> DEFINE n == Cardinality(rows)
           at(i) == CHOOSE l \in rows : Index(rows, l) = i
<1>1. Listed(rows) = [i \in 1..n |-> at(i).block]
  BY DEF Listed, Sorted
<1>2. \A i \in 1..n : at(i) \in rows /\ Index(rows, at(i)) = i
  BY IndexOnto
<1>3. \A l \in rows : l.block \in Blocks
  BY DEF OwnRows, LinkRow
<1>4. \A l, m \in rows : Index(rows, l) \in 1..n /\ (Index(rows, l) = Index(rows, m) => l = m)
  BY IndexOrder
<1> HIDE DEF n, at
<1>5. \A l \in rows : at(Index(rows, l)) = l
  BY <1>2, <1>4
<1>6. /\ Listed(rows) \in [1..n -> Blocks]
      /\ \A l \in rows : Listed(rows)[Index(rows, l)] = l.block
      /\ \A i \in 1..n : \E l \in rows : Index(rows, l) = i /\ Listed(rows)[i] = l.block
  BY <1>1, <1>2, <1>3, <1>4, <1>5
<1> QED BY <1>6 DEF n

\* What is listed is determined by the block at each row's index.
LEMMA ListedIs ==
  ASSUME NEW rows, OwnRows(rows), NEW s \in [1..Cardinality(rows) -> Blocks],
         \A l \in rows : s[Index(rows, l)] = l.block
  PROVE  Listed(rows) = s
<1>1. /\ Listed(rows) \in [1..Cardinality(rows) -> Blocks]
      /\ \A i \in 1..Cardinality(rows) :
           \E l \in rows : Index(rows, l) = i /\ Listed(rows)[i] = l.block
  BY SortedRows
<1>2. \A i \in 1..Cardinality(rows) : Listed(rows)[i] = s[i]
  BY <1>1
<1> DEFINE L == Listed(rows)
           D == 1..Cardinality(rows)
<1> HIDE DEF L, D
<1>3. L \in [D -> Blocks] /\ s \in [D -> Blocks] /\ \A i \in D : L[i] = s[i]
  BY <1>1, <1>2 DEF L, D
<1>4. L = [i \in D |-> L[i]] /\ s = [i \in D |-> s[i]]
  BY <1>3
<1>5. [i \in D |-> L[i]] = [i \in D |-> s[i]]
  BY <1>3
<1> QED BY <1>4, <1>5 DEF L

\* Rows on the positions 1..n are at their positions.
LEMMA ContiguousIndex ==
  ASSUME NEW rows, OwnRows(rows), {l.position : l \in rows} = 1..Cardinality(rows),
         NEW l \in rows
  PROVE  Index(rows, l) = l.position
<1> DEFINE n == Cardinality(rows)
           p == l.position
           upto == {m \in rows : m.position <= p}
           f == [m \in upto |-> m.position]
<1>1. n \in Nat /\ IsFiniteSet(upto) /\ p \in 1..n
  BY FS_CardinalityType, FS_Subset DEF OwnRows
<1>2. \A m \in rows : m.position \in 1..n
  OBVIOUS
<1>3. \A i \in 1..n : \E m \in rows : m.position = i
  OBVIOUS
<1>4. \A m, k \in rows : m.position = k.position => m = k
  BY DEF OwnRows
<1> HIDE DEF n, p
<1>5. \A m \in upto : m.position \in 1..p
  BY <1>1, <1>2
<1>6. \A i \in 1..p : \E m \in upto : m.position = i
  BY <1>1, <1>3
<1>7. \A m, k \in upto : m.position = k.position => m = k
  BY <1>4
<1> HIDE DEF upto
<1>8. f \in Bijection(upto, 1..p)
  BY <1>5, <1>6, <1>7 DEF Bijection, Injection, Surjection, IsInjective
<1>9. Cardinality(1..p) = Cardinality(upto)
  BY <1>1, <1>8, FS_Bijection DEF ExistsBijection
<1>10. Cardinality(1..p) = p
  BY <1>1, FS_Interval
<1> QED BY <1>9, <1>10 DEF Index, upto, p

\* Without m, the rows behind it are one place further to the front.
LEMMA IndexWithout ==
  ASSUME NEW rows, OwnRows(rows), NEW m \in rows, NEW l \in rows \ {m}
  PROVE  /\ OwnRows(rows \ {m})
         /\ Cardinality(rows \ {m}) = Cardinality(rows) - 1
         /\ Index(rows \ {m}, l) = IF Index(rows, l) < Index(rows, m)
                                   THEN Index(rows, l) ELSE Index(rows, l) - 1
<1> DEFINE upto(x) == {k \in x : k.position <= l.position}
           rest == rows \ {m}
<1>1. OwnRows(rest) /\ Cardinality(rest) = Cardinality(rows) - 1
  BY FS_RemoveElement DEF OwnRows
<1>2. IsFiniteSet(upto(rows)) /\ \A k \in rows : k.position \in Int
  BY FS_Subset DEF OwnRows, LinkRow
<1>3. upto(rest) = upto(rows) \ {m}
  OBVIOUS
<1>4. Cardinality(upto(rest)) = IF m \in upto(rows) THEN Cardinality(upto(rows)) - 1
                                ELSE Cardinality(upto(rows))
  BY <1>2, <1>3, FS_RemoveElement
<1>5. m \in upto(rows) <=> m.position <= l.position
  OBVIOUS
<1>6. Index(rest, l) = Cardinality(upto(rest)) /\ Index(rows, l) = Cardinality(upto(rows))
  BY DEF Index
<1>7. Index(rows, l) < Index(rows, m) <=> l.position < m.position
  BY IndexOrder
<1>8. m.position = l.position => m = l
  BY DEF OwnRows
<1> HIDE DEF rest, upto
<1>9. Index(rest, l) = IF Index(rows, l) < Index(rows, m)
                       THEN Index(rows, l) ELSE Index(rows, l) - 1
  BY <1>2, <1>4, <1>5, <1>6, <1>7, <1>8
<1> QED BY <1>1, <1>9 DEF rest

\* To remove a row's block from the list is to list the other rows.
LEMMA RestElement ==
  ASSUME NEW rows, OwnRows(rows), NEW m \in rows
  PROVE  \A l \in rows \ {m} :
           /\ Index(rows \ {m}, l) \in 1..(Cardinality(rows) - 1)
           /\ RemoveAt(Listed(rows), Index(rows, m))[Index(rows \ {m}, l)] = l.block
<1> TAKE l \in rows \ {m}
<1> DEFINE n == Cardinality(rows)
           j == Index(rows, m)
           i == Index(rows \ {m}, l)
           k == Index(rows, l)
           L == Listed(rows)
           s == RemoveAt(L, j)
<1>1. n \in Nat /\ j \in 1..n /\ k \in 1..n /\ j # k
  BY IndexOrder
<1>2. L \in [1..n -> Blocks] /\ L[k] = l.block
  BY SortedRows
<1>3. i = IF k < j THEN k ELSE k - 1
  BY IndexWithout
<1> HIDE DEF n, j, i, k, L, s
<1>4. L \in Seq(Blocks) /\ Len(L) = n
  BY <1>1, <1>2, FunctionIsSeq
<1>5. \A x \in 1..(n - 1) : s[x] = IF x < j THEN L[x] ELSE L[x + 1]
  BY <1>1, <1>4, RemoveAtElements DEF s
<1>6. i \in 1..(n - 1) /\ s[i] = L[k]
  BY <1>1, <1>3, <1>5
<1> QED BY <1>2, <1>6 DEF n, j, i, s, L

-----------------------------------------------------------------------------
(* What each reordering does to the list. *)

\* The rows of a template, in a table without duplicate positions.
LEMMA TableRows ==
  ASSUME NEW rows, NEW ts, NEW bs, NEW n \in Nat \ {0}, TableOK(rows, ts, bs, n), NEW t
  PROVE  OwnRows({l \in rows : l.template = t})
<1> DEFINE own == {l \in rows : l.template = t}
<1>1. /\ own \in SUBSET LinkRow /\ DistinctIds(own) /\ \A l \in own : l.id < n
      /\ \A l, m \in own : l.position = m.position => l = m
  BY DEF TableOK, DistinctIds, DistinctPositions
<1> HIDE DEF own
<1>2. IsFiniteSet(own)
  BY <1>1, FewerThanIds
<1> QED BY <1>1, <1>2 DEF OwnRows, own

LEMMA SeenRows ==
  ASSUME NEW r, Writing(r), Fresh(r)
  PROVE  OwnRows(seen[r]) /\ seen[r] = LinksOf(call[r].template)
<1>1. seen[r] \in SUBSET LinkRow /\ IsFiniteSet(seen[r])
  BY SeenFacts
<1> QED BY <1>1, FreshFacts DEF OwnRows, Fresh

\* Packed rows, listed.
LEMMA PackedList ==
  ASSUME NEW rows, OwnRows(rows), {l.position : l \in rows} = 1..Cardinality(rows),
         NEW s \in Seq(Blocks), Len(s) = Cardinality(rows),
         \A l \in rows : s[l.position] = l.block
  PROVE  Listed(rows) = s
<1>1. \A l \in rows : s[Index(rows, l)] = l.block
  BY ContiguousIndex
<1>2. s \in [1..Cardinality(rows) -> Blocks]
  OBVIOUS
<1> QED BY <1>1, <1>2, ListedIs

\* add_template_block_and_reorder, on contiguous rows, inserts the block.
LEMMA AddedOrder ==
  ASSUME NEW r, Writing(r), Fresh(r), ~AddFails(r), Contiguous(call[r].template)
  PROVE  LET p == ClampedPosition(call[r], seen[r])
         IN /\ p \in 1..(Cardinality(seen[r]) + 1)
            /\ Listed({l \in AddRows(r) : l.template = call[r].template})
                 = InsertAt(Listed(seen[r]), p, call[r].block)
<1> DEFINE own == {l \in AddRows(r) : l.template = call[r].template}
           p == ClampedPosition(call[r], seen[r])
           k == Cardinality(seen[r])
           b == call[r].block
           L == Listed(seen[r])
           s == InsertAt(L, p, b)
<1>1. /\ Cardinality(own) = k + 1 /\ p \in 1..(k + 1)
      /\ \A u \in own :
           \/ u.block = b /\ u.position = p
           \/ \E l \in seen[r] :
                /\ u.block = l.block
                /\ u.position = IF l.position >= p THEN l.position + 1 ELSE l.position
  BY RowsAdded
<1>2. {l.position : l \in own} = 1..Cardinality(own)
  BY FreshAddPacks
<1>3. OwnRows(own)
  <2>1. nextId + 1 \in Nat \ {0}
    BY SeenFacts
  <2>2. TableOK(AddRows(r), templates, blocks, nextId + 1)
    BY AddKeepsTable
  <2> QED BY <2>1, <2>2, TableRows
<1>4. OwnRows(seen[r]) /\ {l.position : l \in seen[r]} = 1..k /\ k \in Nat
  BY SeenRows, SeenFacts DEF Contiguous
<1>5. L \in [1..k -> Blocks] /\ \A l \in seen[r] : L[l.position] = l.block
  BY <1>4, SortedRows, ContiguousIndex
<1>6. \A l \in seen[r] : l.position \in 1..k
  BY <1>4
<1>7. b \in Blocks
  BY SeenFacts DEF CallType
<1> HIDE DEF own, p, k, b, L, s
<1>8. L \in Seq(Blocks) /\ Len(L) = k
  BY <1>4, <1>5, FunctionIsSeq
<1>9. /\ s \in Seq(Blocks) /\ Len(s) = k + 1
      /\ \A i \in 1..(k + 1) : s[i] = IF i < p THEN L[i] ELSE IF i = p THEN b ELSE L[i - 1]
  <2>1. p \in 1..(Len(L) + 1)
    BY <1>1, <1>8
  <2>2. \A x, e : x \in Seq(Blocks) /\ e \in Blocks /\ p \in 1..(Len(x) + 1)
                    => InsertsAt(InsertAt(x, p, e), x, p, e)
    BY InsertList
  <2> QED BY <1>7, <1>8, <2>1, <2>2 DEF InsertsAt, s
<1>10. ASSUME NEW u \in own
       PROVE  s[u.position] = u.block
  <2>1. CASE u.block = b /\ u.position = p
    BY <1>1, <1>4, <1>9, <2>1
  <2>2. CASE \E l \in seen[r] :
               /\ u.block = l.block
               /\ u.position = IF l.position >= p THEN l.position + 1 ELSE l.position
    <3>1. PICK l \in seen[r] :
            /\ u.block = l.block
            /\ u.position = IF l.position >= p THEN l.position + 1 ELSE l.position
      BY <2>2
    <3>2. L[l.position] = l.block /\ l.position \in 1..k
      BY <1>5, <1>6
    <3>3. u.position \in 1..(k + 1) /\ s[u.position] = L[l.position]
      BY <1>1, <1>4, <1>9, <3>1, <3>2
    <3> QED BY <3>1, <3>2, <3>3
  <2> QED BY <1>1, <2>1, <2>2
<1>11. Listed(own) = s
  BY <1>1, <1>2, <1>3, <1>9, <1>10, PackedList
<1> QED BY <1>1, <1>11 DEF own, p, k, b, L, s

\* The row of an attached block, and the others.
LEMMA AttachedRow ==
  ASSUME NEW r, Writing(r), Fresh(r), NEW m \in seen[r], m.block = call[r].block
  PROVE  /\ RemovedRows(r) = {m}
         /\ {l \in seen[r] : l.block # call[r].block} = seen[r] \ {m}
<1>1. seen[r] \in SUBSET links /\ \A l \in links : l \in seen[r] <=> l.template = call[r].template
  BY FreshFacts
<1>2. \A l, k \in links : l.template = k.template /\ l.block = k.block => l = k
  BY DEF Writing, IndInv, LinksInv, UniqueBlocks
<1>3. \A l \in seen[r] : l.block = call[r].block => l = m
  BY <1>1, <1>2
<1> QED BY <1>3 DEF RemovedRows

\* The rest of a list, as a sequence.
LEMMA RestList ==
  ASSUME NEW rows, OwnRows(rows), NEW m \in rows
  PROVE  LET s == RemoveAt(Listed(rows), Index(rows, m))
         IN /\ s \in Seq(Blocks) /\ Len(s) = Cardinality(rows) - 1
            /\ Cardinality(rows) \in Nat \ {0}
            /\ Index(rows, m) \in DOMAIN Listed(rows)
            /\ Listed(rows)[Index(rows, m)] = m.block
            /\ Len(Listed(rows)) = Cardinality(rows)
<1> DEFINE n == Cardinality(rows)
           L == Listed(rows)
           j == Index(rows, m)
           s == RemoveAt(L, j)
<1>1. n \in Nat /\ j \in 1..n
  BY IndexOrder
<1>2. L \in [1..n -> Blocks] /\ L[j] = m.block
  BY SortedRows
<1> HIDE DEF n, L, j, s
<1>3. L \in Seq(Blocks) /\ Len(L) = n
  BY <1>1, <1>2, FunctionIsSeq
<1>4. s \in Seq(Blocks) /\ Len(s) = n - 1
  BY <1>1, <1>3, RemoveAtElements DEF s
<1> QED BY <1>1, <1>2, <1>3, <1>4 DEF n, L, j, s

\* update_template_block_position takes the block out of the list and inserts it
\* at the wanted position, contiguous before or not.
LEMMA MovedOrder ==
  ASSUME NEW r, Writing(r), Fresh(r), call[r].op = "move", ~MoveFails(r),
         NEW m \in seen[r], m.block = call[r].block
  PROVE  Listed({l \in MoveRows(r) : l.template = call[r].template})
           = InsertAt(RemoveAt(Listed(seen[r]), Index(seen[r], m)), call[r].position, m.block)
<1> DEFINE own == {l \in MoveRows(r) : l.template = call[r].template}
           p == call[r].position
           n == Cardinality(seen[r])
           b == m.block
           rest == seen[r] \ {m}
           R == RemoveAt(Listed(seen[r]), Index(seen[r], m))
           s == InsertAt(R, p, b)
<1>1. /\ Cardinality(own) = n
      /\ \A u \in own : \E l \in seen[r] :
           /\ u.block = l.block
           /\ u.position = MovedPosition(r, l)
           /\ u.position \in 1..n
  BY RowsMoved
<1>2. {l.position : l \in own} = 1..Cardinality(own)
  BY FreshMovePacks
<1>3. OwnRows(own)
  <2>1. nextId \in Nat \ {0}
    BY SeenFacts
  <2>2. TableOK(MoveRows(r), templates, blocks, nextId)
    BY MoveKeepsTable
  <2> QED BY <2>1, <2>2, TableRows
<1>4. OwnRows(seen[r])
  BY SeenRows
<1>5. R \in Seq(Blocks) /\ Len(R) = n - 1 /\ n \in Nat \ {0}
  BY <1>4, RestList
<1>6. \A l \in rest : Index(rest, l) \in 1..(n - 1) /\ R[Index(rest, l)] = l.block
  BY <1>4, RestElement
<1>7. rest = {l \in seen[r] : l.block # call[r].block}
  BY AttachedRow
<1>8. \A l \in seen[r] : MovedPosition(r, l) =
         IF l.block = b THEN p
         ELSE IF Index(rest, l) < p THEN Index(rest, l) ELSE Index(rest, l) + 1
  BY <1>7 DEF MovedPosition
<1>9. b \in Blocks /\ p \in 1..n
  <2>1. seen[r] \in SUBSET LinkRow /\ call[r].position \in 1..Cardinality(seen[r])
    BY SeenFacts DEF Writing, IndInv, SessionInv, PlaceOK
  <2> QED BY <2>1 DEF LinkRow
<1>10. \A l \in seen[r] : l.block # b => l \in rest
  BY <1>7
<1> HIDE DEF own, p, n, b, rest, R, s
<1>11. /\ s \in Seq(Blocks) /\ Len(s) = n
       /\ \A i \in 1..n : s[i] = IF i < p THEN R[i] ELSE IF i = p THEN b ELSE R[i - 1]
  <2>1. p \in 1..(Len(R) + 1) /\ Len(R) + 1 = n
    BY <1>5, <1>9
  <2>2. \A x, e : x \in Seq(Blocks) /\ e \in Blocks /\ p \in 1..(Len(x) + 1)
                    => InsertsAt(InsertAt(x, p, e), x, p, e)
    BY InsertList
  <2>3. InsertsAt(s, R, p, b)
    BY <1>5, <1>9, <2>1, <2>2 DEF s
  <2> QED BY <2>1, <2>3 DEF InsertsAt
<1>12. ASSUME NEW u \in own
       PROVE  s[u.position] = u.block
  <2>1. PICK l \in seen[r] : /\ u.block = l.block
                             /\ u.position = MovedPosition(r, l)
                             /\ u.position \in 1..n
    BY <1>1
  <2>2. CASE l.block = b
    BY <1>5, <1>8, <1>9, <1>11, <2>1, <2>2
  <2>3. CASE l.block # b
    <3>1. l \in rest
      BY <1>10, <2>3
    <3>2. Index(rest, l) \in 1..(n - 1) /\ R[Index(rest, l)] = l.block
      BY <1>6, <3>1
    <3>3. u.position = IF Index(rest, l) < p THEN Index(rest, l) ELSE Index(rest, l) + 1
      BY <1>8, <2>1, <2>3
    <3> QED BY <1>5, <1>9, <1>11, <2>1, <3>2, <3>3
  <2> QED BY <2>2, <2>3
<1>13. Listed(own) = s
  BY <1>1, <1>2, <1>3, <1>11, <1>12, PackedList
<1> QED BY <1>13 DEF own, p, b, R, s

\* delete_template_block_and_reorder takes the block out of the list.
LEMMA RemovedOrder ==
  ASSUME NEW r, Writing(r), Fresh(r), ~RemoveFails(r),
         NEW m \in seen[r], m.block = call[r].block
  PROVE  Listed({l \in RemoveRows(r) : l.template = call[r].template})
           = RemoveAt(Listed(seen[r]), Index(seen[r], m))
<1> DEFINE own == {l \in RemoveRows(r) : l.template = call[r].template}
           n == Cardinality(seen[r])
           rest == seen[r] \ {m}
           s == RemoveAt(Listed(seen[r]), Index(seen[r], m))
<1>1. RemovedRows(r) = {m}
  BY AttachedRow
<1>2. /\ Cardinality(own) = Cardinality(rest)
      /\ \A u \in own : \E l \in rest : u.block = l.block /\ u.position = Index(rest, l)
  <2>1. /\ Cardinality(own) = Cardinality(seen[r] \ RemovedRows(r))
        /\ \A u \in own : \E l \in seen[r] \ RemovedRows(r) :
             u.block = l.block /\ u.position = Index(seen[r] \ RemovedRows(r), l)
    BY RowsRemoved
  <2> QED BY <1>1, <2>1
<1>3. {l.position : l \in own} = 1..Cardinality(own)
  BY FreshRemovePacks
<1>4. OwnRows(own)
  <2>1. nextId \in Nat \ {0}
    BY SeenFacts
  <2>2. TableOK(RemoveRows(r), templates, blocks, nextId)
    BY RemoveKeepsTable
  <2> QED BY <2>1, <2>2, TableRows
<1>5. OwnRows(seen[r])
  BY SeenRows
<1>6. s \in Seq(Blocks) /\ Len(s) = n - 1
  BY <1>5, RestList
<1>7. Cardinality(rest) = n - 1
  BY <1>5, FS_RemoveElement DEF OwnRows
<1> HIDE DEF own, n, rest, s
<1>8. \A l \in rest : s[Index(rest, l)] = l.block
  <2>1. \A q \in seen[r] : \A l \in seen[r] \ {q} :
          /\ Index(seen[r] \ {q}, l) \in 1..(Cardinality(seen[r]) - 1)
          /\ RemoveAt(Listed(seen[r]), Index(seen[r], q))[Index(seen[r] \ {q}, l)] = l.block
    BY <1>5, RestElement
  <2> QED BY <2>1 DEF rest, s
<1>9. \A u \in own : s[u.position] = u.block
  BY <1>2, <1>8
<1>10. Listed(own) = s
  BY <1>2, <1>3, <1>4, <1>6, <1>7, <1>9, PackedList
<1> QED BY <1>10 DEF own, s

-----------------------------------------------------------------------------
(* Commits as steps of OrderedTemplates. *)

\* The instance has operators of its own for sequences, the same ones.
LEMMA OrderedSequences ==
  /\ \A s, i, e : Ordered!InsertAt(s, i, e) = InsertAt(s, i, e)
  /\ \A s, i : Ordered!RemoveAt(s, i) = RemoveAt(s, i)
BY DEF InsertAt, RemoveAt, Ordered!InsertAt, Ordered!RemoveAt

\* A change of the rows of t changes the order of t alone.
LEMMA OrderChanges ==
  ASSUME NEW t \in Templates,
         \A q \in Templates \ {t} : {l \in links' : l.template = q} = LinksOf(q)
  PROVE  [x \in Templates |-> OrderOf(x)]'
           = [[x \in Templates |-> OrderOf(x)] EXCEPT ![t] = Listed({l \in links' : l.template = t})]
<1>1. \A x : OrderOf(x) = Listed(LinksOf(x))
  BY DEF OrderOf, Listed
<1>2. \A x : OrderOf(x)' = Listed({l \in links' : l.template = x})
  BY DEF OrderOf, Listed, LinksOf
<1>3. \A q \in Templates \ {t} : OrderOf(q)' = OrderOf(q)
  BY <1>1, <1>2
<1> QED BY <1>2, <1>3

\* The list of a template whose rows a request holds.
LEMMA HeldOrder ==
  ASSUME NEW r, Writing(r), Fresh(r)
  PROVE  LET t == call[r].template
             order == [x \in Templates |-> OrderOf(x)]
         IN /\ t \in Templates
            /\ order[t] = Listed(seen[r])
            /\ Listed(seen[r]) \in [1..Cardinality(seen[r]) -> Blocks]
            /\ Cardinality(seen[r]) \in Nat
            /\ Len(Listed(seen[r])) = Cardinality(seen[r])
<1>1. call[r].template \in Templates
  BY SeenFacts DEF CallType
<1>2. OwnRows(seen[r]) /\ seen[r] = LinksOf(call[r].template)
  BY SeenRows
<1>3. OrderOf(call[r].template) = Listed(seen[r])
  BY <1>2 DEF OrderOf, Listed
<1>4. Listed(seen[r]) \in [1..Cardinality(seen[r]) -> Blocks]
  BY <1>2, SortedRows
<1>5. Cardinality(seen[r]) \in Nat
  BY SeenFacts
<1>6. Len(Listed(seen[r])) = Cardinality(seen[r])
  BY <1>4, <1>5, FunctionIsSeq
<1> QED BY <1>1, <1>3, <1>4, <1>5, <1>6

\* The row of the block that a move or a removal has found attached.
LEMMA AttachedPlace ==
  ASSUME NEW r, Writing(r), Fresh(r), call[r].op \in {"move", "remove"}
  PROVE  \E m \in seen[r] :
           /\ m.block = call[r].block
           /\ Index(seen[r], m) \in DOMAIN Listed(seen[r])
           /\ Listed(seen[r])[Index(seen[r], m)] = call[r].block
<1>1. call[r].block \in BlocksOf(seen[r])
  BY DEF Writing, IndInv, SessionInv, PlaceOK
<1>2. PICK m \in seen[r] : m.block = call[r].block
  BY <1>1 DEF BlocksOf
<1>3. OwnRows(seen[r])
  BY SeenRows
<1>4. /\ Index(seen[r], m) \in DOMAIN Listed(seen[r])
      /\ Listed(seen[r])[Index(seen[r], m)] = m.block
  BY <1>3, RestList
<1> QED BY <1>2, <1>4

\* An attachment to contiguous rows is an insertion.
LEMMA AddIsInsert ==
  ASSUME IndInv, NEW r \in Requests, CommitAdd(r), Fresh(r), Contiguous(call[r].template)
  PROVE  LET t == call[r].template
         IN Ordered!Insert(t, call[r].block, ClampedPosition(call[r], LinksOf(t)))
<1> DEFINE t == call[r].template
           b == call[r].block
           p == ClampedPosition(call[r], seen[r])
           L == Listed(seen[r])
           order == [x \in Templates |-> OrderOf(x)]
<1>1. Writing(r) /\ ~AddFails(r) /\ links' = AddRows(r) /\ UNCHANGED <<templates, blocks>>
  BY DEF Writing, CommitAdd
<1>2. /\ p \in 1..(Cardinality(seen[r]) + 1)
      /\ Listed({l \in links' : l.template = t}) = InsertAt(L, p, b)
  BY <1>1, AddedOrder
<1>3. \A q \in Templates \ {t} : {l \in links' : l.template = q} = LinksOf(q)
  BY <1>1, RowsAdded
<1>4. /\ t \in Templates /\ order[t] = L
      /\ L \in [1..Cardinality(seen[r]) -> Blocks]
      /\ Cardinality(seen[r]) \in Nat /\ Len(L) = Cardinality(seen[r])
  BY <1>1, HeldOrder
<1>5. order' = [order EXCEPT ![t] = InsertAt(L, p, b)]
  BY <1>2, <1>3, <1>4, OrderChanges
<1>6. t \in templates /\ b \in blocks
  BY <1>1 DEF AddFails, InsertFails, NewLink, Fresh
<1>7. {i \in DOMAIN L : L[i] = b} = {}
  <2>1. b \notin BlocksOf(seen[r])
    BY <1>1 DEF Writing, CommitAdd, IndInv, SessionInv, PlaceOK
  <2>2. \A i \in 1..Cardinality(seen[r]) : \E l \in seen[r] : L[i] = l.block
    BY <1>1, SeenRows, SortedRows
  <2> QED BY <1>4, <2>1, <2>2 DEF BlocksOf
<1>8. seen[r] = LinksOf(t)
  BY DEF Fresh
<1> HIDE DEF L, p, b, t
<1>9. Ordered!Insert(t, b, p)
  <2>1. ~Ordered!Has(t, b)
    BY <1>4, <1>7 DEF Ordered!Has, Ordered!Places
  <2>2. p \in 1..(Len(order[t]) + 1)
    BY <1>2, <1>4
  <2>3. order' = [order EXCEPT ![t] = InsertAt(@, p, b)]
    BY <1>4, <1>5
  <2> QED BY <1>1, <1>6, <2>1, <2>2, <2>3, OrderedSequences DEF Ordered!Insert
<1> QED BY <1>8, <1>9 DEF p, b, t

\* A move takes the block to the wanted place.
LEMMA MoveIsMove ==
  ASSUME IndInv, NEW r \in Requests, CommitMove(r), Fresh(r)
  PROVE  Ordered!Move(call[r].template, call[r].block, call[r].position)
<1> DEFINE t == call[r].template
           b == call[r].block
           p == call[r].position
           L == Listed(seen[r])
           order == [x \in Templates |-> OrderOf(x)]
<1>1. /\ Writing(r) /\ ~MoveFails(r) /\ call[r].op = "move" /\ links' = MoveRows(r)
      /\ UNCHANGED <<templates, blocks>>
  BY DEF Writing, CommitMove
<1>2. PICK m \in seen[r] : /\ m.block = b
                           /\ Index(seen[r], m) \in DOMAIN L
                           /\ L[Index(seen[r], m)] = b
  BY <1>1, AttachedPlace
<1> DEFINE j == Index(seen[r], m)
<1>3. Listed({l \in links' : l.template = t}) = InsertAt(RemoveAt(L, j), p, b)
  BY <1>1, <1>2, MovedOrder
<1>4. \A q \in Templates \ {t} : {l \in links' : l.template = q} = LinksOf(q)
  BY <1>1, RowsMoved
<1>5. t \in Templates /\ order[t] = L /\ Len(L) = Cardinality(seen[r])
  BY <1>1, HeldOrder
<1>6. order' = [order EXCEPT ![t] = InsertAt(RemoveAt(L, j), p, b)]
  BY <1>3, <1>4, <1>5, OrderChanges
<1>7. p \in 1..Cardinality(seen[r])
  BY <1>1 DEF Writing, IndInv, SessionInv, PlaceOK
<1> HIDE DEF L, j, b, p, t
<1>8. j \in Ordered!Places(t, b)
  BY <1>2, <1>5 DEF Ordered!Places, j
<1>9. order' = [order EXCEPT ![t] = InsertAt(RemoveAt(@, j), p, b)]
  BY <1>5, <1>6
<1>10. Ordered!Move(t, b, p)
  BY <1>1, <1>5, <1>7, <1>8, <1>9, OrderedSequences DEF Ordered!Move
<1> QED BY <1>10 DEF b, p, t

\* A removal takes the block out of its place.
LEMMA RemoveIsDetach ==
  ASSUME IndInv, NEW r \in Requests, CommitRemove(r), Fresh(r)
  PROVE  Ordered!Detach(call[r].template, call[r].block)
<1> DEFINE t == call[r].template
           b == call[r].block
           L == Listed(seen[r])
           order == [x \in Templates |-> OrderOf(x)]
<1>1. /\ Writing(r) /\ ~RemoveFails(r) /\ call[r].op = "remove" /\ links' = RemoveRows(r)
      /\ UNCHANGED <<templates, blocks>>
  BY DEF Writing, CommitRemove
<1>2. PICK m \in seen[r] : /\ m.block = b
                           /\ Index(seen[r], m) \in DOMAIN L
                           /\ L[Index(seen[r], m)] = b
  BY <1>1, AttachedPlace
<1> DEFINE j == Index(seen[r], m)
<1>3. Listed({l \in links' : l.template = t}) = RemoveAt(L, j)
  BY <1>1, <1>2, RemovedOrder
<1>4. \A q \in Templates \ {t} : {l \in links' : l.template = q} = LinksOf(q)
  BY <1>1, RowsRemoved
<1>5. t \in Templates /\ order[t] = L
  BY <1>1, HeldOrder
<1>6. order' = [order EXCEPT ![t] = RemoveAt(L, j)]
  BY <1>3, <1>4, <1>5, OrderChanges
<1> HIDE DEF L, j, b, t
<1>7. j \in Ordered!Places(t, b)
  BY <1>2, <1>5 DEF Ordered!Places, j
<1>8. order' = [order EXCEPT ![t] = RemoveAt(@, j)]
  BY <1>5, <1>6
<1>9. Ordered!Detach(t, b)
  BY <1>1, <1>7, <1>8, OrderedSequences DEF Ordered!Detach
<1> QED BY <1>9 DEF b, t

\* See FreshCommitsAreAtomic: a commit on rows that nobody has changed since they
\* were read inserts, moves or removes the one block it was asked to, and keeps
\* the order of all others, with any number of workers.
THEOREM FreshCommitsKeepOrder == Spec => FreshCommitsAreAtomic
<1> DEFINE Step == \A r \in Requests :
       LET c == call[r]
           t == c.template
       IN Commits(r) /\ Fresh(r) =>
          CASE c.op = "add" ->
                 Contiguous(t)
                   => Ordered!Insert(t, c.block, ClampedPosition(c, LinksOf(t)))
            [] c.op = "move"   -> Ordered!Move(t, c.block, c.position)
            [] c.op = "remove" -> Ordered!Detach(t, c.block)
            [] OTHER -> TRUE
<1>1. IndInv /\ [Next]_vars => [Step]_vars
  <2> SUFFICES ASSUME IndInv, Next, NEW r \in Requests, Commits(r), Fresh(r)
               PROVE  LET c == call[r]
                          t == c.template
                      IN CASE c.op = "add" ->
                                Contiguous(t)
                                  => Ordered!Insert(t, c.block, ClampedPosition(c, LinksOf(t)))
                           [] c.op = "move"   -> Ordered!Move(t, c.block, c.position)
                           [] c.op = "remove" -> Ordered!Detach(t, c.block)
                           [] OTHER -> TRUE
    OBVIOUS
  <2>1. Commit(r)
    BY CommitsItself
  <2>2. ASSUME call[r].op = "add", Contiguous(call[r].template)
        PROVE  Ordered!Insert(call[r].template, call[r].block,
                              ClampedPosition(call[r], LinksOf(call[r].template)))
    <3>1. CommitAdd(r)
      BY <2>1, <2>2 DEF Commit, CommitMove, CommitRemove, CommitDeleteTemplate, CommitDeleteBlock
    <3> QED BY <2>2, <3>1, AddIsInsert
  <2>3. ASSUME call[r].op = "move"
        PROVE  Ordered!Move(call[r].template, call[r].block, call[r].position)
    <3>1. CommitMove(r)
      BY <2>1, <2>3 DEF Commit, CommitAdd, CommitRemove, CommitDeleteTemplate, CommitDeleteBlock
    <3> QED BY <3>1, MoveIsMove
  <2>4. ASSUME call[r].op = "remove"
        PROVE  Ordered!Detach(call[r].template, call[r].block)
    <3>1. CommitRemove(r)
      BY <2>1, <2>4 DEF Commit, CommitAdd, CommitMove, CommitDeleteTemplate, CommitDeleteBlock
    <3> QED BY <3>1, RemoveIsDetach
  <2> QED BY <2>2, <2>3, <2>4
<1>2. Spec => [][Step]_vars
  BY <1>1, Invariance, PTL DEF Spec
<1> QED BY <1>2 DEF FreshCommitsAreAtomic

-----------------------------------------------------------------------------
(* One editor per template. *)

\* A step that writes nothing keeps an editor's rows fresh as long as it keeps
\* them, and its call.
LEMMA QuietStep ==
  ASSUME OrderInv, UNCHANGED <<templates, links>>, NEW w \in Requests,
         \A r \in Requests \ {w} : pc'[r] = pc[r] /\ call'[r] = call[r] /\ seen'[r] = seen[r],
         pc'[w] \notin {"idle", "committed"}
           /\ call'[w].op \in {"add", "move", "remove", "deleteTemplate"} =>
             /\ pc'[w] = "links" => call'[w].template \in templates
             /\ pc'[w] \in {"blocks", "block", "write"}
                  => call'[w].template \in templates /\ seen'[w] = LinksOf(call'[w].template)
  PROVE  OrderInv'
<1>1. PositionsContiguous'
  BY DEF OrderInv, PositionsContiguous, Contiguous, LinksOf
<1>2. \A r \in Requests : Editing(r)' =>
        /\ pc'[r] = "links" => call'[r].template \in templates'
        /\ pc'[r] \in {"blocks", "block", "write"} => Fresh(r)'
  <2> TAKE r \in Requests
  <2>1. CASE r = w
    BY <2>1 DEF Editing, Fresh, LinksOf
  <2>2. CASE r # w
    BY <2>2 DEF OrderInv, Editing, Fresh, LinksOf
  <2> QED BY <2>1, <2>2
<1> QED BY <1>1, <1>2 DEF OrderInv

\* A commit leaves the positions of its template 1..n and the other templates
\* alone, which are all that others edit.
LEMMA EditStep ==
  ASSUME OrderInv, OneEditorPerTemplate, NEW w \in Requests, Editing(w), pc'[w] = "committed",
         \A r \in Requests \ {w} : pc'[r] = pc[r] /\ call'[r] = call[r] /\ seen'[r] = seen[r],
         NEW t \in Templates, t = call[w].template,
         \A q \in templates \ {t} : q \in templates',
         {l.position : l \in {k \in links' : k.template = t}}
           = 1..Cardinality({k \in links' : k.template = t}),
         \A q \in Templates \ {t} : {k \in links' : k.template = q} = LinksOf(q),
         \A r \in Requests : Editing(r) => call[r].template \in Templates
  PROVE  OrderInv'
<1>1. ASSUME NEW q \in Templates
      PROVE  Contiguous(q)'
  <2>1. CASE q = t
    BY <2>1 DEF Contiguous, LinksOf
  <2>2. CASE q # t
    <3>1. Contiguous(q) /\ LinksOf(q)' = LinksOf(q)
      BY <2>2 DEF OrderInv, PositionsContiguous, LinksOf
    <3> QED BY <3>1 DEF Contiguous
  <2> QED BY <2>1, <2>2
<1>2. PositionsContiguous'
  BY <1>1 DEF PositionsContiguous
<1>3. ASSUME NEW r \in Requests, Editing(r)'
      PROVE  /\ pc'[r] = "links" => call'[r].template \in templates'
             /\ pc'[r] \in {"blocks", "block", "write"} => Fresh(r)'
  <2>1. r # w
    BY <1>3 DEF Editing
  <2>2. pc'[r] = pc[r] /\ call'[r] = call[r] /\ seen'[r] = seen[r] /\ Editing(r)
    BY <1>3, <2>1 DEF Editing
  <2>3. call[r].template # t /\ call[r].template \in Templates
    BY <2>1, <2>2 DEF OneEditorPerTemplate
  <2>4. LinksOf(call[r].template) = {k \in links' : k.template = call[r].template}
    BY <2>3
  <2>5. /\ pc[r] = "links" => call[r].template \in templates
        /\ pc[r] \in {"blocks", "block", "write"}
             => call[r].template \in templates /\ seen[r] = LinksOf(call[r].template)
    BY <2>2 DEF OrderInv, Fresh
  <2> QED BY <2>2, <2>3, <2>4, <2>5 DEF Fresh, LinksOf
<1> QED BY <1>2, <1>3 DEF OrderInv

\* What an editor holds when it writes.
LEMMA EditorFresh ==
  ASSUME IndInv, OrderInv, NEW w \in Requests, pc[w] = "write",
         call[w].op \in {"add", "move", "remove", "deleteTemplate"}
  PROVE  /\ Writing(w) /\ Fresh(w) /\ Editing(w)
         /\ call[w].template \in Templates /\ Contiguous(call[w].template)
<1>1. Writing(w) /\ Editing(w)
  BY DEF Writing, Editing
<1>2. Fresh(w)
  BY <1>1 DEF OrderInv
<1>3. call[w].template \in Templates
  BY <1>1, SeenFacts DEF CallType
<1> QED BY <1>1, <1>2, <1>3 DEF OrderInv, PositionsContiguous

\* The links that a deletion of a template leaves.
LEMMA RowsLeft ==
  ASSUME NEW r, Writing(r), Fresh(r)
  PROVE  /\ {l \in Without(links, seen[r]) : l.template = call[r].template} = {}
         /\ \A q \in Templates \ {call[r].template} :
              {l \in Without(links, seen[r]) : l.template = q} = LinksOf(q)
<1>1. /\ seen[r] \in SUBSET links /\ DistinctIds(links)
      /\ \A l \in links : l \in seen[r] <=> l.template = call[r].template
  BY FreshFacts
<1>2. \A l \in links : l \in Without(links, seen[r]) <=> l.template # call[r].template
  BY <1>1 DEF Without, IdsOf, DistinctIds
<1>3. \A l \in Without(links, seen[r]) : l \in links
  BY DEF Without
<1> QED BY <1>2, <1>3 DEF LinksOf

LEMMA EditorCommits ==
  ASSUME IndInv, OrderInv, OneEditorPerTemplate, NEW w \in Requests, Commit(w)
  PROVE  OrderInv'
<1>1. /\ pc[w] = "write" /\ pc'[w] = "committed"
      /\ \A r \in Requests \ {w} : pc'[r] = pc[r] /\ call'[r] = call[r] /\ seen'[r] = seen[r]
  BY DEF Commit, CommitAdd, CommitMove, CommitRemove, CommitDeleteTemplate, CommitDeleteBlock,
         Committed, Goto, IndInv, TypeOK
<1>0. \A r \in Requests : Editing(r) => call[r].template \in Templates
  BY CallsAssumption DEF Editing, IndInv, TypeOK, CallType
<1> DEFINE t == call[w].template
<1>2. CASE CommitAdd(w)
  <2>1. ~AddFails(w) /\ links' = AddRows(w) /\ call[w].op = "add" /\ templates' = templates
    BY <1>2 DEF CommitAdd
  <2>2. Writing(w) /\ Fresh(w) /\ Editing(w) /\ t \in Templates /\ Contiguous(t)
    BY <1>1, <2>1, EditorFresh
  <2>3. {l.position : l \in {k \in links' : k.template = t}}
          = 1..Cardinality({k \in links' : k.template = t})
    BY <2>1, <2>2, FreshAddPacks
  <2>4. \A q \in Templates \ {t} : {k \in links' : k.template = q} = LinksOf(q)
    BY <2>1, <2>2, RowsAdded
  <2> QED BY <1>0, <1>1, <2>1, <2>2, <2>3, <2>4, EditStep
<1>3. CASE CommitMove(w)
  <2>1. ~MoveFails(w) /\ links' = MoveRows(w) /\ call[w].op = "move" /\ templates' = templates
    BY <1>3 DEF CommitMove
  <2>2. Writing(w) /\ Fresh(w) /\ Editing(w) /\ t \in Templates
    BY <1>1, <2>1, EditorFresh
  <2>3. {l.position : l \in {k \in links' : k.template = t}}
          = 1..Cardinality({k \in links' : k.template = t})
    BY <2>1, <2>2, FreshMovePacks
  <2>4. \A q \in Templates \ {t} : {k \in links' : k.template = q} = LinksOf(q)
    BY <2>1, <2>2, RowsMoved
  <2> QED BY <1>0, <1>1, <2>1, <2>2, <2>3, <2>4, EditStep
<1>4. CASE CommitRemove(w)
  <2>1. ~RemoveFails(w) /\ links' = RemoveRows(w) /\ call[w].op = "remove" /\ templates' = templates
    BY <1>4 DEF CommitRemove
  <2>2. Writing(w) /\ Fresh(w) /\ Editing(w) /\ t \in Templates
    BY <1>1, <2>1, EditorFresh
  <2>3. {l.position : l \in {k \in links' : k.template = t}}
          = 1..Cardinality({k \in links' : k.template = t})
    BY <2>1, <2>2, FreshRemovePacks
  <2>4. \A q \in Templates \ {t} : {k \in links' : k.template = q} = LinksOf(q)
    BY <2>1, <2>2, RowsRemoved
  <2> QED BY <1>0, <1>1, <2>1, <2>2, <2>3, <2>4, EditStep
<1>5. CASE CommitDeleteTemplate(w)
  <2>1. links' = Without(links, seen[w]) /\ call[w].op = "deleteTemplate"
        /\ templates' = templates \ {t}
    BY <1>5 DEF CommitDeleteTemplate
  <2>2. Writing(w) /\ Fresh(w) /\ Editing(w) /\ t \in Templates
    BY <1>1, <2>1, EditorFresh
  <2>3. {k \in links' : k.template = t} = {}
    BY <2>1, <2>2, RowsLeft
  <2>4. {l.position : l \in {k \in links' : k.template = t}}
          = 1..Cardinality({k \in links' : k.template = t})
    <3> DEFINE own == {k \in links' : k.template = t}
    <3>1. own = {} /\ Cardinality({}) = 0 /\ 1..0 = {}
      BY <2>3, FS_EmptySet
    <3> HIDE DEF own
    <3>2. {l.position : l \in own} = 1..Cardinality(own)
      BY <3>1
    <3> QED BY <3>2 DEF own
  <2>5. \A q \in Templates \ {t} : {k \in links' : k.template = q} = LinksOf(q)
    BY <2>1, <2>2, RowsLeft
  <2> QED BY <1>0, <1>1, <2>1, <2>2, <2>4, <2>5, EditStep
<1>6. CASE CommitDeleteBlock(w)
  <2>1. UNCHANGED <<templates, links>>
    BY <1>6 DEF CommitDeleteBlock
  <2> QED BY <1>1, <2>1, QuietStep
<1> QED BY <1>2, <1>3, <1>4, <1>5, <1>6 DEF Commit

\* Steps that do not write.
LEMMA EditorReads ==
  ASSUME IndInv, OrderInv, NEW w \in Requests,
         \/ Begin(w) \/ SelectTemplate(w) \/ SelectLinks(w) \/ SelectBlocks(w)
         \/ GetBlock(w) \/ SelectUsage(w) \/ WriteRejected(w) \/ Finish(w) \/ Fault(w)
  PROVE  OrderInv'
<1>1. /\ pc \in [Requests -> PCs]
      /\ seen \in [Requests -> SUBSET LinkRow]
      /\ call \in [Requests -> Calls \cup {NoCall}]
      /\ pc[w] # "idle" => call[w] \in CallType
  BY CallsAssumption DEF IndInv, TypeOK
<1>2. /\ UNCHANGED <<templates, links>>
      /\ \A r \in Requests \ {w} : pc'[r] = pc[r] /\ call'[r] = call[r] /\ seen'[r] = seen[r]
  BY <1>1 DEF Begin, SelectTemplate, SelectLinks, SelectBlocks, GetBlock, SelectUsage,
              WriteRejected, Finish, Fault, Follow, Answer, Goto, db
<1> DEFINE editing(c) == c.op \in {"add", "move", "remove", "deleteTemplate"}
<1>3. pc[w] \notin {"idle", "committed"} /\ editing(call[w]) =>
        /\ pc[w] = "links" => call[w].template \in templates
        /\ pc[w] \in {"blocks", "block", "write"}
             => call[w].template \in templates /\ seen[w] = LinksOf(call[w].template)
  BY DEF OrderInv, Editing, Fresh
<1>4. ASSUME pc'[w] \in {"idle", "template"}
      PROVE  OrderInv'
  BY <1>2, <1>4, QuietStep
<1>5. ASSUME NEW status, Answer(w, status)
      PROVE  OrderInv'
  BY <1>1, <1>4, <1>5 DEF Answer, Goto
<1>6. CASE Begin(w)
  <2>1. PICK c \in Calls : /\ call'[w] = c
                           /\ pc'[w] = IF c.op = "deleteBlock" THEN "block" ELSE "template"
    BY <1>1, <1>6 DEF Begin, Goto
  <2>2. CASE c.op = "deleteBlock"
    BY <1>2, <2>1, <2>2, QuietStep
  <2>3. CASE c.op # "deleteBlock"
    BY <1>4, <2>1, <2>3
  <2> QED BY <2>2, <2>3
<1>7. CASE SelectTemplate(w)
  <2>1. CASE call[w].template \in templates
    <3>1. pc'[w] = "links" /\ call' = call
      BY <1>1, <1>7, <2>1 DEF SelectTemplate, Goto
    <3> QED BY <1>2, <2>1, <3>1, QuietStep
  <2>2. CASE call[w].template \notin templates
    BY <1>5, <1>7, <2>2 DEF SelectTemplate
  <2> QED BY <2>1, <2>2
<1>8. CASE SelectLinks(w)
  <2>1. pc'[w] = "blocks" /\ call' = call /\ seen'[w] = LinksOf(call[w].template)
    BY <1>1, <1>8 DEF SelectLinks, Goto
  <2>2. editing(call[w]) => call[w].template \in templates
    BY <1>3, <1>8 DEF SelectLinks
  <2> QED BY <1>2, <2>1, <2>2, QuietStep
\* SelectBlocks and GetBlock keep the rows the request holds.
<1>9. ASSUME pc[w] \in {"blocks", "block"}, NEW verdict, NEW rows, Follow(w, verdict, rows),
             verdict # "links"
      PROVE  OrderInv'
  <2>1. CASE verdict \in Replies
    BY <1>5, <1>9, <2>1 DEF Follow
  <2>2. CASE verdict \notin Replies
    <3>1. pc'[w] = verdict /\ call' = call /\ seen' = seen
      BY <1>1, <1>9, <2>2 DEF Follow, Goto
    <3> QED BY <1>2, <1>3, <1>9, <3>1, QuietStep
  <2> QED BY <2>1, <2>2
<1>10. CASE SelectBlocks(w)
  <2> DEFINE loaded == blocks \cap BlocksOf(seen[w])
  <2>1. pc[w] = "blocks" /\ Follow(w, Verdict(w, loaded), loaded)
    BY <1>10 DEF SelectBlocks
  <2>2. Verdict(w, loaded) # "links"
    BY <1>1, <2>1, Verdicts DEF Replies
  <2> QED BY <1>9, <2>1, <2>2
<1>11. CASE GetBlock(w)
  <2>1. pc[w] = "block" /\ Follow(w, BlockVerdict(w), held[w] \cup {call[w].block})
    BY <1>11 DEF GetBlock
  <2>2. BlockVerdict(w) # "links"
    BY DEF BlockVerdict
  <2> QED BY <1>9, <2>1, <2>2
<1>12. CASE SelectUsage(w)
  <2>1. CASE Answer(w, "409")
    BY <1>5, <2>1
  <2>2. CASE ~Answer(w, "409")
    <3>1. pc[w] = "usage" /\ pc'[w] = "write" /\ call' = call
      BY <1>1, <1>12, <2>2 DEF SelectUsage, Goto
    <3>2. call[w].op = "deleteBlock"
      BY <3>1 DEF IndInv, SessionInv, PlaceOK
    <3> QED BY <1>2, <3>1, <3>2, QuietStep
  <2> QED BY <2>1, <2>2
<1>13. CASE WriteRejected(w) \/ Finish(w) \/ Fault(w)
  BY <1>5, <1>13 DEF WriteRejected, Finish, Fault
<1> QED BY <1>6, <1>7, <1>8, <1>10, <1>11, <1>12, <1>13

LEMMA OrderInit == Init => OrderInv
<1> SUFFICES ASSUME Init PROVE OrderInv
  OBVIOUS
<1>1. \A t : LinksOf(t) = {}
  BY DEF Init, LinksOf
<1>2. Cardinality({}) = 0
  BY FS_EmptySet
<1>3. PositionsContiguous
  <2>1. {l.position : l \in {}} = {} /\ 1..0 = {}
    OBVIOUS
  <2> QED BY <1>1, <1>2, <2>1 DEF PositionsContiguous, Contiguous
<1> QED BY <1>3 DEF OrderInv, Editing, Init

LEMMA OrderNext ==
  ASSUME IndInv, OrderInv, OneEditorPerTemplate, [Next]_vars
  PROVE  OrderInv'
<1>1. CASE UNCHANGED vars
  BY <1>1 DEF vars, OrderInv, Editing, PositionsContiguous, Contiguous, LinksOf, Fresh
<1>2. ASSUME NEW w \in Requests, Commit(w)
      PROVE  OrderInv'
  BY <1>2, EditorCommits
<1>3. ASSUME NEW w \in Requests,
             \/ Begin(w) \/ SelectTemplate(w) \/ SelectLinks(w) \/ SelectBlocks(w)
             \/ GetBlock(w) \/ SelectUsage(w) \/ WriteRejected(w) \/ Finish(w) \/ Fault(w)
      PROVE  OrderInv'
  BY <1>3, EditorReads
<1> QED BY <1>1, <1>2, <1>3 DEF Next, Handle

LEMMA SoloIsOneEditor ==
  ASSUME NEW w, Requests = {w}
  PROVE  OneEditorPerTemplate
BY DEF OneEditorPerTemplate

\* add_template_block_and_reorder: "Add a block to a template and keep positions
\* contiguous."  It is so for any number of workers as long as no two of them edit
\* one template at a time; the run gaps shows what two do.
THEOREM EditorsKeepPositions == Spec /\ []OneEditorPerTemplate => []PositionsContiguous
<1>1. IndInv /\ OrderInv /\ OneEditorPerTemplate /\ [Next]_vars => OrderInv'
  BY OrderNext
<1>2. OrderInv => PositionsContiguous
  BY DEF OrderInv
<1> QED BY <1>1, <1>2, OrderInit, Invariance, PTL DEF Spec

\* So it is for every sequence of calls of a single worker, faults included.
THEOREM SoloPositions ==
  ASSUME NEW w, Requests = {w}
  PROVE  Spec => []PositionsContiguous
<1>1. OneEditorPerTemplate
  BY SoloIsOneEditor
<1> QED BY <1>1, EditorsKeepPositions, PTL

-----------------------------------------------------------------------------
(* With one editor per template, the routes implement OrderedTemplates. *)

LEMMA NothingListed == Listed({}) = <<>>
<1>1. Cardinality({}) = 0
  BY FS_EmptySet
<1>2. Sorted({}) = [i \in 1..0 |-> CHOOSE l \in {} : Index({}, l) = i]
  BY <1>1 DEF Sorted
<1>3. DOMAIN Sorted({}) = {}
  BY <1>2
<1> QED BY <1>3 DEF Listed

\* A template that is deleted keeps no block.
LEMMA DeletionIsAbstract ==
  ASSUME IndInv, OrderInv, NEW w \in Requests, CommitDeleteTemplate(w)
  PROVE  Ordered!DeleteTemplate(call[w].template)
<1> DEFINE t == call[w].template
           order == [x \in Templates |-> OrderOf(x)]
<1>1. /\ pc[w] = "write" /\ call[w].op = "deleteTemplate" /\ links' = Without(links, seen[w])
      /\ templates' = templates \ {t} /\ blocks' = blocks
  BY DEF CommitDeleteTemplate
<1>2. Writing(w) /\ Fresh(w) /\ t \in Templates
  BY <1>1, EditorFresh
<1>3. /\ {l \in links' : l.template = t} = {}
      /\ \A q \in Templates \ {t} : {l \in links' : l.template = q} = LinksOf(q)
  BY <1>1, <1>2, RowsLeft
<1>4. order' = [order EXCEPT ![t] = Listed({l \in links' : l.template = t})]
  BY <1>2, <1>3, OrderChanges
<1>5. order' = [order EXCEPT ![t] = <<>>]
  BY <1>3, <1>4, NothingListed
<1>6. t \in templates
  BY <1>2 DEF Fresh
<1> HIDE DEF t
<1> QED BY <1>1, <1>5, <1>6 DEF Ordered!DeleteTemplate, t

\* Steps that leave the rows alone leave the order alone.
LEMMA SameRows ==
  ASSUME links' = links
  PROVE  [x \in Templates |-> OrderOf(x)]' = [x \in Templates |-> OrderOf(x)]
<1>1. \A x : OrderOf(x)' = OrderOf(x)
  BY DEF OrderOf, LinksOf
<1> QED BY <1>1

\* A block is deleted when no template has it.
LEMMA UnusedBlock ==
  ASSUME IndInv, NEW t \in Templates, NEW b, \A l \in links : l.block # b
  PROVE  ~Ordered!Has(t, b)
<1> DEFINE L == Listed(LinksOf(t))
           order == [x \in Templates |-> OrderOf(x)]
<1>1. order[t] = L
  BY DEF OrderOf, Listed
<1>2. OwnRows(LinksOf(t))
  <2>1. TableOK(links, templates, blocks, nextId)
    BY TableOfInv
  <2>2. nextId \in Nat \ {0}
    BY BoundAssumption DEF IndInv, TypeOK
  <2> QED BY <2>1, <2>2, TableRows DEF LinksOf
<1>3. \A i \in DOMAIN L : \E l \in LinksOf(t) : L[i] = l.block
  BY <1>2, SortedRows
<1>4. \A i \in DOMAIN L : L[i] # b
  BY <1>3 DEF LinksOf
<1> HIDE DEF L
<1> QED BY <1>1, <1>4 DEF Ordered!Has, Ordered!Places

\* Each commit is a step of OrderedTemplates, or changes nothing.
LEMMA CommitIsOrderStep ==
  ASSUME IndInv, OrderInv, NEW w \in Requests, Commit(w)
  PROVE  Ordered!Next \/ UNCHANGED Ordered!vars
<1> DEFINE t == call[w].template
           b == call[w].block
           p == call[w].position
<1>1. /\ w \in Requests
      /\ pc[w] = "write"
      /\ t \in Templates /\ b \in Blocks
  <2>1. pc[w] = "write"
    BY DEF Commit, CommitAdd, CommitMove, CommitRemove, CommitDeleteTemplate, CommitDeleteBlock
  <2>2. Writing(w)
    BY <2>1 DEF Writing
  <2> QED BY <2>1, <2>2, SeenFacts DEF CallType
<1>2. CASE CommitAdd(w)
  <2> DEFINE i == ClampedPosition(call[w], LinksOf(t))
  <2>1. Fresh(w) /\ Contiguous(t)
    BY <1>1, <1>2, EditorFresh DEF CommitAdd
  <2>2. Ordered!Insert(t, b, i)
    BY <1>1, <1>2, <2>1, AddIsInsert
  <2> HIDE DEF t, b, i
  <2>3. i \in 1..(Len([x \in Templates |-> OrderOf(x)][t]) + 1)
    BY <2>2 DEF Ordered!Insert
  <2> QED BY <1>1, <2>2, <2>3 DEF Ordered!Next
<1>3. CASE CommitMove(w)
  <2>1. Fresh(w) /\ Writing(w)
    BY <1>1, <1>3, EditorFresh DEF CommitMove
  <2>2. Ordered!Move(t, b, p)
    BY <1>1, <1>3, <2>1, MoveIsMove
  <2>3. Len([x \in Templates |-> OrderOf(x)][t]) \in Nat
    BY <2>1, HeldOrder
  <2> HIDE DEF t, b, p
  <2>4. p \in 1..(Len([x \in Templates |-> OrderOf(x)][t]) + 1)
    BY <2>2, <2>3 DEF Ordered!Move
  <2> QED BY <1>1, <2>2, <2>4 DEF Ordered!Next
<1>4. CASE CommitRemove(w)
  <2>1. Fresh(w)
    BY <1>1, <1>4, EditorFresh DEF CommitRemove
  <2>2. Ordered!Detach(t, b)
    BY <1>1, <1>4, <2>1, RemoveIsDetach
  <2> QED BY <1>1, <2>2 DEF Ordered!Next
<1>5. CASE CommitDeleteTemplate(w)
  <2>1. Ordered!DeleteTemplate(t)
    BY <1>5, DeletionIsAbstract
  <2> QED BY <1>1, <2>1 DEF Ordered!Next
<1>6. CASE CommitDeleteBlock(w)
  <2>1. /\ blocks' = blocks \ {b} /\ templates' = templates /\ links' = links
        /\ \A l \in links : l.block # b
    BY <1>6 DEF CommitDeleteBlock, DeleteBlockFails
  <2>2. [x \in Templates |-> OrderOf(x)]' = [x \in Templates |-> OrderOf(x)]
    BY <2>1, SameRows
  <2>3. CASE b \in blocks
    <3>1. \A x \in Templates : ~Ordered!Has(x, b)
      BY <2>1, UnusedBlock
    <3> HIDE DEF b
    <3>2. Ordered!DeleteBlock(b)
      BY <2>1, <2>2, <2>3, <3>1 DEF Ordered!DeleteBlock
    <3> QED BY <1>1, <3>2 DEF Ordered!Next
  <2>4. CASE b \notin blocks
    <3>1. blocks' = blocks
      BY <2>1, <2>4
    <3> QED BY <2>1, <2>2, <3>1 DEF Ordered!vars
  <2> QED BY <2>3, <2>4
<1> QED BY <1>2, <1>3, <1>4, <1>5, <1>6 DEF Commit

\* See RefinesOrdered: the reads, checks, flushes and commits of any number of
\* workers, with all their errors and faults, are insertions, moves, removals and
\* deletions on sequences of distinct blocks, or nothing, as long as no two of them
\* edit one template at a time.
THEOREM EditorsRefineOrdered == Spec /\ []OneEditorPerTemplate => RefinesOrdered
<1>1. Init => Ordered!Init
  <2> SUFFICES ASSUME Init PROVE Ordered!Init
    OBVIOUS
  <2>1. \A x : OrderOf(x) = <<>>
    <3>1. \A x : LinksOf(x) = {}
      BY DEF Init, LinksOf
    <3> QED BY <3>1, NothingListed DEF OrderOf, Listed
  <2> QED BY <2>1 DEF Init, Ordered!Init
<1>2. IndInv /\ OrderInv /\ [Next]_vars => [Ordered!Next]_Ordered!vars
  <2> SUFFICES ASSUME IndInv, OrderInv, [Next]_vars
               PROVE  Ordered!Next \/ UNCHANGED Ordered!vars
    OBVIOUS
  <2>1. ASSUME UNCHANGED db
        PROVE  UNCHANGED Ordered!vars
    BY <2>1, SameRows DEF db, Ordered!vars
  <2>2. ASSUME NEW w \in Requests, Commit(w)
        PROVE  Ordered!Next \/ UNCHANGED Ordered!vars
    BY <2>2, CommitIsOrderStep
  <2>3. ASSUME \A w \in Requests : ~Commit(w)
        PROVE  UNCHANGED Ordered!vars
    <3>1. UNCHANGED db
      BY <2>3 DEF Next, vars, Begin, Handle, Fault, SelectTemplate, SelectLinks, SelectBlocks,
                  GetBlock, SelectUsage, WriteRejected, Finish, db
    <3> QED BY <2>1, <3>1
  <2> QED BY <2>2, <2>3
<1>3. IndInv /\ OrderInv /\ OneEditorPerTemplate /\ [Next]_vars => OrderInv'
  BY OrderNext
<1> QED BY <1>1, <1>2, <1>3, OrderInit, Invariance, PTL DEF Spec, RefinesOrdered, Ordered!Spec

\* So are all that a single worker does.
THEOREM SoloOrder ==
  ASSUME NEW w, Requests = {w}
  PROVE  Spec => RefinesOrdered
<1>1. OneEditorPerTemplate
  BY SoloIsOneEditor
<1> QED BY <1>1, EditorsRefineOrdered, PTL

=============================================================================
