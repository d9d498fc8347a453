---------------------------- MODULE ComposeProofs ----------------------------
(***************************************************************************)
(* The prompt that a client gets when it is alone, for all contents and    *)
(* all lists of dynamic blocks, of any length.                             *)
(***************************************************************************)
EXTENDS TemplateOrderProofs, Compose, WellFoundedInduction

-----------------------------------------------------------------------------
(* The first and the last place of a sequence where something holds. *)

LEMMA LeastNat ==
  ASSUME NEW T \in SUBSET Nat, T # {}
  PROVE  \E x \in T : \A y \in T : x <= y
<1> DEFINE R == OpToRel(<, Nat)
<1>1. IsWellFoundedOn(R, Nat)
  BY NatLessThanWellFounded
<1>2. \A x, y \in Nat : y < x => <<y, x>> \in R
  BY DEF OpToRel
<1> HIDE DEF R
<1>3. PICK x \in T : \A y \in T : ~(<<y, x>> \in R)
  BY <1>1, WFMin
<1>4. \A y \in T : ~(y < x)
  BY <1>2, <1>3
<1> QED BY <1>4

LEMMA FirstPlace ==
  ASSUME NEW n \in Nat, NEW I \in SUBSET (1..n), I # {}
  PROVE  Min(I) \in I /\ \A i \in I : Min(I) <= i
<1>1. I \in SUBSET Nat
  OBVIOUS
<1>2. \E x \in I : \A y \in I : x <= y
  BY <1>1, LeastNat
<1> QED BY <1>2 DEF Min

LEMMA LastPlace ==
  ASSUME NEW n \in Nat, NEW I \in SUBSET (1..n), I # {}
  PROVE  Max(I) \in I /\ \A i \in I : i <= Max(I)
<1> DEFINE T == {x \in Nat : n - x \in I}
<1>1. PICK i \in I : TRUE
  OBVIOUS
<1>2. n - i \in T
  BY <1>1
<1>3. PICK x \in T : \A y \in T : x <= y
  BY <1>2, LeastNat
<1>4. \A k \in I : n - k \in T
  OBVIOUS
<1>5. n - x \in I /\ \A k \in I : k <= n - x
  BY <1>3, <1>4
<1>6. \E k \in I : \A y \in I : k >= y
  BY <1>5
<1> QED BY <1>6 DEF Max

-----------------------------------------------------------------------------
(* Flattened sequences. *)

LEMMA ConcatPieces ==
  ASSUME NEW P, NEW a \in Seq(P), NEW b \in Seq(P)
  PROVE  a \o b \in Seq(P) /\ Pieces(a \o b) = Pieces(a) \cup Pieces(b)
<1> DEFINE ab == a \o b
           m == Len(a)
           n == Len(b)
<1>1. /\ m \in Nat /\ n \in Nat /\ DOMAIN a = 1..m /\ DOMAIN b = 1..n
  BY LenProperties
<1>2. /\ ab \in Seq(P) /\ Len(ab) = m + n
      /\ \A k \in 1..(m + n) : ab[k] = IF k <= m THEN a[k] ELSE b[k - m]
  BY ConcatProperties
<1>3. DOMAIN ab = 1..(m + n)
  BY <1>2, LenProperties
<1> HIDE DEF ab, m, n
<1>4. \A k \in 1..(m + n) : ab[k] \in Pieces(a) \cup Pieces(b)
  <2> TAKE k \in 1..(m + n)
  <2>1. CASE k <= m
    <3>1. k \in 1..m /\ ab[k] = a[k]
      BY <1>1, <1>2, <2>1
    <3>2. a[k] \in Pieces(a)
      BY <1>1, <3>1 DEF Pieces
    <3> QED BY <3>1, <3>2
  <2>2. CASE k > m
    <3>1. k - m \in 1..n /\ ab[k] = b[k - m]
      BY <1>1, <1>2, <2>2
    <3>2. b[k - m] \in Pieces(b)
      BY <1>1, <3>1 DEF Pieces
    <3> QED BY <3>1, <3>2
  <2> QED BY <1>1, <2>1, <2>2
<1>5. \A k \in 1..m : a[k] \in Pieces(ab)
  <2> TAKE k \in 1..m
  <2>1. k \in 1..(m + n) /\ k <= m
    BY <1>1
  <2> QED BY <1>2, <1>3, <2>1 DEF Pieces
<1>6. \A k \in 1..n : b[k] \in Pieces(ab)
  <2> TAKE k \in 1..n
  <2>1. m + k \in 1..(m + n) /\ ~(m + k <= m) /\ (m + k) - m = k
    BY <1>1
  <2> QED BY <1>2, <1>3, <2>1 DEF Pieces
<1>7. Pieces(ab) = Pieces(a) \cup Pieces(b)
  BY <1>1, <1>3, <1>4, <1>5, <1>6 DEF Pieces
<1> QED BY <1>2, <1>7 DEF ab

\* The function inside FlattenSeq.
FlatPrefixes(seqs) ==
  CHOOSE f : f = [i \in 1..Len(seqs) |-> IF i = 1 THEN seqs[i] ELSE f[i - 1] \o seqs[i]]

LEMMA FlattenIsPrefix ==
  ASSUME NEW seqs, Len(seqs) # 0
  PROVE  FlattenSeq(seqs) = FlatPrefixes(seqs)[Len(seqs)]
BY DEF FlattenSeq, FlatPrefixes

\* f joins what comes first, up to k.
Joins(f, seqs, k) ==
  \A i \in 1..k : f[i] = IF i = 1 THEN seqs[i] ELSE f[i - 1] \o seqs[i]

LEMMA PrefixesExist ==
  ASSUME NEW S, NEW seqs \in Seq(S)
  PROVE  \A i \in 1..Len(seqs) :
           FlatPrefixes(seqs)[i] = IF i = 1 THEN seqs[i] ELSE FlatPrefixes(seqs)[i - 1] \o seqs[i]
<1> DEFINE n == Len(seqs)
           T == {k \in 0..n : ~ \E f : Joins(f, seqs, k)}
<1>1. n \in Nat
  BY LenProperties
<1> HIDE DEF n
<1>2. T = {}
  <2> SUFFICES ASSUME T # {} PROVE FALSE
    OBVIOUS
  <2>1. T \in SUBSET Nat
    BY <1>1
  <2>2. PICK k \in T : \A y \in T : k <= y
    BY <2>1, LeastNat
  <2>3. k \in 0..n /\ ~ \E f : Joins(f, seqs, k)
    OBVIOUS
  <2> HIDE DEF T
  <2>4. k # 0
    <3>1. \A f : Joins(f, seqs, 0)
      BY DEF Joins
    <3> QED BY <2>3, <3>1
  <2>5. k - 1 \in 0..n /\ k - 1 \notin T
    BY <1>1, <2>2, <2>3, <2>4
  <2>6. PICK f : Joins(f, seqs, k - 1)
    BY <2>5 DEF T
  <2> DEFINE g == [i \in 1..k |-> IF i < k THEN f[i]
                                 ELSE IF i = 1 THEN seqs[i] ELSE f[i - 1] \o seqs[i]]
  <2>7. Joins(g, seqs, k)
    <3> SUFFICES ASSUME NEW i \in 1..k
                 PROVE  g[i] = IF i = 1 THEN seqs[i] ELSE g[i - 1] \o seqs[i]
      BY DEF Joins
    <3>1. k \in Nat \ {0}
      BY <1>1, <2>3, <2>4
    <3>2. i # 1 => g[i - 1] = f[i - 1]
      BY <3>1
    <3>3. CASE i < k
      <4>1. i \in 1..(k - 1) /\ g[i] = f[i]
        BY <3>1, <3>3
      <4>2. f[i] = IF i = 1 THEN seqs[i] ELSE f[i - 1] \o seqs[i]
        BY <2>6, <4>1 DEF Joins
      <4> HIDE DEF g
      <4> QED BY <3>2, <4>1, <4>2
    <3>4. CASE i = k
      <4>1. g[i] = IF i = 1 THEN seqs[i] ELSE f[i - 1] \o seqs[i]
        BY <3>1, <3>4
      <4> HIDE DEF g
      <4> QED BY <3>2, <4>1
    <3> QED BY <3>1, <3>3, <3>4
  <2> QED BY <2>3, <2>7
<1>3. PICK h : Joins(h, seqs, n)
  <2>1. n \in 0..n
    BY <1>1
  <2> QED BY <1>2, <2>1
<1> DEFINE f == [i \in 1..n |-> h[i]]
<1>4. f = [i \in 1..n |-> IF i = 1 THEN seqs[i] ELSE f[i - 1] \o seqs[i]]
  <2>1. ASSUME NEW i \in 1..n
        PROVE  h[i] = IF i = 1 THEN seqs[i] ELSE f[i - 1] \o seqs[i]
    <3>1. i # 1 => i - 1 \in 1..n
      BY <1>1
    <3>2. i # 1 => f[i - 1] = h[i - 1]
      BY <3>1
    <3> HIDE DEF f
    <3> QED BY <1>3, <3>2 DEF Joins
  <2> QED BY <2>1
<1> HIDE DEF f
<1>5. \E x : x = [i \in 1..n |-> IF i = 1 THEN seqs[i] ELSE x[i - 1] \o seqs[i]]
  BY <1>4
<1>6. FlatPrefixes(seqs) = [i \in 1..n |-> IF i = 1 THEN seqs[i] ELSE FlatPrefixes(seqs)[i - 1] \o seqs[i]]
  BY <1>5 DEF FlatPrefixes, n
<1> HIDE DEF n
<1> DEFINE p == FlatPrefixes(seqs)
<1> HIDE DEF p
<1>7. p = [i \in 1..n |-> IF i = 1 THEN seqs[i] ELSE p[i - 1] \o seqs[i]]
  BY <1>6 DEF p
<1>8. \A i \in 1..n : p[i] = IF i = 1 THEN seqs[i] ELSE p[i - 1] \o seqs[i]
  BY <1>7
<1> QED BY <1>8 DEF p, n

\* What is flattened has the pieces of its parts.
LEMMA FlattenPieces ==
  ASSUME NEW P, NEW seqs \in Seq(Seq(P)), Len(seqs) # 0
  PROVE  \A x : x \in Pieces(FlattenSeq(seqs))
                 <=> \E i \in 1..Len(seqs) : x \in Pieces(seqs[i])
<1> DEFINE n == Len(seqs)
           p == FlatPrefixes(seqs)
           Good(k) == /\ p[k] \in Seq(P)
                      /\ \A x : x \in Pieces(p[k]) <=> \E i \in 1..k : x \in Pieces(seqs[i])
           T == {k \in 1..n : ~Good(k)}
<1>1. n \in Nat \ {0} /\ \A i \in 1..n : seqs[i] \in Seq(P)
  BY LenProperties, ElementOfSeq
<1>2. \A i \in 1..n : p[i] = IF i = 1 THEN seqs[i] ELSE p[i - 1] \o seqs[i]
  BY PrefixesExist
<1> HIDE DEF n, p, Good
<1>3. T = {}
  <2> SUFFICES ASSUME T # {} PROVE FALSE
    OBVIOUS
  <2>1. T \in SUBSET Nat
    BY <1>1
  <2>2. PICK k \in T : \A y \in T : k <= y
    BY <2>1, LeastNat
  <2>3. /\ k \in 1..n /\ ~Good(k)
        /\ \A y \in 1..n : y < k => Good(y)
    BY <1>1, <2>2
  <2> HIDE DEF T
  <2>4. CASE k = 1
    <3>1. p[k] = seqs[k] /\ seqs[k] \in Seq(P) /\ 1..k = {k}
      BY <1>1, <1>2, <2>3, <2>4
    <3>2. Good(k)
      BY <3>1 DEF Good
    <3> QED BY <2>3, <3>2
  <2>5. CASE k # 1
    <3>1. k - 1 \in 1..n /\ k - 1 < k
      BY <1>1, <2>3, <2>5
    <3>2. Good(k - 1)
      BY <2>3, <3>1
    <3>3. p[k] = p[k - 1] \o seqs[k] /\ p[k - 1] \in Seq(P) /\ seqs[k] \in Seq(P)
      BY <1>1, <1>2, <2>3, <2>5, <3>2 DEF Good
    <3>4. p[k] \in Seq(P) /\ Pieces(p[k]) = Pieces(p[k - 1]) \cup Pieces(seqs[k])
      BY <3>3, ConcatPieces
    <3>5. \A x : x \in Pieces(p[k]) <=> \E i \in 1..k : x \in Pieces(seqs[i])
      <4>1. \A i : i \in 1..k <=> i \in 1..(k - 1) \/ i = k
        BY <2>3
      <4> QED BY <3>2, <3>4, <4>1 DEF Good
    <3>6. Good(k)
      BY <3>4, <3>5 DEF Good
    <3> QED BY <2>3, <3>6
  <2> QED BY <2>4, <2>5
<1>4. Good(n)
  <2>1. n \in 1..n
    BY <1>1
  <2> QED BY <1>3, <2>1
<1>5. FlattenSeq(seqs) = p[n]
  BY FlattenIsPrefix DEF p, n
<1> QED BY <1>4, <1>5 DEF Good, n

-----------------------------------------------------------------------------
(* The parts of a prompt. *)

\* render_dynamic_block_content: the user's content alone, or between the block's
\* own pieces.
LEMMA RenderedPieces ==
  ASSUME NEW content \in Seq(Piece), NEW user \in Seq(Piece)
  PROVE  IF Slot \notin Pieces(content)
         THEN Rendered(content, user) = user
         ELSE Pieces(Rendered(content, user)) = (Pieces(content) \ {Slot}) \cup Pieces(user)
<1> DEFINE n == Len(content)
           part(i) == IF content[i] = Slot THEN user ELSE <<content[i]>>
           parts == [i \in 1..n |-> part(i)]
<1>1. n \in Nat /\ DOMAIN content = 1..n /\ \A i \in 1..n : content[i] \in Piece
  BY LenProperties, ElementOfSeq
<1>2. CASE Slot \notin Pieces(content)
  <2>1. \A i \in DOMAIN content : content[i] # Slot
    BY <1>2 DEF Pieces
  <2> QED BY <1>2, <2>1 DEF Rendered
<1>3. CASE Slot \in Pieces(content)
  <2>1. PICK k \in 1..n : content[k] = Slot
    BY <1>1, <1>3 DEF Pieces
  <2>2. Rendered(content, user) = FlattenSeq(parts)
    BY <1>1, <2>1 DEF Rendered
  <2>3. \A i \in 1..n : part(i) \in Seq(Piece)
    BY <1>1
  <2>4. \A x, y : x \in Pieces(<<y>>) <=> x = y
    BY DEF Pieces
  <2>5. \A i \in 1..n : \A x : x \in Pieces(part(i))
           <=> IF content[i] = Slot THEN x \in Pieces(user) ELSE x = content[i]
    BY <2>4
  <2> HIDE DEF part, n
  <2>6. parts \in Seq(Seq(Piece)) /\ Len(parts) = n
    BY <1>1, <2>3, FunctionIsSeq
  <2>7. n # 0
    BY <1>1, <2>1
  <2>8. \A i \in 1..n : parts[i] = part(i)
    OBVIOUS
  <2> HIDE DEF parts
  <2>9. \A x : x \in Pieces(FlattenSeq(parts)) <=> \E i \in 1..n : x \in Pieces(parts[i])
    BY <2>6, <2>7, FlattenPieces
  <2>10. \A x : x \in Pieces(content) <=> \E i \in 1..n : x = content[i]
    BY <1>1 DEF Pieces
  <2>11. \A x : x \in Pieces(FlattenSeq(parts))
                <=> x \in Pieces(user) \/ (x \in Pieces(content) /\ x # Slot)
    BY <2>1, <2>5, <2>8, <2>9, <2>10
  <2> QED BY <1>3, <2>2, <2>11
<1> QED BY <1>2, <1>3

\* What the server goes by is what was sent last.
LEMMA LastGiven ==
  ASSUME NEW s \in Supplies, NEW b
  PROVE  /\ b \in DOMAIN ById(s) => /\ LastFor(b, s) = {ById(s)[b]}
                                    /\ ById(s)[b] \in Seq(Piece)
         /\ b \notin DOMAIN ById(s) => LastFor(b, s) = {}
<1> DEFINE n == Len(s)
           I == {i \in 1..n : s[i].id = b}
<1>1. n \in Nat /\ DOMAIN s = 1..n /\ \A i \in 1..n : s[i] \in DynamicBlock
  BY ComposeAssumption, LenProperties, ElementOfSeq
<1>2. b \in DOMAIN ById(s) <=> I # {}
  BY <1>1 DEF ById
<1>3. ASSUME I # {}
      PROVE  Max(I) \in I /\ \A i \in I : i <= Max(I)
  BY <1>1, <1>3, LastPlace
<1>4. ASSUME I # {}
      PROVE  ById(s)[b] = s[Max(I)].content
  BY <1>1, <1>2, <1>4 DEF ById, SelectLastInSeq
<1>5. \A c : c \in LastFor(b, s) <=> \E i \in I : c = s[i].content /\ \A k \in 1..n : k > i => s[k].id # b
  BY <1>1 DEF LastFor
<1>6. \A i \in I : i \in 1..n /\ s[i].content \in Seq(Piece)
  BY <1>1 DEF DynamicBlock
<1>7. \A k \in 1..n : s[k].id = b <=> k \in I
  OBVIOUS
<1> HIDE DEF I, n
<1>8. CASE I # {}
  <2> DEFINE m == Max(I)
  <2>1. m \in I /\ m \in Nat /\ \A i \in I : i <= m /\ i \in Nat
    BY <1>1, <1>3, <1>6, <1>8
  <2>2. ById(s)[b] = s[m].content
    BY <1>4, <1>8
  <2> HIDE DEF m
  <2>3. \A k \in 1..n : k > m => s[k].id # b
    BY <1>1, <1>7, <2>1
  <2>4. \A i \in I : (\A k \in 1..n : k > i => s[k].id # b) => i = m
    BY <1>1, <1>6, <1>7, <2>1
  <2>5. \A c : c \in LastFor(b, s) <=> c = s[m].content
    BY <1>5, <2>1, <2>3, <2>4
  <2> QED BY <1>2, <1>6, <1>8, <2>1, <2>2, <2>5
<1>9. CASE I = {}
  BY <1>2, <1>5, <1>9
<1> QED BY <1>8, <1>9

\* Rows on the positions 1..n are sorted into their positions.
LEMMA SortedAt ==
  ASSUME NEW rows, OwnRows(rows), {l.position : l \in rows} = 1..Cardinality(rows)
  PROVE  /\ Cardinality(rows) \in Nat
         /\ DOMAIN Sorted(rows) = 1..Cardinality(rows)
         /\ \A i \in 1..Cardinality(rows) :
              Sorted(rows)[i] \in rows /\ Sorted(rows)[i].position = i
         /\ \A l \in rows : l.position \in 1..Cardinality(rows) /\ Sorted(rows)[l.position] = l
<1> DEFINE n == Cardinality(rows)
<1>1. n \in Nat
  BY FS_CardinalityType DEF OwnRows
<1>2. \A l \in rows : Index(rows, l) = l.position
  BY ContiguousIndex
<1>3. DOMAIN Sorted(rows) = 1..n /\ \A i \in 1..n : Sorted(rows)[i] = CHOOSE l \in rows : Index(rows, l) = i
  BY DEF Sorted
<1>4. \A i \in 1..n : \E l \in rows : Index(rows, l) = i
  BY IndexOnto
<1>5. \A i \in 1..n : Sorted(rows)[i] \in rows /\ Index(rows, Sorted(rows)[i]) = i
  BY <1>3, <1>4
<1>6. \A l \in rows : l.position \in 1..n
  OBVIOUS
<1>7. \A l, m \in rows : l.position = m.position => l = m
  BY DEF OwnRows
<1> HIDE DEF n
<1>8. /\ \A i \in 1..n : Sorted(rows)[i] \in rows /\ Sorted(rows)[i].position = i
      /\ \A l \in rows : l.position \in 1..n /\ Sorted(rows)[l.position] = l
  BY <1>2, <1>5, <1>6, <1>7
<1> QED BY <1>1, <1>3, <1>8 DEF n

-----------------------------------------------------------------------------
(* The prompt. *)

\* What PromptFollowsPositions says of the rows of one template.
Follows(rows, s) ==
  LET answer == ComposePrompt(rows, s)
      lacking == {l.position : l \in {m \in rows : m.block \in Dynamic
                                                  /\ LastFor(m.block, s) = {}}}
  IN IF lacking # {}
     THEN \E l \in rows : /\ answer = [lacks |-> l.block]
                          /\ \A p \in lacking : l.position \in lacking /\ l.position <= p
     ELSE /\ Len(answer.prompt) = Cardinality(rows)
          /\ \A l \in rows :
               LET own == Content[l.block]
                   said == answer.prompt[l.position]
               IN IF l.block \notin Dynamic THEN said = own
                  ELSE \A user \in LastFor(l.block, s) :
                         IF Slot \notin Pieces(own) THEN said = user
                         ELSE Pieces(said) = (Pieces(own) \ {Slot}) \cup Pieces(user)

LEMMA PackedRowsFollow ==
  ASSUME NEW rows, OwnRows(rows), {l.position : l \in rows} = 1..Cardinality(rows),
         NEW s \in Supplies
  PROVE  Follows(rows, s)
<1> DEFINE n == Cardinality(rows)
           order == Sorted(rows)
           given == ById(s)
           Lacks(l) == l.block \in Dynamic \ DOMAIN given
           I == {i \in 1..n : Lacks(order[i])}
           missing == SelectInSeq(order, Lacks)
           answer == ComposePrompt(rows, s)
           lacking == {l.position : l \in {m \in rows : m.block \in Dynamic
                                                       /\ LastFor(m.block, s) = {}}}
           text(b) == IF b \in Dynamic THEN Rendered(Content[b], given[b]) ELSE Content[b]
<1>1. /\ n \in Nat /\ DOMAIN order = 1..n
      /\ \A i \in 1..n : order[i] \in rows /\ order[i].position = i
      /\ \A l \in rows : l.position \in 1..n /\ order[l.position] = l
  BY SortedAt
<1>2. \A l \in rows : l.block \in Blocks
  BY DEF OwnRows, LinkRow
<1>3. answer = IF missing # 0 THEN [lacks |-> order[missing].block]
               ELSE [prompt |-> [i \in DOMAIN order |-> text(order[i].block)]]
  BY DEF ComposePrompt
<1>4. Len(order) = n
  <2>1. order \in [1..n -> rows]
    BY <1>1 DEF Sorted
  <2> HIDE DEF order, n
  <2> QED BY <1>1, <2>1, FunctionIsSeq
<1>5. missing = IF I # {} THEN Min(I) ELSE 0
  BY <1>4 DEF SelectInSeq
<1>6. \A b : b \in DOMAIN given <=> LastFor(b, s) # {}
  BY LastGiven
<1>7. \A l : Lacks(l) <=> l.block \in Dynamic /\ LastFor(l.block, s) = {}
  BY <1>6
<1>8. lacking = {l.position : l \in {m \in rows : Lacks(m)}}
  BY <1>7
<1>9. ASSUME I # {}
      PROVE  Min(I) \in I /\ \A i \in I : Min(I) <= i
  <2>1. n \in Nat /\ I \in SUBSET (1..n)
    BY <1>1
  <2> HIDE DEF I, n
  <2> QED BY <1>9, <2>1, FirstPlace
<1> HIDE DEF lacking, Lacks, missing, answer, text, order, given, n
<1>10. lacking = I
  BY <1>1, <1>8
<1>11. CASE lacking # {}
  <2>1. missing = Min(I) /\ missing \in I /\ \A i \in I : missing <= i
    BY <1>5, <1>9, <1>10, <1>11
  <2>2. missing \in 1..n
    BY <2>1
  <2>3. order[missing] \in rows /\ order[missing].position = missing /\ missing # 0
    BY <1>1, <2>2
  <2>4. answer = [lacks |-> order[missing].block]
    BY <1>3, <2>3
  <2>5. \E l \in rows : /\ answer = [lacks |-> l.block]
                        /\ \A p \in lacking : l.position \in lacking /\ l.position <= p
    BY <1>10, <2>1, <2>3, <2>4
  <2> QED BY <1>11, <2>5 DEF Follows, answer, lacking
<1>12. CASE lacking = {}
  <2> DEFINE prompt == [i \in 1..n |-> text(order[i].block)]
  <2>1. answer = [prompt |-> prompt]
    BY <1>1, <1>3, <1>5, <1>10, <1>12
  <2>2. answer.prompt = prompt
    BY <2>1
  <2>3. Len(prompt) = n
    <3>1. prompt \in [1..n -> {text(order[i].block) : i \in 1..n}]
      OBVIOUS
    <3> HIDE DEF prompt
    <3> QED BY <1>1, <3>1, FunctionIsSeq
  <2>4. \A l \in rows : prompt[l.position] = text(l.block)
    BY <1>1
  <2> HIDE DEF prompt
  <2>5. ASSUME NEW l \in rows
        PROVE  IF l.block \notin Dynamic THEN prompt[l.position] = Content[l.block]
               ELSE \A user \in LastFor(l.block, s) :
                      IF Slot \notin Pieces(Content[l.block]) THEN prompt[l.position] = user
                      ELSE Pieces(prompt[l.position])
                             = (Pieces(Content[l.block]) \ {Slot}) \cup Pieces(user)
    <3>1. CASE l.block \notin Dynamic
      BY <2>4, <3>1 DEF text
    <3>2. CASE l.block \in Dynamic
      <4>1. Content[l.block] \in Seq(Piece)
        BY <1>2, ComposeAssumption
      <4> SUFFICES ASSUME NEW user \in LastFor(l.block, s)
                   PROVE  IF Slot \notin Pieces(Content[l.block]) THEN prompt[l.position] = user
                          ELSE Pieces(prompt[l.position])
                                 = (Pieces(Content[l.block]) \ {Slot}) \cup Pieces(user)
        BY <3>2
      <4>2. user = given[l.block] /\ user \in Seq(Piece)
        BY LastGiven DEF given
      <4>3. prompt[l.position] = Rendered(Content[l.block], user)
        BY <2>4, <3>2, <4>2 DEF text
      <4> QED BY <4>1, <4>2, <4>3, RenderedPieces
    <3> QED BY <3>1, <3>2
  <2> QED BY <1>12, <2>2, <2>3, <2>5 DEF Follows, answer, lacking, n
<1> QED BY <1>11, <1>12

\* See PromptFollowsPositions: for contents and lists of dynamic blocks of any
\* length, errors and faults included, the prompt says at each position what the
\* block at that position is to say, as long as no two workers edit one template at
\* a time: compose_prompt itself trusts the positions it loads.
THEOREM EditorsKeepPrompts ==
  Spec /\ []OneEditorPerTemplate => []PromptFollowsPositions
<1>1. IndInv /\ PositionsContiguous => PromptFollowsPositions
  <2> SUFFICES ASSUME IndInv, PositionsContiguous, NEW t \in templates, NEW s \in Supplies
               PROVE  Follows(LinksOf(t), s)
    BY DEF PromptFollowsPositions, Follows
  <2>1. TableOK(links, templates, blocks, nextId) /\ nextId \in Nat \ {0} /\ t \in Templates
    BY TableOfInv, BoundAssumption DEF IndInv, TypeOK
  <2>2. OwnRows(LinksOf(t))
    BY <2>1, TableRows DEF LinksOf
  <2>3. {l.position : l \in LinksOf(t)} = 1..Cardinality(LinksOf(t))
    BY <2>1 DEF PositionsContiguous, Contiguous
  <2> QED BY <2>2, <2>3, PackedRowsFollow
<1> QED BY <1>1, EditorsKeepPositions, Invariance, PTL

\* So it does after any sequence of calls of a single worker.
THEOREM SoloPrompts ==
  ASSUME NEW w, Requests = {w}
  PROVE  Spec => []PromptFollowsPositions
<1>1. OneEditorPerTemplate
  BY SoloIsOneEditor
<1> QED BY <1>1, EditorsKeepPrompts, PTL

=============================================================================
