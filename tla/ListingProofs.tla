--------------------------- MODULE ListingProofs ----------------------------
(***************************************************************************)
(* Theorems about Listing, for every table, page size, cap and number of   *)
(* requests.  The writes are those of Catalog, whose invariant is reused.  *)
(***************************************************************************)
EXTENDS Listing, CatalogProofs, FiniteSetTheorems, SequenceTheorems

-----------------------------------------------------------------------------
(* Sets of rows and the sequences a SELECT makes of them. *)

\* Unique ids below a bound make a table finite.
LEMMA TablesAreFinite ==
  ASSUME TypeOK, SlugsUnique PROVE IsFiniteSet(rows)
<1> DEFINE f == [row \in rows |-> row.id]
<1>1. f \in Injection(rows, 1..MaxId)
  BY DEF TypeOK, Row, SlugsUnique, Injection, IsInjective
<1>2. IsFiniteSet(1..MaxId)
  BY FS_Interval, BoundAssumption
<1> QED
  BY <1>1, <1>2, FS_Injection

\* An order of a set holds each of its elements once.
LEMMA OrderProperties ==
  ASSUME NEW S, IsFiniteSet(S), NEW c, NEW s \in Orders(c, S)
  PROVE  /\ s \in Seq(S) /\ Len(s) = Cardinality(S)
         /\ \A i, j \in 1..Len(s) : s[i] = s[j] => i = j
         /\ \A x \in S : \E i \in 1..Len(s) : s[i] = x
<1> DEFINE n == Cardinality(S)
<1>1. n \in Nat
  BY FS_CardinalityType
<1>2. s \in [1..n -> S] /\ \A i, j \in 1..n : i # j => s[i] # s[j]
  BY DEF Orders, SetToSeqs
<1>3. s \in Seq(S) /\ Len(s) = n
  BY <1>1, <1>2
<1>4. s \in Injection(1..n, S)
  BY <1>2 DEF Injection, IsInjective
<1>5. IsFiniteSet(1..n) /\ Cardinality(1..n) = n
  BY <1>1, FS_Interval
<1>6. s \in Surjection(1..n, S)
  BY <1>4, <1>5, FS_Injection
<1> QED
  BY <1>2, <1>3, <1>6 DEF Surjection

\* OFFSET and LIMIT: which positions of the result, and how many.
LEMMA SliceProperties ==
  ASSUME NEW S, NEW s \in Seq(S), NEW c \in Lists
  PROVE  /\ Slice(c, s) \in Seq(S)
         /\ c.op = "export" =>
              /\ Len(Slice(c, s)) = IF Len(s) <= ExportCap THEN Len(s) ELSE ExportCap + 1
              /\ \A i \in 1..Len(Slice(c, s)) : Slice(c, s)[i] = s[i]
         /\ c.op # "export" =>
              Len(Slice(c, s)) = IF Len(s) <= c.skip THEN 0
                                 ELSE IF Len(s) - c.skip < c.limit THEN Len(s) - c.skip
                                 ELSE c.limit
<1> DEFINE first == IF c.op = "export" THEN 1 ELSE c.skip + 1
           last0 == IF c.op = "export" THEN ExportCap + 1 ELSE c.skip + c.limit
           last  == IF Len(s) < last0 THEN Len(s) ELSE last0
<1>1. /\ c.skip \in Nat /\ c.limit \in Nat \ {0} /\ ExportCap \in Nat \ {0}
      /\ Len(s) \in Nat
  BY ListsAssumption, ExportCapAssumption, LenProperties DEF ListType
<1>2. first \in Int /\ last \in Int /\ first >= 1 /\ last <= Len(s)
  BY <1>1
<1>3. \A i \in first..last : s[i] \in S
  BY <1>1, <1>2, ElementOfSeq
<1>4. Slice(c, s) = SubSeq(s, first, last)
  BY DEF Slice
<1> HIDE DEF first, last
<1>5. /\ Slice(c, s) \in Seq(S)
      /\ Len(Slice(c, s)) = IF first <= last THEN last - first + 1 ELSE 0
      /\ \A i \in 1..(last - first + 1) : Slice(c, s)[i] = s[first + i - 1]
  BY <1>2, <1>3, <1>4, SubSeqProperties
<1> USE DEF first, last
<1>6. ASSUME c.op = "export"
      PROVE  /\ Len(Slice(c, s)) = IF Len(s) <= ExportCap THEN Len(s) ELSE ExportCap + 1
             /\ \A i \in 1..Len(Slice(c, s)) : Slice(c, s)[i] = s[i]
  BY <1>1, <1>5, <1>6
<1>7. ASSUME c.op # "export"
      PROVE  Len(Slice(c, s)) = IF Len(s) <= c.skip THEN 0
                                ELSE IF Len(s) - c.skip < c.limit THEN Len(s) - c.skip
                                ELSE c.limit
  BY <1>1, <1>5, <1>7
<1> QED
  BY <1>5, <1>6, <1>7

-----------------------------------------------------------------------------
(* The invariant: what a list request holds between its SELECTs. *)

\* After its first SELECT a request holds a slice of the rows that matched then.
PageOK(l) ==
  /\ lpc[l] # "idle" => lcall[l] \in Lists /\ Admits(ltier[l], "get")
  /\ lpc[l] = "count" =>
       /\ table[l] \in SUBSET Row /\ IsFiniteSet(table[l])
       /\ \E s \in Orders(lcall[l], Filtered(lcall[l], ltier[l], table[l])) :
            page[l] = Slice(lcall[l], s)

ListShape ==
  /\ lpc \in [Listers -> {"idle", "rows", "count"}]
  /\ lcall \in [Listers -> Lists \cup {NoList}]
  /\ ltier \in [Listers -> Tiers]
  /\ DOMAIN page = Listers /\ DOMAIN table = Listers

ListInv == ListShape /\ \A l \in Listers : PageOK(l)

\* The rows a request holds are among those that matched at its first SELECT.
LEMMA HeldRows ==
  ASSUME NEW l \in Listers, ListInv, lpc[l] = "count"
  PROVE  LET F == Filtered(lcall[l], ltier[l], table[l])
         IN /\ lcall[l] \in Lists /\ F \in SUBSET Row /\ IsFiniteSet(F)
            /\ page[l] \in Seq(F)
<1> DEFINE F == Filtered(lcall[l], ltier[l], table[l])
<1>1. /\ lcall[l] \in Lists /\ table[l] \in SUBSET Row /\ IsFiniteSet(table[l])
      /\ \E s \in Orders(lcall[l], F) : page[l] = Slice(lcall[l], s)
  BY DEF ListInv, PageOK
<1>2. F \in SUBSET table[l]
  BY DEF Filtered
<1>3. IsFiniteSet(F) /\ F \in SUBSET Row
  BY <1>1, <1>2, FS_Subset
<1> HIDE DEF F
<1>4. page[l] \in Seq(F)
  BY <1>1, <1>3, OrderProperties, SliceProperties
<1> QED
  BY <1>1, <1>3, <1>4 DEF F

\* A reply ends one request and leaves the others alone.
LEMMA ReplyKeeps ==
  ASSUME ListInv, NEW l \in Listers, NEW response, Reply(l, response)
  PROVE  ListInv'
<1>1. ListShape'
  BY DEF ListInv, ListShape, Reply, Tiers
<1>2. ASSUME NEW k \in Listers PROVE PageOK(k)'
  <2>1. CASE k = l
    BY <2>1 DEF ListInv, ListShape, Reply, PageOK
  <2>2. CASE k # l
    <3>1. /\ lpc'[k] = lpc[k] /\ lcall'[k] = lcall[k] /\ ltier'[k] = ltier[k]
          /\ page'[k] = page[k] /\ table'[k] = table[k]
      BY <2>2 DEF ListInv, ListShape, Reply
    <3> QED
      BY <3>1 DEF ListInv, PageOK
  <2> QED
    BY <2>1, <2>2
<1> QED
  BY <1>1, <1>2 DEF ListInv

LEMMA BeginListKeeps ==
  ASSUME ListInv, IndInv, NEW l \in Listers, NEW c \in Lists, BeginList(l, c)
  PROVE  ListInv'
<1> DEFINE t == tier[c.user]
<1>1. CASE ~(Admits(t, "get") /\ "undeclared" \notin c.facets)
  BY <1>1, ReplyKeeps DEF BeginList
<1>2. CASE Admits(t, "get") /\ "undeclared" \notin c.facets
  <2>1. /\ lpc' = [lpc EXCEPT ![l] = "rows"] /\ lcall' = [lcall EXCEPT ![l] = c]
        /\ ltier' = [ltier EXCEPT ![l] = t] /\ UNCHANGED <<page, table>>
    BY <1>2 DEF BeginList
  <2>2. t \in Tiers
    BY ListsAssumption DEF ListType, IndInv, TypeOK
  <2>3. ListShape'
    BY <2>1, <2>2 DEF ListInv, ListShape
  <2>4. ASSUME NEW k \in Listers PROVE PageOK(k)'
    BY <1>2, <2>1 DEF ListInv, ListShape, PageOK
  <2> QED
    BY <2>3, <2>4 DEF ListInv
<1> QED
  BY <1>1, <1>2

\* A first SELECT keeps its page or ends the request.
LEMMA SelectRowsCases ==
  ASSUME NEW l \in Listers, SelectRows(l)
  PROVE  /\ lpc[l] = "rows"
         /\ \E s \in Orders(lcall[l], Filtered(lcall[l], ltier[l], rows)) :
              Keep(l, Slice(lcall[l], s)) \/ Reject(l, Slice(lcall[l], s))
BY DEF SelectRows

LEMMA SelectRowsKeeps ==
  ASSUME ListInv, IndInv, NEW l \in Listers, SelectRows(l)
  PROVE  ListInv'
<1>1. IsFiniteSet(rows) /\ rows \in SUBSET Row
  BY TablesAreFinite DEF IndInv, TypeOK
<1>2. PICK s \in Orders(lcall[l], Filtered(lcall[l], ltier[l], rows)) :
        Keep(l, Slice(lcall[l], s)) \/ Reject(l, Slice(lcall[l], s))
  BY SelectRowsCases
<1>3. CASE Reject(l, Slice(lcall[l], s))
  BY <1>3, ReplyKeeps DEF Reject
<1>4. CASE Keep(l, Slice(lcall[l], s))
  <2>1. ListShape'
    BY <1>4 DEF Keep, ListInv, ListShape
  <2>2. ASSUME NEW k \in Listers PROVE PageOK(k)'
    <3>1. CASE k # l
      <4>1. /\ lpc'[k] = lpc[k] /\ lcall'[k] = lcall[k] /\ ltier'[k] = ltier[k]
            /\ page'[k] = page[k] /\ table'[k] = table[k]
        BY <1>4, <3>1 DEF ListInv, ListShape, Keep
      <4> QED
        BY <4>1 DEF ListInv, PageOK
    <3>2. CASE k = l
      <4>1. /\ lpc[l] = "rows" /\ lpc'[l] = "count" /\ table'[l] = rows
            /\ page'[l] = Slice(lcall[l], s) /\ lcall' = lcall /\ ltier' = ltier
        BY <1>4, SelectRowsCases DEF Keep, ListInv, ListShape
      <4> QED
        BY <1>1, <1>2, <3>2, <4>1 DEF ListInv, PageOK
    <3> QED
      BY <3>1, <3>2
  <2> QED
    BY <2>1, <2>2 DEF ListInv
<1> QED
  BY <1>2, <1>3, <1>4

LEMMA ListNextKeeps ==
  ASSUME ListInv, IndInv, [ListNext]_lvars
  PROVE  ListInv'
<1>1. CASE UNCHANGED lists
  BY <1>1 DEF lists, ListInv, ListShape, PageOK
<1>2. ASSUME NEW l \in Listers, NEW c \in Lists, BeginList(l, c) PROVE ListInv'
  BY <1>2, BeginListKeeps
<1>3. ASSUME NEW l \in Listers, SelectRows(l) PROVE ListInv'
  BY <1>3, SelectRowsKeeps
<1>4. ASSUME NEW l \in Listers, SelectCount(l) \/ FaultList(l) PROVE ListInv'
  BY <1>4, ReplyKeeps DEF SelectCount, FaultList
<1> QED
  BY <1>1, <1>2, <1>3, <1>4 DEF ListNext, lvars

\* Lists do not disturb Catalog: what holds of its steps holds next to lists.
THEOREM ListsOnlyRead == ListSpec => Spec
<1>1. ListInit => Init
  BY DEF ListInit
<1>2. [ListNext]_lvars => [Next]_vars
  BY DEF ListNext, lvars
<1> QED
  BY <1>1, <1>2, PTL DEF ListSpec, Spec

\* The invariant of list requests.
THEOREM ListInvariance == ListSpec => [](ListInv /\ IndInv)
<1>1. ListInit => ListInv
  BY DEF ListInit, ListInv, ListShape, PageOK, Tiers
<1>2. ListInv /\ IndInv /\ [ListNext]_lvars => ListInv'
  BY ListNextKeeps
<1>3. ListSpec => []IndInv
  BY ListsOnlyRead, CatalogInvariance, PTL
<1> QED
  BY <1>1, <1>2, <1>3, PTL DEF ListSpec

\* The shape of the last answer.
ListedOK ==
  /\ listed.status \in {"none", "ok", "403", "422", "invalid", "error"}
  /\ listed.data \in Seq(Row) /\ listed.count \in Nat /\ listed.truncated \in BOOLEAN

LEMMA ListedKeeps ==
  ASSUME ListedOK, ListInv, IndInv, [ListNext]_lvars
  PROVE  ListedOK'
<1>1. CASE UNCHANGED lists
  BY <1>1 DEF lists, ListedOK
<1>2. ASSUME NEW l \in Listers, NEW c \in Lists, BeginList(l, c) PROVE ListedOK'
  <2>1. \/ \E st \in {"403", "422"} : listed' = [NoAnswer EXCEPT !.status = st]
        \/ listed' = listed
    BY <1>2 DEF BeginList, Reply
  <2>2. <<>> \in Seq(Row) /\ 0 \in Nat /\ FALSE \in BOOLEAN
    BY EmptySeq
  <2>3. CASE listed' = listed
    BY <2>3 DEF ListedOK
  <2>4. CASE \E st \in {"403", "422"} : listed' = [NoAnswer EXCEPT !.status = st]
    <3>1. /\ listed'.status \in {"403", "422"} /\ listed'.data = <<>>
          /\ listed'.count = 0 /\ listed'.truncated = FALSE
      BY <2>4 DEF NoAnswer
    <3> QED
      BY <2>2, <3>1, Zenon DEF ListedOK
  <2> QED
    BY <2>1, <2>3, <2>4
<1>3. ASSUME NEW l \in Listers, SelectRows(l) PROVE ListedOK'
  <2>1. listed' = listed \/ listed' = [NoAnswer EXCEPT !.status = "invalid"]
    BY <1>3, SelectRowsCases DEF Keep, Reject, Reply
  <2>2. <<>> \in Seq(Row) /\ 0 \in Nat /\ FALSE \in BOOLEAN
    BY EmptySeq
  <2>3. CASE listed' = listed
    BY <2>3 DEF ListedOK
  <2>4. CASE listed' = [NoAnswer EXCEPT !.status = "invalid"]
    <3>1. /\ listed'.status = "invalid" /\ listed'.data = <<>>
          /\ listed'.count = 0 /\ listed'.truncated = FALSE
      BY <2>4 DEF NoAnswer
    <3> QED
      BY <2>2, <3>1, Zenon DEF ListedOK
  <2> QED
    BY <2>1, <2>3, <2>4
<1>4. ASSUME NEW l \in Listers, FaultList(l) PROVE ListedOK'
  BY <1>4 DEF FaultList, Reply, NoAnswer, ListedOK
<1>5. ASSUME NEW l \in Listers, SelectCount(l) PROVE ListedOK'
  <2> DEFINE truncated == lcall[l].op = "export" /\ Len(page[l]) > ExportCap
             data == Shown(lcall[l], page[l])
  <2>1. listed' = [status |-> "ok", data |-> data, count |-> CountOf(lcall[l], ltier[l]),
                   truncated |-> truncated]
    BY <1>5 DEF SelectCount, Reply
  <2>2. CountOf(lcall[l], ltier[l]) \in Nat
    <3>1. IsFiniteSet(Filtered(lcall[l], ltier[l], rows))
      BY TablesAreFinite, FS_Subset DEF IndInv, Filtered
    <3> QED
      BY <3>1, FS_CardinalityType DEF CountOf
  <2>3. page[l] \in Seq(Row)
    <3>1. lpc[l] = "count"
      BY <1>5 DEF SelectCount
    <3>2. LET F == Filtered(lcall[l], ltier[l], table[l])
          IN F \in SUBSET Row /\ page[l] \in Seq(F)
      BY <3>1, HeldRows
    <3> QED
      BY <3>2
  <2>4. data \in Seq(Row)
    <3>1. CASE truncated
      <4>1. /\ ExportCap \in Nat \ {0} /\ Len(page[l]) \in Nat
            /\ \A i \in 1..ExportCap : page[l][i] \in Row
        BY <2>3, <3>1, ExportCapAssumption, ElementOfSeq, LenProperties
      <4> QED
        BY <2>3, <3>1, <4>1, SubSeqProperties DEF Shown
    <3>2. CASE ~truncated
      BY <2>3, <3>2 DEF Shown
    <3> QED
      BY <3>1, <3>2
  <2> HIDE DEF data
  <2> QED
    BY <2>1, <2>2, <2>4 DEF ListedOK
<1> QED
  BY <1>1, <1>2, <1>3, <1>4, <1>5 DEF ListNext, lvars

\* A request holds rows only between its SELECTs.
IdleHoldsNothing ==
  \A l \in Listers : lpc[l] # "count" => page[l] = <<>> /\ table[l] = {}

LEMMA IdleKeeps ==
  ASSUME IdleHoldsNothing, ListInv, [ListNext]_lvars
  PROVE  IdleHoldsNothing'
<1>1. CASE UNCHANGED lists
  BY <1>1 DEF lists, IdleHoldsNothing
<1>2. ASSUME NEW l \in Listers, NEW response, Reply(l, response) PROVE IdleHoldsNothing'
  BY <1>2 DEF Reply, IdleHoldsNothing, ListInv, ListShape
<1>3. ASSUME NEW l \in Listers, NEW c \in Lists, BeginList(l, c) PROVE IdleHoldsNothing'
  <2>1. CASE \E response : Reply(l, response)
    BY <1>2, <2>1
  <2>2. CASE ~\E response : Reply(l, response)
    BY <1>3, <2>2 DEF BeginList, IdleHoldsNothing, ListInv, ListShape
  <2> QED
    BY <2>1, <2>2
<1>4. ASSUME NEW l \in Listers, SelectRows(l) PROVE IdleHoldsNothing'
  <2>1. PICK s : Keep(l, s) \/ Reject(l, s)
    BY <1>4, SelectRowsCases
  <2>2. CASE Reject(l, s)
    BY <1>2, <2>2 DEF Reject
  <2>3. CASE Keep(l, s)
    BY <2>3 DEF Keep, IdleHoldsNothing, ListInv, ListShape
  <2> QED
    BY <2>1, <2>2, <2>3
<1> QED
  BY <1>1, <1>2, <1>3, <1>4 DEF ListNext, lvars, SelectCount, FaultList

\* ListTypeOK holds of every behaviour, for every table, cap and number of requests.
THEOREM ListTypes == ListSpec => []ListTypeOK
<1>1. ListInit => ListedOK /\ IdleHoldsNothing
  BY DEF ListInit, NoAnswer, ListedOK, IdleHoldsNothing
<1>2. ListInv /\ IndInv /\ ListedOK /\ IdleHoldsNothing /\ [ListNext]_lvars
        => ListedOK' /\ IdleHoldsNothing'
  BY ListedKeeps, IdleKeeps
<1>3. ListInv /\ ListedOK /\ IdleHoldsNothing => ListTypeOK
  <2> SUFFICES ASSUME ListInv, ListedOK, IdleHoldsNothing
               PROVE  \A l \in Listers : page[l] \in Seq(Row) /\ table[l] \subseteq Row
    BY DEF ListInv, ListShape, PageOK, ListedOK, IdleHoldsNothing, ListTypeOK
  <2> TAKE l \in Listers
  <2>1. CASE lpc[l] = "count"
    <3>1. LET F == Filtered(lcall[l], ltier[l], table[l])
          IN F \in SUBSET Row /\ page[l] \in Seq(F)
      BY <2>1, HeldRows
    <3>2. table[l] \in SUBSET Row
      BY <2>1 DEF ListInv, PageOK
    <3> QED
      BY <3>1, <3>2
  <2>2. CASE lpc[l] # "count"
    BY <2>2, EmptySeq DEF IdleHoldsNothing
  <2> QED
    BY <2>1, <2>2
<1> QED
  BY <1>1, <1>2, <1>3, ListInvariance, PTL DEF ListSpec

-----------------------------------------------------------------------------
(* What the answers promise. *)

\* A successful answer is the step of the second SELECT.
LEMMA AnswersCount ==
  ASSUME ListInv, [ListNext]_lvars, NEW l \in Listers, Answers(l)
  PROVE  SelectCount(l)
<1>1. ASSUME UNCHANGED lists PROVE FALSE
  BY <1>1 DEF lists, Answers
<1>2. ASSUME NEW k \in Listers, NEW c \in Lists, BeginList(k, c) PROVE FALSE
  BY <1>2 DEF BeginList, Reply, Answers, ListInv, ListShape, NoAnswer
<1>3. ASSUME NEW k \in Listers, SelectRows(k) PROVE FALSE
  <2>1. lpc[k] = "rows" /\ \E s : Keep(k, s) \/ Reject(k, s)
    BY <1>3, SelectRowsCases
  <2>2. ASSUME NEW s, Reject(k, s) PROVE FALSE
    BY <2>2 DEF Reject, Reply, Answers, NoAnswer
  <2>3. ASSUME NEW s, Keep(k, s) PROVE FALSE
    BY <2>1, <2>3 DEF Keep, Answers, ListInv, ListShape
  <2> QED
    BY <2>1, <2>2, <2>3
<1>4. ASSUME NEW k \in Listers, FaultList(k) PROVE FALSE
  BY <1>4 DEF FaultList, Reply, Answers, NoAnswer
<1>5. ASSUME NEW k \in Listers, SelectCount(k) PROVE k = l
  BY <1>5 DEF SelectCount, Reply, Answers, ListInv, ListShape
<1> QED
  BY <1>1, <1>2, <1>3, <1>4, <1>5 DEF ListNext, lvars

\* What an answer holds, in terms of the order s its rows were taken from.
LEMMA AnswerOf ==
  ASSUME ListInv, IndInv, [ListNext]_lvars, NEW l \in Listers, Answers(l)
  PROVE  \E s \in Orders(lcall[l], Filtered(lcall[l], ltier[l], table[l])) :
           /\ lcall[l] \in Lists /\ lpc[l] = "count"
           /\ page[l] = Slice(lcall[l], s)
           /\ listed'.count = Cardinality(Filtered(lcall[l], ltier[l], rows))
           /\ listed'.truncated <=>
                lcall[l].op = "export" /\ Len(page[l]) > ExportCap
           /\ listed'.data = IF listed'.truncated THEN SubSeq(page[l], 1, ExportCap)
                                                 ELSE page[l]
<1>1. SelectCount(l)
  BY AnswersCount
<1>2. lpc[l] = "count" /\ PageOK(l)
  BY DEF Answers, ListInv
<1>3. PICK s \in Orders(lcall[l], Filtered(lcall[l], ltier[l], table[l])) :
        page[l] = Slice(lcall[l], s)
  BY <1>2 DEF PageOK
<1>4. /\ listed'.count = Cardinality(Filtered(lcall[l], ltier[l], rows))
      /\ listed'.truncated <=> lcall[l].op = "export" /\ Len(page[l]) > ExportCap
      /\ listed'.data = IF listed'.truncated THEN SubSeq(page[l], 1, ExportCap)
                                            ELSE page[l]
  BY <1>1 DEF SelectCount, Reply, CountOf, Shown
<1> QED
  BY <1>2, <1>3, <1>4 DEF PageOK

\* A truncated answer is a prefix of the page, of ExportCap rows.
LEMMA AnswerData ==
  ASSUME ListInv, IndInv, [ListNext]_lvars, NEW l \in Listers, Answers(l)
  PROVE  LET F == Filtered(lcall[l], ltier[l], table[l])
         IN /\ listed'.data \in Seq(F)
            /\ listed'.truncated => Len(listed'.data) = ExportCap
<1> DEFINE F == Filtered(lcall[l], ltier[l], table[l])
<1>1. /\ listed'.truncated => Len(page[l]) > ExportCap
      /\ listed'.data = IF listed'.truncated THEN SubSeq(page[l], 1, ExportCap)
                                            ELSE page[l]
  BY AnswerOf
<1>2. page[l] \in Seq(F)
  BY HeldRows, AnswerOf
<1> HIDE DEF F
<1>3. ASSUME listed'.truncated
      PROVE  listed'.data \in Seq(F) /\ Len(listed'.data) = ExportCap
  <2>1. /\ ExportCap \in Nat \ {0} /\ Len(page[l]) \in Nat
        /\ \A i \in 1..ExportCap : page[l][i] \in F
    BY <1>1, <1>2, <1>3, ExportCapAssumption, ElementOfSeq, LenProperties
  <2> QED
    BY <1>1, <1>3, <2>1, SubSeqProperties
<1>4. ASSUME ~listed'.truncated PROVE listed'.data \in Seq(F)
  BY <1>1, <1>2, <1>4
<1>5. listed'.data \in Seq(F) /\ (listed'.truncated => Len(listed'.data) = ExportCap)
  BY <1>3, <1>4
<1> QED
  BY <1>5 DEF F

\* No list, export, search, facet, order or page shows a private record to a
\* stranger, nor any private record to the user tier.
THEOREM ListedIsVisible == ListSpec => ListsShowVisible
<1> DEFINE Step ==
      \A l \in Listers : Answers(l) =>
        \A row \in ToSet(listed'.data) :
          /\ IsVisible(lcall[l].user, row)
          /\ ltier[l] = "user" /\ lcall[l].user \notin Superusers => row.public = "yes"
<1>1. ListInv /\ IndInv /\ [ListNext]_lvars => [Step]_lvars
  <2> SUFFICES ASSUME ListInv, IndInv, [ListNext]_lvars, NEW l \in Listers, Answers(l),
                      NEW row \in ToSet(listed'.data)
               PROVE  /\ IsVisible(lcall[l].user, row)
                      /\ ltier[l] = "user" /\ lcall[l].user \notin Superusers
                           => row.public = "yes"
    OBVIOUS
  <2>1. row \in Filtered(lcall[l], ltier[l], table[l])
    BY AnswerData, LenProperties, ElementOfSeq DEF ToSet
  <2>2. Listable(lcall[l], ltier[l], row)
    BY <2>1 DEF Filtered
  <2>3. Admits(ltier[l], "get")
    BY DEF ListInv, PageOK, Answers
  <2> QED
    BY <2>2, <2>3 DEF Listable, InQuery, IsVisible, IsOwner, Admits
<1>2. ListSpec => [][Step]_lvars
  BY <1>1, ListInvariance, PTL DEF ListSpec
<1> QED
  BY <1>2 DEF ListsShowVisible

\* An export that is not marked as truncated misses no record that matched from its
\* first SELECT to its second, and repeats none.
THEOREM ExportsAreComplete == ListSpec => UntruncatedIsComplete
<1> DEFINE Step ==
      \A l \in Listers :
        Answers(l) /\ lcall[l].op = "export" /\ ~listed'.truncated =>
          /\ Filtered(lcall[l], ltier[l], rows \cap table[l]) \subseteq ToSet(listed'.data)
          /\ IsInjective(listed'.data)
<1>1. ListInv /\ IndInv /\ [ListNext]_lvars => [Step]_lvars
  <2> SUFFICES ASSUME ListInv, IndInv, [ListNext]_lvars, NEW l \in Listers, Answers(l),
                      lcall[l].op = "export", ~listed'.truncated
               PROVE  /\ Filtered(lcall[l], ltier[l], rows \cap table[l])
                           \subseteq ToSet(listed'.data)
                      /\ IsInjective(listed'.data)
    OBVIOUS
  <2> DEFINE F == Filtered(lcall[l], ltier[l], table[l])
             data == listed'.data
  <2>1. PICK s \in Orders(lcall[l], F) :
          /\ data = Slice(lcall[l], s) /\ lcall[l] \in Lists
          /\ ~(Len(Slice(lcall[l], s)) > ExportCap)
    BY AnswerOf
  <2>2. IsFiniteSet(F)
    BY HeldRows, AnswerOf
  <2>3. Filtered(lcall[l], ltier[l], rows \cap table[l]) \subseteq F
    BY DEF Filtered
  <2> HIDE DEF F, data
  <2>4. /\ s \in Seq(F)
        /\ \A i, j \in 1..Len(s) : s[i] = s[j] => i = j
        /\ \A x \in F : \E i \in 1..Len(s) : s[i] = x
    BY <2>2, OrderProperties
  <2>5. /\ data \in Seq(F) /\ ExportCap \in Nat
        /\ Len(data) = IF Len(s) <= ExportCap THEN Len(s) ELSE ExportCap + 1
        /\ \A i \in 1..Len(data) : data[i] = s[i]
    <3>1. lcall[l] \in Lists /\ lcall[l].op = "export" /\ data = Slice(lcall[l], s)
      BY <2>1
    <3>2. s \in Seq(F)
      BY <2>4
    <3>3. Slice(lcall[l], s) \in Seq(F)
      BY <3>1, <3>2, SliceProperties
    <3>4. Len(Slice(lcall[l], s)) = IF Len(s) <= ExportCap THEN Len(s) ELSE ExportCap + 1
      BY <3>1, <3>2, SliceProperties
    <3>5. \A i \in 1..Len(Slice(lcall[l], s)) : Slice(lcall[l], s)[i] = s[i]
      BY <3>1, <3>2, SliceProperties, Zenon
    <3> QED
      BY <3>1, <3>3, <3>4, <3>5, ExportCapAssumption
  <2>6. Len(data) = Len(s) /\ Len(s) \in Nat /\ DOMAIN data = 1..Len(s)
    BY <2>1, <2>4, <2>5, LenProperties
  <2>7. F \subseteq ToSet(data)
    <3> SUFFICES ASSUME NEW x \in F PROVE x \in ToSet(data)
      OBVIOUS
    <3>1. PICK i \in 1..Len(s) : s[i] = x
      BY <2>4
    <3>2. i \in DOMAIN data /\ data[i] = x
      BY <2>5, <2>6, <3>1
    <3> QED
      BY <3>2 DEF ToSet
  <2>8. IsInjective(data)
    BY <2>4, <2>5, <2>6 DEF IsInjective
  <2> QED
    BY <2>3, <2>7, <2>8 DEF data
<1>2. ListSpec => [][Step]_lvars
  BY <1>1, ListInvariance, PTL DEF ListSpec
<1> QED
  BY <1>2 DEF UntruncatedIsComplete

\* When nothing is written between the two SELECTs, rows, count and the truncated
\* flag of an answer describe the same set.
THEOREM QuietAnswers == ListSpec => QuietAnswersAgree
<1> DEFINE Step ==
      \A l \in Listers :
        Answers(l) /\ rows = table[l] =>
          LET c == lcall[l]
              n == Len(listed'.data)
          IN IF c.op = "export"
             THEN /\ listed'.truncated <=> n < listed'.count
                  /\ n <= ExportCap
             ELSE n = IF listed'.count <= c.skip THEN 0
                      ELSE IF listed'.count - c.skip < c.limit THEN listed'.count - c.skip
                      ELSE c.limit
<1>1. ListInv /\ IndInv /\ [ListNext]_lvars => [Step]_lvars
  <2> SUFFICES ASSUME ListInv, IndInv, [ListNext]_lvars, NEW l \in Listers, Answers(l),
                      rows = table[l]
               PROVE  LET c == lcall[l]
                          n == Len(listed'.data)
                      IN IF c.op = "export"
                         THEN /\ listed'.truncated <=> n < listed'.count
                              /\ n <= ExportCap
                         ELSE n = IF listed'.count <= c.skip THEN 0
                                  ELSE IF listed'.count - c.skip < c.limit
                                       THEN listed'.count - c.skip
                                  ELSE c.limit
    OBVIOUS
  <2> DEFINE F == Filtered(lcall[l], ltier[l], table[l])
  <2>1. PICK s \in Orders(lcall[l], F) :
          /\ lcall[l] \in Lists /\ page[l] = Slice(lcall[l], s)
          /\ listed'.count = Cardinality(F)
          /\ listed'.truncated <=> lcall[l].op = "export" /\ Len(page[l]) > ExportCap
          /\ ~listed'.truncated => listed'.data = page[l]
    BY AnswerOf
  <2>2. IsFiniteSet(F)
    BY HeldRows, AnswerOf
  <2>3. listed'.truncated => Len(listed'.data) = ExportCap
    BY AnswerData
  <2> HIDE DEF F
  <2>4. s \in Seq(F) /\ Len(s) = listed'.count /\ Len(s) \in Nat
    BY <2>1, <2>2, OrderProperties, LenProperties
  <2>5. CASE lcall[l].op = "export"
    <3>1. Len(page[l]) = IF Len(s) <= ExportCap THEN Len(s) ELSE ExportCap + 1
      BY <2>1, <2>4, <2>5, SliceProperties
    <3> QED
      BY <2>1, <2>3, <2>4, <2>5, <3>1, ExportCapAssumption
  <2>6. CASE lcall[l].op # "export"
    <3>1. Len(page[l]) = IF Len(s) <= lcall[l].skip THEN 0
                         ELSE IF Len(s) - lcall[l].skip < lcall[l].limit
                              THEN Len(s) - lcall[l].skip
                         ELSE lcall[l].limit
      BY <2>1, <2>4, <2>6, SliceProperties
    <3> QED
      BY <2>1, <2>4, <2>6, <3>1
  <2> QED
    BY <2>5, <2>6
<1>2. ListSpec => [][Step]_lvars
  BY <1>1, ListInvariance, PTL DEF ListSpec
<1> QED
  BY <1>2 DEF QuietAnswersAgree

-----------------------------------------------------------------------------
(* Pages. *)

UniqueIds(S) ==
  /\ \A x \in S : x.id \in Int
  /\ \A x, y \in S : x.id = y.id => x = y

LEMMA RankInRange ==
  ASSUME NEW S, IsFiniteSet(S), UniqueIds(S), NEW c, NEW x \in S
  PROVE  Rank(c, S, x) \in 1..Cardinality(S)
<1>1. UpTo(c, S, x) \in SUBSET S /\ x \in UpTo(c, S, x)
  BY DEF UpTo, UniqueIds
<1>2. /\ IsFiniteSet(UpTo(c, S, x))
      /\ Cardinality(UpTo(c, S, x)) <= Cardinality(S)
      /\ Cardinality(UpTo(c, S, x)) \in Nat /\ Cardinality(S) \in Nat
  BY <1>1, FS_Subset, FS_CardinalityType
<1>3. Cardinality(UpTo(c, S, x)) # 0
  BY <1>1, <1>2, FS_EmptySet
<1> QED
  BY <1>2, <1>3 DEF Rank

\* Rows come in the order of their ranks.
LEMMA RankStrict ==
  ASSUME NEW S, IsFiniteSet(S), UniqueIds(S), NEW c, NEW x \in S, NEW y \in S,
         IF c.order = "asc" THEN x.id < y.id ELSE x.id > y.id
  PROVE  Rank(c, S, x) < Rank(c, S, y)
<1>1. /\ UpTo(c, S, x) \in SUBSET UpTo(c, S, y)
      /\ y \in UpTo(c, S, y) /\ y \notin UpTo(c, S, x)
  BY DEF UpTo, UniqueIds
<1>2. IsFiniteSet(UpTo(c, S, y)) /\ IsFiniteSet(UpTo(c, S, x))
  <2>1. UpTo(c, S, x) \in SUBSET S /\ UpTo(c, S, y) \in SUBSET S
    BY DEF UpTo
  <2> QED
    BY <2>1, FS_Subset
<1>3. /\ Cardinality(UpTo(c, S, x)) <= Cardinality(UpTo(c, S, y))
      /\ Cardinality(UpTo(c, S, x)) # Cardinality(UpTo(c, S, y))
  BY <1>1, <1>2, FS_Subset
<1>4. Cardinality(UpTo(c, S, x)) \in Nat /\ Cardinality(UpTo(c, S, y)) \in Nat
  BY <1>2, FS_CardinalityType
<1> QED
  BY <1>3, <1>4 DEF Rank

\* In an order by id each row is at its rank: there is only one such order.
LEMMA RankIsPlace ==
  ASSUME NEW S, IsFiniteSet(S), UniqueIds(S), NEW c, c.sort = "id",
         NEW s \in Orders(c, S), NEW i \in 1..Len(s)
  PROVE  Rank(c, S, s[i]) = i
<1> DEFINE f == [j \in 1..i |-> s[j]]
           B == UpTo(c, S, s[i])
<1>1. /\ s \in Seq(S) /\ Len(s) \in Nat
      /\ \A j, k \in 1..Len(s) : s[j] = s[k] => j = k
      /\ \A x \in S : \E j \in 1..Len(s) : s[j] = x
  BY OrderProperties, LenProperties
<1>2. \A j \in 1..Len(s) : s[j] \in S
  BY <1>1, ElementOfSeq
<1>3. \A j \in 1..Len(s) : \A k \in j..Len(s) :
        IF c.order = "asc" THEN s[j].id <= s[k].id ELSE s[j].id >= s[k].id
  BY DEF Orders, Key
<1>4. ASSUME NEW j \in 1..i
      PROVE  f[j] \in B
  <2>1. j \in 1..Len(s) /\ i \in j..Len(s)
    BY <1>1
  <2> QED
    BY <1>2, <1>3, <2>1 DEF UpTo
<1>5. ASSUME NEW y \in B
      PROVE  \E j \in 1..i : f[j] = y
  <2>1. PICK j \in 1..Len(s) : s[j] = y
    BY <1>1 DEF UpTo
  <2>2. CASE j <= i
    <3>1. j \in 1..i
      BY <1>1, <2>2
    <3> QED
      BY <2>1, <3>1
  <2>3. CASE j > i
    <3>1. j \in i..Len(s)
      BY <1>1, <2>3
    <3>2. IF c.order = "asc" THEN s[i].id <= s[j].id ELSE s[i].id >= s[j].id
      BY <1>3, <3>1
    <3>3. IF c.order = "asc" THEN s[j].id <= s[i].id ELSE s[j].id >= s[i].id
      BY <2>1 DEF UpTo
    <3>4. s[i] \in S /\ s[j] \in S
      BY <1>2
    <3>5. s[i].id = s[j].id
      BY <3>2, <3>3, <3>4 DEF UniqueIds
    <3>6. s[i] = s[j]
      BY <3>4, <3>5 DEF UniqueIds
    <3>7. FALSE
      BY <1>1, <2>3, <3>6
    <3> QED
      BY <3>7
  <2> QED
    BY <1>1, <2>2, <2>3
<1>6. ASSUME NEW j \in 1..i, NEW k \in 1..i, f[j] = f[k]
      PROVE  j = k
  <2>1. j \in 1..Len(s) /\ k \in 1..Len(s)
    BY <1>1
  <2> QED
    BY <1>1, <1>6, <2>1
<1>7. ExistsBijection(1..i, B)
  <2> HIDE DEF B
  <2>1. f \in [1..i -> B]
    BY <1>4
  <2> HIDE DEF f
  <2>2. f \in Bijection(1..i, B)
    BY <1>5, <1>6, <2>1 DEF Bijection, Injection, Surjection, IsInjective
  <2> QED
    BY <2>2 DEF ExistsBijection
<1>8. IsFiniteSet(1..i) /\ Cardinality(1..i) = i
  BY <1>1, FS_Interval
<1> QED
  BY <1>7, <1>8, FS_Bijection DEF Rank

\* And there is one: each place goes to the row with its rank.
LEMMA SomeOrder ==
  ASSUME NEW S, IsFiniteSet(S), UniqueIds(S), NEW c, c.sort = "id"
  PROVE  \E s \in Orders(c, S) : TRUE
<1> DEFINE n == Cardinality(S)
           rank == [x \in S |-> Rank(c, S, x)]
           s == [i \in 1..n |-> CHOOSE x \in S : Rank(c, S, x) = i]
<1>1. n \in Nat /\ IsFiniteSet(1..n) /\ Cardinality(1..n) = n
  BY FS_CardinalityType, FS_Interval
<1>2. ASSUME NEW x \in S, NEW y \in S
      PROVE  /\ Rank(c, S, x) = Rank(c, S, y) => x = y
             /\ Rank(c, S, x) <= Rank(c, S, y) =>
                  IF c.order = "asc" THEN x.id <= y.id ELSE x.id >= y.id
  <2>1. x.id \in Int /\ y.id \in Int /\ (x.id = y.id => x = y)
    BY DEF UniqueIds
  <2>2. Rank(c, S, x) \in Int /\ Rank(c, S, y) \in Int
    BY <1>1, RankInRange
  <2>3. (IF c.order = "asc" THEN x.id < y.id ELSE x.id > y.id)
          => Rank(c, S, x) < Rank(c, S, y)
    BY RankStrict
  <2>4. (IF c.order = "asc" THEN y.id < x.id ELSE y.id > x.id)
          => Rank(c, S, y) < Rank(c, S, x)
    BY RankStrict
  <2> QED
    BY <2>1, <2>2, <2>3, <2>4
<1>3. rank \in Injection(S, 1..n)
  BY <1>2, RankInRange DEF Injection, IsInjective
<1>4. rank \in Surjection(S, 1..n)
  BY <1>1, <1>3, FS_Injection
<1>5. ASSUME NEW i \in 1..n
      PROVE  s[i] \in S /\ Rank(c, S, s[i]) = i
  <2>1. \E x \in S : Rank(c, S, x) = i
    BY <1>4 DEF Surjection
  <2> QED
    BY <2>1
<1> HIDE DEF n, rank
<1>6. s \in [1..n -> S]
  BY <1>5
<1> HIDE DEF s
<1>7. s \in SetToSeqs(S)
  BY <1>5, <1>6 DEF SetToSeqs, n
<1>8. Len(s) = n
  BY <1>1, <1>6
<1>9. ASSUME NEW i \in 1..n, NEW j \in i..n
      PROVE  IF c.order = "asc" THEN s[i].id <= s[j].id ELSE s[i].id >= s[j].id
  <2>1. j \in 1..n /\ i <= j
    BY <1>1
  <2> QED
    BY <1>2, <1>5, <2>1
<1>10. s \in Orders(c, S)
  BY <1>7, <1>8, <1>9 DEF Orders, Key
<1> QED
  BY <1>10

\* Page k of a list holds the places from k * limit + 1 to k * limit + limit.
LEMMA PageMembers ==
  ASSUME NEW S, NEW s \in Seq(S), NEW c \in Lists, c.op = "list", NEW k \in Nat, NEW x
  PROVE  x \in ToSet(Slice([c EXCEPT !.skip = k * c.limit], s)) <=>
           \E i \in 1..Len(s) : s[i] = x /\ k * c.limit < i /\ i <= k * c.limit + c.limit
<1> DEFINE d == [c EXCEPT !.skip = k * c.limit]
           skip == k * c.limit
           last == IF Len(s) < skip + c.limit THEN Len(s) ELSE skip + c.limit
           p == Slice(d, s)
<1>1. /\ c.limit \in Nat \ {0} /\ skip \in Nat /\ Len(s) \in Nat
      /\ d.op = "list" /\ d.skip = skip /\ d.limit = c.limit
  BY ListsAssumption, LenProperties DEF ListType
<1>2. p = SubSeq(s, skip + 1, last)
  <2>1. p = SubSeq(s, d.skip + 1, IF Len(s) < d.skip + d.limit THEN Len(s) ELSE d.skip + d.limit)
    <3> HIDE DEF d, skip
    <3> QED
      BY <1>1, Zenon DEF Slice
  <2> HIDE DEF d, p, skip
  <2> QED
    BY <1>1, <2>1
<1>3. skip + 1 \in Int /\ last \in Int /\ \A i \in (skip + 1)..last : s[i] \in S
  BY <1>1, ElementOfSeq
<1> HIDE DEF skip, last, d, p
<1>4. /\ p \in Seq(S) /\ Len(p) = IF skip + 1 <= last THEN last - (skip + 1) + 1 ELSE 0
      /\ \A i \in 1..(last - (skip + 1) + 1) : p[i] = s[skip + 1 + i - 1]
  BY <1>2, <1>3, SubSeqProperties
<1>5. Len(p) \in Nat /\ DOMAIN p = 1..Len(p)
  BY <1>4, LenProperties
<1>6. \A i \in 1..Len(p) : p[i] = s[skip + i] /\ i <= last - skip
  BY <1>1, <1>3, <1>4
<1>7. ASSUME x \in ToSet(p)
      PROVE  \E i \in 1..Len(s) : s[i] = x /\ skip < i /\ i <= skip + c.limit
  <2>1. PICK i \in 1..Len(p) : p[i] = x
    BY <1>5, <1>7 DEF ToSet
  <2>2. skip + i \in 1..Len(s) /\ skip < skip + i /\ skip + i <= skip + c.limit
    BY <1>1, <1>6, <2>1 DEF last
  <2> QED
    BY <1>6, <2>1, <2>2
<1>8. ASSUME NEW i \in 1..Len(s), s[i] = x, skip < i, i <= skip + c.limit
      PROVE  x \in ToSet(p)
  <2>1. i - skip \in 1..Len(p) /\ skip + (i - skip) = i
    BY <1>1, <1>4, <1>8 DEF last
  <2>2. p[i - skip] = x
    BY <1>6, <1>8, <2>1
  <2> QED
    BY <1>5, <2>1, <2>2 DEF ToSet
<1>9. x \in ToSet(p) <=> \E i \in 1..Len(s) : s[i] = x /\ skip < i /\ i <= skip + c.limit
  BY <1>7, <1>8
<1> QED
  BY <1>9, Zenon DEF skip, p, d

\* A place is on exactly one page.
LEMMA OnePage ==
  ASSUME NEW i \in Nat \ {0}, NEW limit \in Nat \ {0}
  PROVE  LET k == (i - 1) \div limit
         IN /\ k \in Nat /\ k < i /\ k * limit < i /\ i <= k * limit + limit
            /\ \A j \in Nat : j # k => ~(j * limit < i /\ i <= j * limit + limit)
<1> DEFINE k == (i - 1) \div limit
<1>1. k \in Nat /\ k < i /\ k * limit < i /\ i <= k * limit + limit
  OBVIOUS
<1> HIDE DEF k
<1>2. ASSUME NEW a \in Nat, NEW b \in Nat, a < b
      PROVE  a * limit \in Nat /\ b * limit \in Nat /\ a * limit + limit <= b * limit
  BY <1>2
<1>3. ASSUME NEW j \in Nat, j # k, j * limit < i, i <= j * limit + limit
      PROVE  FALSE
  <2>1. j < k \/ k < j
    BY <1>1, <1>3
  <2>2. j * limit \in Nat /\ k * limit \in Nat
    BY <1>1
  <2>3. j < k => j * limit + limit <= k * limit
    BY <1>1, <1>2
  <2>4. k < j => k * limit + limit <= j * limit
    BY <1>1, <1>2
  <2> QED
    BY <1>1, <1>3, <2>1, <2>2, <2>3, <2>4
<1> QED
  BY <1>1, <1>3 DEF k

\* See PagesPartition: for every size of the page, pages sorted by id list each record
\* of a table that does not change exactly once.
THEOREM PagesArePartition == ListSpec => []PagesPartition
<1>1. IndInv => PagesPartition
  <2> SUFFICES ASSUME IndInv, NEW c \in Lists, NEW t \in Tiers, c.op = "list", c.sort = "id",
                      NEW row \in Filtered(c, t, rows)
               PROVE  LET S == Filtered(c, t, rows)
                          pageAt(k) == UNION {ToSet(Slice([c EXCEPT !.skip = k * c.limit], s)) :
                                                s \in Orders(c, S)}
                      IN \E k \in 0..Cardinality(S) :
                           /\ row \in pageAt(k)
                           /\ \A j \in 0..Cardinality(S) \ {k} : row \notin pageAt(j)
    BY DEF PagesPartition
  <2> DEFINE S == Filtered(c, t, rows)
             on(j, s) == row \in ToSet(Slice([c EXCEPT !.skip = j * c.limit], s))
             i == Rank(c, S, row)
             k == (i - 1) \div c.limit
  <2>1. IsFiniteSet(S) /\ UniqueIds(S)
    <3>1. IsFiniteSet(rows) /\ S \in SUBSET rows
      BY TablesAreFinite DEF IndInv, Filtered
    <3>2. UniqueIds(rows)
      BY BoundAssumption DEF IndInv, TypeOK, Row, SlugsUnique, UniqueIds
    <3> QED
      BY <3>1, <3>2, FS_Subset DEF UniqueIds
  <2>2. /\ Cardinality(S) \in Nat /\ i \in 1..Cardinality(S)
        /\ c.limit \in Nat \ {0}
    BY <2>1, FS_CardinalityType, RankInRange, ListsAssumption DEF ListType
  <2> HIDE DEF i, S
  <2>3. /\ k \in 0..Cardinality(S) /\ k * c.limit < i /\ i <= k * c.limit + c.limit
        /\ \A j \in Nat : j # k => ~(j * c.limit < i /\ i <= j * c.limit + c.limit)
    <3>1. i \in Nat \ {0} /\ c.limit \in Nat \ {0}
      BY <2>2
    <3>2. /\ k \in Nat /\ k < i /\ k * c.limit < i /\ i <= k * c.limit + c.limit
          /\ \A j \in Nat : j # k => ~(j * c.limit < i /\ i <= j * c.limit + c.limit)
      BY <3>1, OnePage, Zenon
    <3>3. k \in 0..Cardinality(S)
      <4> HIDE DEF k
      <4> QED
        BY <2>2, <3>2
    <3> QED
      BY <3>2, <3>3, Zenon
  <2> HIDE DEF k
  <2>4. ASSUME NEW s \in Orders(c, S), NEW j \in Nat
        PROVE  on(j, s) <=> j * c.limit < i /\ i <= j * c.limit + c.limit
    <3>1. /\ s \in Seq(S) /\ Len(s) = Cardinality(S)
          /\ \E h \in 1..Len(s) : s[h] = row
      BY <2>1, OrderProperties DEF S
    <3>2. \A h \in 1..Len(s) : s[h] = row => h = i
      BY <2>1, RankIsPlace DEF i
    <3>3. i \in 1..Len(s) /\ s[i] = row
      BY <3>1, <3>2
    <3>4. on(j, s) <=> \E h \in 1..Len(s) :
                         s[h] = row /\ j * c.limit < h /\ h <= j * c.limit + c.limit
      BY <3>1, PageMembers
    <3> QED
      BY <3>2, <3>3, <3>4
  <2>5. PICK s \in Orders(c, S) : TRUE
    BY <2>1, SomeOrder
  <2>6. on(k, s)
    BY <2>2, <2>3, <2>4
  <2>7. \A j \in 0..Cardinality(S) \ {k} : \A u \in Orders(c, S) : ~on(j, u)
    BY <2>2, <2>3, <2>4
  <2> QED
    BY <2>3, <2>6, <2>7 DEF S
<1> QED
  BY <1>1, ListInvariance, PTL

-----------------------------------------------------------------------------
(* Rows that do not convert. *)

\* The place in the order of each row that is shown.
LEMMA ShownPlaces ==
  ASSUME NEW S, NEW s \in Seq(S), NEW c \in Lists,
         NEW row \in ToSet(Shown(c, Slice(c, s)))
  PROVE  \E i \in 1..Len(s) :
           /\ s[i] = row
           /\ c.op = "export" => i <= ExportCap
           /\ c.op # "export" => c.skip < i /\ i <= c.skip + c.limit
<1> DEFINE first == IF c.op = "export" THEN 1 ELSE c.skip + 1
           last0 == IF c.op = "export" THEN ExportCap + 1 ELSE c.skip + c.limit
           last  == IF Len(s) < last0 THEN Len(s) ELSE last0
           p     == Slice(c, s)
           shown == Shown(c, p)
<1>1. /\ c.skip \in Nat /\ c.limit \in Nat \ {0} /\ ExportCap \in Nat \ {0}
      /\ Len(s) \in Nat
  BY ListsAssumption, ExportCapAssumption, LenProperties DEF ListType
<1>2. first \in Nat \ {0} /\ last \in Nat /\ last <= Len(s)
  BY <1>1
<1>3. \A i \in first..last : s[i] \in S
  BY <1>1, <1>2, ElementOfSeq
<1>4. p = SubSeq(s, first, last)
  BY DEF Slice
<1> HIDE DEF first, last, p, shown
<1>5. /\ p \in Seq(S)
      /\ Len(p) = IF first <= last THEN last - first + 1 ELSE 0
      /\ \A i \in 1..(last - first + 1) : p[i] = s[first + i - 1]
  BY <1>2, <1>3, <1>4, SubSeqProperties
<1>6. Len(p) \in Nat /\ \A i \in 1..Len(p) : p[i] \in S
  BY <1>5, LenProperties, ElementOfSeq
<1>7. \A i \in 1..Len(p) : first + i - 1 \in 1..last /\ s[first + i - 1] = p[i]
  BY <1>2, <1>5
<1>8. /\ shown \in Seq(S) /\ Len(shown) <= Len(p) /\ Len(shown) \in Nat
      /\ \A i \in 1..Len(shown) : shown[i] = p[i]
      /\ c.op = "export" => Len(shown) <= ExportCap
  <2>1. CASE c.op = "export" /\ Len(p) > ExportCap
    <3>1. shown = SubSeq(p, 1, ExportCap)
      BY <2>1 DEF Shown, shown
    <3>2. \A i \in 1..ExportCap : p[i] \in S
      BY <1>1, <1>6, <2>1
    <3>3. /\ shown \in Seq(S) /\ Len(shown) = ExportCap
          /\ \A i \in 1..ExportCap : shown[i] = p[i]
      BY <1>1, <1>5, <1>6, <2>1, <3>1, <3>2, SubSeqProperties
    <3> QED
      BY <1>1, <1>6, <2>1, <3>3
  <2>2. CASE ~(c.op = "export" /\ Len(p) > ExportCap)
    <3>1. shown = p
      BY <2>2 DEF Shown, shown
    <3> QED
      BY <1>1, <1>5, <1>6, <2>2, <3>1
  <2> QED
    BY <2>1, <2>2
<1>9. PICK i \in 1..Len(shown) : shown[i] = row
  <2>1. row \in ToSet(shown)
    BY DEF shown, p
  <2> QED
    BY <1>8, <2>1, LenProperties DEF ToSet
<1>10. /\ i \in 1..Len(p) /\ s[first + i - 1] = row /\ first + i - 1 \in 1..Len(s)
       /\ first + i - 1 <= last
  BY <1>2, <1>7, <1>8, <1>9
<1>11. CASE c.op = "export"
  <2>1. first + i - 1 = i /\ i <= ExportCap
    BY <1>1, <1>8, <1>9, <1>11 DEF first
  <2> QED
    BY <1>10, <1>11, <2>1
<1>12. CASE c.op # "export"
  <2>1. c.skip < first + i - 1 /\ first + i - 1 <= c.skip + c.limit
    BY <1>1, <1>9, <1>10, <1>12 DEF first, last
  <2> QED
    BY <1>10, <1>12, <2>1
<1> QED
  BY <1>11, <1>12

\* A request that has read its rows can convert them all.
HeldConvert ==
  \A l \in Listers : lpc[l] = "count" =>
    \A row \in ToSet(Shown(lcall[l], page[l])) : Presentable(row)

LEMMA HeldConvertKeeps ==
  ASSUME HeldConvert, ListInv, [ListNext]_lvars
  PROVE  HeldConvert'
<1>1. ASSUME NEW k \in Listers, NEW l \in Listers, k # l,
             lpc'[k] = lpc[k], lcall'[k] = lcall[k], page'[k] = page[k]
      PROVE  lpc'[k] = "count" =>
               \A row \in ToSet(Shown(lcall'[k], page'[k])) : Presentable(row)
  BY <1>1 DEF HeldConvert
<1>2. CASE UNCHANGED lists
  <2>1. lpc' = lpc /\ lcall' = lcall /\ page' = page
    BY <1>2 DEF lists
  <2> QED
    BY <2>1 DEF HeldConvert, Presentable, Shown
<1>3. ASSUME NEW l \in Listers, NEW response, Reply(l, response) PROVE HeldConvert'
  BY <1>1, <1>3 DEF Reply, HeldConvert, ListInv, ListShape, Presentable, Shown
<1>4. ASSUME NEW l \in Listers, NEW c \in Lists, BeginList(l, c) PROVE HeldConvert'
  <2>1. CASE \E response : Reply(l, response)
    BY <1>3, <2>1
  <2>2. CASE ~\E response : Reply(l, response)
    <3>1. /\ lpc' = [lpc EXCEPT ![l] = "rows"] /\ lcall' = [lcall EXCEPT ![l] = c]
          /\ page' = page
      BY <1>4, <2>2 DEF BeginList
    <3> QED
      BY <1>1, <3>1 DEF HeldConvert, ListInv, ListShape, Presentable, Shown
  <2> QED
    BY <2>1, <2>2
<1>5. ASSUME NEW l \in Listers, SelectRows(l) PROVE HeldConvert'
  <2>1. PICK p : Keep(l, p) \/ Reject(l, p)
    BY <1>5, SelectRowsCases
  <2>2. CASE Reject(l, p)
    BY <1>3, <2>2 DEF Reject
  <2>3. CASE Keep(l, p)
    <3>1. /\ lpc' = [lpc EXCEPT ![l] = "count"] /\ page' = [page EXCEPT ![l] = p]
          /\ lcall' = lcall
          /\ \A row \in ToSet(Shown(lcall[l], p)) : Presentable(row)
      BY <2>3 DEF Keep
    <3> QED
      BY <1>1, <3>1 DEF HeldConvert, ListInv, ListShape, Presentable, Shown
  <2> QED
    BY <2>1, <2>2, <2>3
<1> QED
  BY <1>2, <1>3, <1>4, <1>5 DEF ListNext, lvars, SelectCount, FaultList

\* An answer "invalid" is the step of a first SELECT.
LEMMA InvalidRejects ==
  ASSUME ListInv, [ListNext]_lvars, NEW l \in Listers,
         lpc[l] = "rows", lpc'[l] = "idle", listed'.status = "invalid"
  PROVE  \E s \in Orders(lcall[l], Filtered(lcall[l], ltier[l], rows)) :
           Reject(l, Slice(lcall[l], s))
<1>1. ASSUME UNCHANGED lists PROVE FALSE
  BY <1>1 DEF lists
<1>2. ASSUME NEW k \in Listers, NEW c \in Lists, BeginList(k, c) PROVE FALSE
  BY <1>2 DEF BeginList, Reply, ListInv, ListShape
<1>3. ASSUME NEW k \in Listers, FaultList(k) PROVE FALSE
  BY <1>3 DEF FaultList, Reply, NoAnswer
<1>4. ASSUME NEW k \in Listers, SelectCount(k) PROVE FALSE
  BY <1>4 DEF SelectCount, Reply
<1>5. ASSUME NEW k \in Listers, SelectRows(k) PROVE k = l
  <2>1. PICK p : Keep(k, p) \/ Reject(k, p)
    BY <1>5, SelectRowsCases
  <2>2. ASSUME k # l PROVE lpc'[l] = lpc[l]
    BY <2>1, <2>2 DEF Keep, Reject, Reply, ListInv, ListShape
  <2> QED
    BY <2>2
<1>6. SelectRows(l)
  BY <1>1, <1>2, <1>3, <1>4, <1>5 DEF ListNext, lvars
<1>7. ASSUME NEW p, Keep(l, p) PROVE FALSE
  BY <1>7 DEF Keep, ListInv, ListShape
<1> QED
  BY <1>6, <1>7, SelectRowsCases

\* A row without a slug fails only lists that would hold it, and no list holds it.
THEOREM OnlyHeldRowsFail == ListSpec => FailedListsHoldTheRow
<1> DEFINE Step ==
      \A l \in Listers :
        LET c == lcall[l]
            S == Filtered(c, ltier[l], rows)
            Holds(x) == IF c.op = "export" THEN Rank(c, S, x) <= ExportCap
                        ELSE c.skip < Rank(c, S, x) /\ Rank(c, S, x) <= c.skip + c.limit
        IN /\ Answers(l) => \A row \in ToSet(listed'.data) : Presentable(row)
           /\ lpc[l] = "rows" /\ lpc'[l] = "idle" /\ listed'.status = "invalid" =>
                \E row \in S : /\ ~Presentable(row) /\ IsVisible(c.user, row)
                               /\ c.sort = "id" => Holds(row)
<1>1. ASSUME ListInv, IndInv, HeldConvert, [ListNext]_lvars, NEW l \in Listers, Answers(l),
             NEW row \in ToSet(listed'.data)
      PROVE  Presentable(row)
  <2>1. lpc[l] = "count" /\ listed'.data = Shown(lcall[l], page[l])
    BY <1>1, AnswersCount DEF SelectCount, Reply
  <2> QED
    BY <1>1, <2>1 DEF HeldConvert
<1>2. ASSUME ListInv, IndInv, [ListNext]_lvars, NEW l \in Listers,
             lpc[l] = "rows", lpc'[l] = "idle", listed'.status = "invalid"
      PROVE  LET c == lcall[l]
                 S == Filtered(c, ltier[l], rows)
                 Holds(x) == IF c.op = "export" THEN Rank(c, S, x) <= ExportCap
                             ELSE c.skip < Rank(c, S, x) /\ Rank(c, S, x) <= c.skip + c.limit
             IN \E row \in S : /\ ~Presentable(row) /\ IsVisible(c.user, row)
                               /\ c.sort = "id" => Holds(row)
  <2> DEFINE c == lcall[l]
             S == Filtered(c, ltier[l], rows)
  <2>1. c \in Lists /\ Admits(ltier[l], "get")
    BY <1>2 DEF ListInv, PageOK
  <2>2. IsFiniteSet(S) /\ UniqueIds(S)
    <3>1. IsFiniteSet(rows) /\ S \in SUBSET rows
      BY <1>2, TablesAreFinite DEF IndInv, Filtered
    <3>2. UniqueIds(rows)
      BY <1>2, BoundAssumption DEF IndInv, TypeOK, Row, SlugsUnique, UniqueIds
    <3> QED
      BY <3>1, <3>2, FS_Subset DEF UniqueIds
  <2>3. \A x \in S : IsVisible(c.user, x)
    BY <2>1 DEF Filtered, Listable, InQuery, IsVisible, IsOwner, Admits
  <2>4. PICK s \in Orders(c, S) : \E x \in ToSet(Shown(c, Slice(c, s))) : ~Presentable(x)
    BY <1>2, InvalidRejects DEF Reject
  <2>5. PICK row \in ToSet(Shown(c, Slice(c, s))) : ~Presentable(row)
    BY <2>4
  <2> HIDE DEF c, S
  <2>6. s \in Seq(S)
    BY <2>2, OrderProperties
  <2>7. PICK i \in 1..Len(s) :
          /\ s[i] = row
          /\ c.op = "export" => i <= ExportCap
          /\ c.op # "export" => c.skip < i /\ i <= c.skip + c.limit
    BY <2>1, <2>5, <2>6, ShownPlaces
  <2>8. row \in S
    BY <2>6, <2>7, ElementOfSeq
  <2>9. c.sort = "id" => Rank(c, S, row) = i
    BY <2>2, <2>7, RankIsPlace
  <2>10. /\ ~Presentable(row) /\ IsVisible(c.user, row)
         /\ c.sort = "id" =>
              IF c.op = "export" THEN Rank(c, S, row) <= ExportCap
              ELSE c.skip < Rank(c, S, row) /\ Rank(c, S, row) <= c.skip + c.limit
    BY <2>3, <2>5, <2>7, <2>8, <2>9
  <2> QED
    BY <2>8, <2>10 DEF c, S
<1>3. ListInv /\ IndInv /\ HeldConvert /\ [ListNext]_lvars => [Step]_lvars
  <2> SUFFICES ASSUME ListInv, IndInv, HeldConvert, [ListNext]_lvars
               PROVE  Step
    OBVIOUS
  <2> QED
    BY <1>1, <1>2
<1>4. ListInit => HeldConvert
  BY DEF ListInit, HeldConvert
<1>5. HeldConvert /\ ListInv /\ [ListNext]_lvars => HeldConvert'
  BY HeldConvertKeeps
<1>6. ListSpec => [][Step]_lvars
  BY <1>3, <1>4, <1>5, ListInvariance, PTL DEF ListSpec
<1> QED
  BY <1>6 DEF FailedListsHoldTheRow

=============================================================================
