--------------------------- MODULE DashboardProofs ---------------------------
(***************************************************************************)
(* Theorems about Dashboard, for every instant the clock may show, every   *)
(* table and every number of rows.                                         *)
(***************************************************************************)
EXTENDS Dashboard, TLAPS, FiniteSetTheorems

\* A request in progress has the window of some month, and knows which rows were
\* there throughout and at some time.
RequestInv ==
  /\ IsFiniteSet(records) /\ IsFiniteSet(kept)
  /\ asked = Idle => counted = <<>>
  /\ asked # Idle => /\ \E u \in Instant : window = RangeActivity("month", u)
                     /\ kept \subseteq records /\ records \subseteq ever

DashInd == DashTypeOK /\ RequestInv /\ CountsAreOfTheRequest

-----------------------------------------------------------------------------
(* The calendar. *)

\* The fields of an instant.
LEMMA Fields ==
  ASSUME NEW t \in Instant
  PROVE  /\ t = <<t[1], t[2], t[3], t[4], t[5]>>
         /\ t[1] \in Nat /\ t[2] \in 1..12 /\ t[3] \in 1..31 /\ t[4] \in 0..23 /\ t[5] \in 0..59
         /\ t[3] <= DaysOf(t[1], t[2])
BY DEF Instant

\* Five fields that are an instant.
LEMMA MakeInstant ==
  ASSUME NEW y \in Nat, NEW m \in 1..12, NEW d \in 1..31, NEW h \in 0..23, NEW i \in 0..59,
         d <= DaysOf(y, m)
  PROVE  <<y, m, d, h, i>> \in Instant
BY DEF Instant

\* A month has 28 to 31 days.
LEMMA MonthLength ==
  ASSUME NEW y \in Nat, NEW m \in 1..12
  PROVE  DaysOf(y, m) \in 28..31 /\ (m = 12 => DaysOf(y, m) = 31)
BY DEF DaysOf

\* The order of instants, field by field.
LEMMA BeforeFields ==
  ASSUME NEW t \in Instant, NEW u \in Instant
  PROVE  Before(t, u) <=>
           \/ t[1] < u[1]
           \/ t[1] = u[1] /\ t[2] < u[2]
           \/ t[1] = u[1] /\ t[2] = u[2] /\ t[3] < u[3]
           \/ t[1] = u[1] /\ t[2] = u[2] /\ t[3] = u[3] /\ t[4] < u[4]
           \/ t[1] = u[1] /\ t[2] = u[2] /\ t[3] = u[3] /\ t[4] = u[4] /\ t[5] < u[5]
<1> DEFINE E(i) == t[i] < u[i] /\ \A j \in 1..(i - 1) : t[j] = u[j]
<1>1. Before(t, u) <=> E(1) \/ E(2) \/ E(3) \/ E(4) \/ E(5)
  BY DEF Before
<1>2. E(1) <=> t[1] < u[1]
  OBVIOUS
<1>3. E(2) <=> t[1] = u[1] /\ t[2] < u[2]
  OBVIOUS
<1>4. E(3) <=> t[1] = u[1] /\ t[2] = u[2] /\ t[3] < u[3]
  OBVIOUS
<1>5. E(4) <=> t[1] = u[1] /\ t[2] = u[2] /\ t[3] = u[3] /\ t[4] < u[4]
  OBVIOUS
<1>6. E(5) <=> t[1] = u[1] /\ t[2] = u[2] /\ t[3] = u[3] /\ t[4] = u[4] /\ t[5] < u[5]
  OBVIOUS
<1> HIDE DEF E
<1> QED
  BY <1>1, <1>2, <1>3, <1>4, <1>5, <1>6

\* Tomorrow at the same time.
LEMMA NextDayType ==
  ASSUME NEW t \in Instant
  PROVE  NextDay(t) \in Instant
<1> DEFINE y == t[1]
           m == t[2]
           d == t[3]
           h == t[4]
           i == t[5]
<1>1. y \in Nat /\ m \in 1..12 /\ d \in 1..31 /\ h \in 0..23 /\ i \in 0..59 /\ d <= DaysOf(y, m)
  BY Fields
<1>2. NextDay(t) = IF d < DaysOf(y, m) THEN <<y, m, d + 1, h, i>>
                   ELSE IF m < 12 THEN <<y, m + 1, 1, h, i>>
                   ELSE <<y + 1, 1, 1, h, i>>
  BY DEF NextDay
<1> HIDE DEF y, m, d, h, i
<1>3. DaysOf(y, m) \in 28..31
  BY <1>1, MonthLength
<1>4. CASE d < DaysOf(y, m)
  <2>1. d + 1 \in 1..31 /\ d + 1 <= DaysOf(y, m)
    BY <1>1, <1>3, <1>4
  <2> QED
    BY <1>1, <1>2, <1>4, <2>1, MakeInstant
<1>5. CASE ~(d < DaysOf(y, m)) /\ m < 12
  <2>1. m + 1 \in 1..12 /\ 1 \in 1..31
    BY <1>1, <1>5
  <2>2. 1 <= DaysOf(y, m + 1)
    BY <1>1, <2>1, MonthLength
  <2> QED
    BY <1>1, <1>2, <1>5, <2>1, <2>2, MakeInstant
<1>6. CASE ~(d < DaysOf(y, m)) /\ ~(m < 12)
  <2>1. y + 1 \in Nat /\ 1 \in 1..12 /\ 1 \in 1..31
    BY <1>1
  <2>2. 1 <= DaysOf(y + 1, 1)
    BY <2>1, MonthLength
  <2> QED
    BY <1>1, <1>2, <1>6, <2>1, <2>2, MakeInstant
<1> QED
  BY <1>4, <1>5, <1>6

\* In an hour.
LEMMA NextHourType ==
  ASSUME NEW t \in Instant
  PROVE  NextHour(t) \in Instant
<1>1. CASE t[4] < 23
  <2>1. t[4] + 1 \in 0..23
    BY <1>1, Fields
  <2> QED
    BY <1>1, <2>1, Fields, MakeInstant DEF NextHour
<1>2. CASE ~(t[4] < 23)
  <2>1. /\ t[1] \in Nat /\ t[2] \in 1..12 /\ t[3] \in 1..31 /\ 0 \in 0..23 /\ t[5] \in 0..59
        /\ t[3] <= DaysOf(t[1], t[2])
    BY Fields
  <2>2. <<t[1], t[2], t[3], 0, t[5]>> \in Instant
    BY <2>1, MakeInstant
  <2> QED
    BY <1>2, <2>2, NextDayType DEF NextHour
<1> QED
  BY <1>1, <1>2

\* Where a window starts.
LEMMA StartType ==
  ASSUME NEW t \in Instant, NEW range \in Ranges
  PROVE  StartOf(range, t) \in Instant
<1>1. /\ t[1] \in Nat /\ t[2] \in 1..12 /\ t[3] \in 1..31 /\ t[4] \in 0..23
      /\ t[3] <= DaysOf(t[1], t[2])
  BY Fields
<1>2. 0 \in 0..23 /\ 0 \in 0..59 /\ 1 \in 1..12 /\ 1 \in 1..31
  OBVIOUS
<1>3. 1 <= DaysOf(t[1], t[2]) /\ 1 <= DaysOf(t[1], 1)
  BY <1>1, <1>2, MonthLength
<1>4. <<t[1], t[2], t[3], t[4], 0>> \in Instant
  BY <1>1, <1>2, MakeInstant
<1>5. <<t[1], t[2], t[3], 0, 0>> \in Instant
  BY <1>1, <1>2, MakeInstant
<1>6. <<t[1], t[2], 1, 0, 0>> \in Instant
  BY <1>1, <1>2, <1>3, MakeInstant
<1>7. <<t[1], 1, 1, 0, 0>> \in Instant
  BY <1>1, <1>2, <1>3, MakeInstant
<1> QED
  BY <1>4, <1>5, <1>6, <1>7 DEF StartOf, Ranges

\* The month after that of y and m begins.
LEMMA NextMonth ==
  ASSUME NEW y \in Nat, NEW m \in 1..12
  PROVE  /\ m = 12 => <<y + 1, 1, 1, 0, 0>> \in Instant
         /\ m # 12 => <<y, m + 1, 1, 0, 0>> \in Instant
         /\ <<y + 1, 1, 1, 0, 0>> \in Instant
<1>1. y + 1 \in Nat /\ 0 \in 0..23 /\ 0 \in 0..59 /\ 1 \in 1..12 /\ 1 \in 1..31
      /\ (m # 12 => m + 1 \in 1..12)
  OBVIOUS
<1>2. 1 <= DaysOf(y + 1, 1) /\ (m # 12 => 1 <= DaysOf(y, m + 1))
  BY <1>1, MonthLength
<1> QED
  BY <1>1, <1>2, MakeInstant

\* Where it ends.
LEMMA EndType ==
  ASSUME NEW t \in Instant, NEW range \in Ranges
  PROVE  EndOf(range, StartOf(range, t)) \in Instant
<1>1. StartOf(range, t) \in Instant
  BY StartType
<1>2. t[1] \in Nat /\ t[2] \in 1..12
  BY Fields
<1>3. CASE range = "hour"
  BY <1>1, <1>3, NextHourType DEF EndOf
<1>4. CASE range = "day"
  BY <1>1, <1>4, NextDayType DEF EndOf
<1>5. CASE range = "month"
  <2>1. StartOf(range, t) = <<t[1], t[2], 1, 0, 0>>
    BY <1>5 DEF StartOf
  <2>2. EndOf(range, <<t[1], t[2], 1, 0, 0>>) =
          IF t[2] = 12 THEN <<t[1] + 1, 1, 1, 0, 0>> ELSE <<t[1], t[2] + 1, 1, 0, 0>>
    BY <1>5 DEF EndOf, FirstOfNextMonth
  <2> QED
    BY <1>2, <2>1, <2>2, NextMonth
<1>6. CASE range = "year"
  <2>1. StartOf(range, t) = <<t[1], 1, 1, 0, 0>>
    BY <1>6 DEF StartOf
  <2>2. EndOf(range, <<t[1], 1, 1, 0, 0>>) = <<t[1] + 1, 1, 1, 0, 0>>
    BY <1>6 DEF EndOf
  <2> QED
    BY <1>2, <2>1, <2>2, NextMonth
<1> QED
  BY <1>3, <1>4, <1>5, <1>6 DEF Ranges

-----------------------------------------------------------------------------
(* Windows. *)

LEMMA HourTiles ==
  ASSUME NEW t \in Instant, NEW u \in Instant
  PROVE  In(t, RangeActivity("hour", u)) <=> SamePeriod("hour", t, u)
<1> DEFINE s == StartOf("hour", u)
           e == EndOf("hour", s)
<1>1. s = <<u[1], u[2], u[3], u[4], 0>>
  BY DEF StartOf
<1>2. e = IF u[4] < 23 THEN <<u[1], u[2], u[3], u[4] + 1, 0>>
          ELSE IF u[3] < DaysOf(u[1], u[2]) THEN <<u[1], u[2], u[3] + 1, 0, 0>>
          ELSE IF u[2] < 12 THEN <<u[1], u[2] + 1, 1, 0, 0>>
          ELSE <<u[1] + 1, 1, 1, 0, 0>>
  BY <1>1 DEF EndOf, NextHour, NextDay
<1>3. s \in Instant /\ e \in Instant
  BY StartType, EndType DEF Ranges
<1>4. In(t, RangeActivity("hour", u)) <=> ~Before(t, s) /\ Before(t, e)
  BY DEF In, RangeActivity
<1>5. SamePeriod("hour", t, u) <=> t[1] = u[1] /\ t[2] = u[2] /\ t[3] = u[3] /\ t[4] = u[4]
  BY DEF SamePeriod, Depth
<1> HIDE DEF s, e
<1>6. /\ t[1] \in Nat /\ t[2] \in 1..12 /\ t[3] \in 1..31 /\ t[4] \in 0..23 /\ t[5] \in 0..59
      /\ t[3] <= DaysOf(t[1], t[2])
      /\ u[1] \in Nat /\ u[2] \in 1..12 /\ u[3] \in 1..31 /\ u[4] \in 0..23 /\ u[5] \in 0..59
      /\ u[3] <= DaysOf(u[1], u[2])
      /\ DaysOf(t[1], t[2]) \in 28..31 /\ DaysOf(u[1], u[2]) \in 28..31
  BY Fields, MonthLength
<1>7. /\ s[1] = u[1] /\ s[2] = u[2] /\ s[3] = u[3] /\ s[4] = u[4] /\ s[5] = 0
      /\ e[5] = 0
      /\ \/ u[4] < 23 /\ e[1] = u[1] /\ e[2] = u[2] /\ e[3] = u[3] /\ e[4] = u[4] + 1
         \/ /\ u[4] = 23 /\ u[3] < DaysOf(u[1], u[2])
            /\ e[1] = u[1] /\ e[2] = u[2] /\ e[3] = u[3] + 1 /\ e[4] = 0
         \/ /\ u[4] = 23 /\ u[3] = DaysOf(u[1], u[2]) /\ u[2] < 12
            /\ e[1] = u[1] /\ e[2] = u[2] + 1 /\ e[3] = 1 /\ e[4] = 0
         \/ /\ u[4] = 23 /\ u[3] = DaysOf(u[1], u[2]) /\ u[2] = 12
            /\ e[1] = u[1] + 1 /\ e[2] = 1 /\ e[3] = 1 /\ e[4] = 0
  BY <1>1, <1>2, <1>6
<1>8. t[1] = u[1] /\ t[2] = u[2] => DaysOf(t[1], t[2]) = DaysOf(u[1], u[2])
  OBVIOUS
<1> QED
  BY <1>3, <1>4, <1>5, <1>6, <1>7, <1>8, BeforeFields

LEMMA DayTiles ==
  ASSUME NEW t \in Instant, NEW u \in Instant
  PROVE  In(t, RangeActivity("day", u)) <=> SamePeriod("day", t, u)
<1> DEFINE s == StartOf("day", u)
           e == EndOf("day", s)
<1>1. s = <<u[1], u[2], u[3], 0, 0>>
  BY DEF StartOf
<1>2. e = IF u[3] < DaysOf(u[1], u[2]) THEN <<u[1], u[2], u[3] + 1, 0, 0>>
          ELSE IF u[2] < 12 THEN <<u[1], u[2] + 1, 1, 0, 0>>
          ELSE <<u[1] + 1, 1, 1, 0, 0>>
  BY <1>1 DEF EndOf, NextDay
<1>3. s \in Instant /\ e \in Instant
  BY StartType, EndType DEF Ranges
<1>4. In(t, RangeActivity("day", u)) <=> ~Before(t, s) /\ Before(t, e)
  BY DEF In, RangeActivity
<1>5. SamePeriod("day", t, u) <=> t[1] = u[1] /\ t[2] = u[2] /\ t[3] = u[3]
  BY DEF SamePeriod, Depth
<1> HIDE DEF s, e
<1>6. /\ t[1] \in Nat /\ t[2] \in 1..12 /\ t[3] \in 1..31 /\ t[4] \in 0..23 /\ t[5] \in 0..59
      /\ t[3] <= DaysOf(t[1], t[2])
      /\ u[1] \in Nat /\ u[2] \in 1..12 /\ u[3] \in 1..31 /\ u[3] <= DaysOf(u[1], u[2])
      /\ DaysOf(t[1], t[2]) \in 28..31 /\ DaysOf(u[1], u[2]) \in 28..31
  BY Fields, MonthLength
<1>7. /\ s[1] = u[1] /\ s[2] = u[2] /\ s[3] = u[3] /\ s[4] = 0 /\ s[5] = 0
      /\ e[4] = 0 /\ e[5] = 0
      /\ \/ /\ u[3] < DaysOf(u[1], u[2])
            /\ e[1] = u[1] /\ e[2] = u[2] /\ e[3] = u[3] + 1
         \/ /\ u[3] = DaysOf(u[1], u[2]) /\ u[2] < 12
            /\ e[1] = u[1] /\ e[2] = u[2] + 1 /\ e[3] = 1
         \/ /\ u[3] = DaysOf(u[1], u[2]) /\ u[2] = 12
            /\ e[1] = u[1] + 1 /\ e[2] = 1 /\ e[3] = 1
  BY <1>1, <1>2, <1>6
<1>8. t[1] = u[1] /\ t[2] = u[2] => DaysOf(t[1], t[2]) = DaysOf(u[1], u[2])
  OBVIOUS
<1> QED
  BY <1>3, <1>4, <1>5, <1>6, <1>7, <1>8, BeforeFields

LEMMA MonthTiles ==
  ASSUME NEW t \in Instant, NEW u \in Instant
  PROVE  In(t, RangeActivity("month", u)) <=> SamePeriod("month", t, u)
<1> DEFINE s == StartOf("month", u)
           e == EndOf("month", s)
<1>1. s = <<u[1], u[2], 1, 0, 0>>
  BY DEF StartOf
<1>2. e = IF u[2] = 12 THEN <<u[1] + 1, 1, 1, 0, 0>> ELSE <<u[1], u[2] + 1, 1, 0, 0>>
  BY <1>1 DEF EndOf, FirstOfNextMonth
<1>3. s \in Instant /\ e \in Instant
  BY StartType, EndType DEF Ranges
<1>4. In(t, RangeActivity("month", u)) <=> ~Before(t, s) /\ Before(t, e)
  BY DEF In, RangeActivity
<1>5. SamePeriod("month", t, u) <=> t[1] = u[1] /\ t[2] = u[2]
  BY DEF SamePeriod, Depth
<1> HIDE DEF s, e
<1>6. /\ t[1] \in Nat /\ t[2] \in 1..12 /\ t[3] \in 1..31 /\ t[4] \in 0..23 /\ t[5] \in 0..59
      /\ t[3] <= DaysOf(t[1], t[2])
      /\ u[1] \in Nat /\ u[2] \in 1..12 /\ u[3] \in 1..31 /\ u[3] <= DaysOf(u[1], u[2])
      /\ DaysOf(t[1], t[2]) \in 28..31 /\ DaysOf(u[1], u[2]) \in 28..31
  BY Fields, MonthLength
<1>7. /\ s[1] = u[1] /\ s[2] = u[2] /\ s[3] = 1 /\ s[4] = 0 /\ s[5] = 0
      /\ e[3] = 1 /\ e[4] = 0 /\ e[5] = 0
      /\ \/ u[2] # 12 /\ e[1] = u[1] /\ e[2] = u[2] + 1
         \/ u[2] = 12 /\ e[1] = u[1] + 1 /\ e[2] = 1
  BY <1>1, <1>2, <1>6
<1>8. t[1] = u[1] /\ t[2] = u[2] => DaysOf(t[1], t[2]) = DaysOf(u[1], u[2])
  OBVIOUS
<1> QED
  BY <1>3, <1>4, <1>5, <1>6, <1>7, <1>8, BeforeFields

LEMMA YearTiles ==
  ASSUME NEW t \in Instant, NEW u \in Instant
  PROVE  In(t, RangeActivity("year", u)) <=> SamePeriod("year", t, u)
<1> DEFINE s == StartOf("year", u)
           e == EndOf("year", s)
<1>1. s = <<u[1], 1, 1, 0, 0>>
  BY DEF StartOf
<1>2. e = <<u[1] + 1, 1, 1, 0, 0>>
  BY <1>1 DEF EndOf
<1>3. s \in Instant /\ e \in Instant
  BY StartType, EndType DEF Ranges
<1>4. In(t, RangeActivity("year", u)) <=> ~Before(t, s) /\ Before(t, e)
  BY DEF In, RangeActivity
<1>5. SamePeriod("year", t, u) <=> t[1] = u[1]
  BY DEF SamePeriod, Depth
<1> HIDE DEF s, e
<1>6. /\ t[1] \in Nat /\ t[2] \in 1..12 /\ t[3] \in 1..31 /\ t[4] \in 0..23 /\ t[5] \in 0..59
      /\ t[3] <= DaysOf(t[1], t[2])
      /\ u[1] \in Nat /\ u[2] \in 1..12 /\ u[3] \in 1..31 /\ u[3] <= DaysOf(u[1], u[2])
      /\ DaysOf(t[1], t[2]) \in 28..31 /\ DaysOf(u[1], u[2]) \in 28..31
  BY Fields, MonthLength
<1>7. /\ s[1] = u[1] /\ s[2] = 1 /\ s[3] = 1 /\ s[4] = 0 /\ s[5] = 0
      /\ e[1] = u[1] + 1 /\ e[2] = 1 /\ e[3] = 1 /\ e[4] = 0 /\ e[5] = 0
  BY <1>1, <1>2, <1>6
<1>8. t[1] = u[1] /\ t[2] = u[2] => DaysOf(t[1], t[2]) = DaysOf(u[1], u[2])
  OBVIOUS
<1> QED
  BY <1>3, <1>4, <1>5, <1>6, <1>7, <1>8, BeforeFields

\* Any instant is in the window of a range exactly when it shares its period with now.
LEMMA Tiles ==
  ASSUME NEW t \in Instant, NEW u \in Instant, NEW range \in Ranges
  PROVE  In(t, RangeActivity(range, u)) <=> SamePeriod(range, t, u)
BY HourTiles, DayTiles, MonthTiles, YearTiles DEF Ranges

-----------------------------------------------------------------------------
(* Counting. *)

\* The types of a row's fields.
LEMMA RowFields ==
  ASSUME NEW r \in Row
  PROVE  /\ r.id \in 1..MaxRows /\ r.model \in 1..Len(Models) /\ r.owner \in Owners
         /\ r.created \in Instant /\ r.updated \in Instant
BY DEF Row

Field == {"created", "updated"}

\* What a SELECT counts for a field of a table.
Hits(field, m) ==
  {r \in records : r.model = m /\ Mine(asked, r) /\ In(r[field], window)}

\* It counts the rows that are due, as many as they have ids.
LEMMA HitsAreDue ==
  ASSUME DashTypeOK, RequestInv, asked # Idle, NEW r \in Row, NEW field \in Field
  PROVE  Mine(asked, r) /\ In(r[field], window)
           <=> r.owner \in Scope(asked) /\ SamePeriod("month", r[field], window[1])
<1>1. PICK u \in Instant : window = RangeActivity("month", u)
  BY DEF RequestInv
<1>2. r[field] \in Instant /\ r.owner \in Owners
  BY RowFields DEF Field
<1>3. In(r[field], window) <=> SamePeriod("month", r[field], u)
  BY <1>1, <1>2, Tiles DEF Ranges
<1>4. window[1][1] = u[1] /\ window[1][2] = u[2]
  BY <1>1 DEF RangeActivity, StartOf
<1>5. SamePeriod("month", r[field], window[1]) <=> SamePeriod("month", r[field], u)
  BY <1>4 DEF SamePeriod, Depth
<1>6. Mine(asked, r) <=> r.owner \in Scope(asked)
  BY <1>2 DEF Mine, Scope
<1> QED
  BY <1>3, <1>5, <1>6

\* The ids that are due are finitely many.
LEMMA DueFinite ==
  ASSUME NEW rows \in SUBSET Row, NEW field, NEW m
  PROVE  IsFiniteSet(Due(field, m, rows))
<1>1. Due(field, m, rows) \subseteq 1..MaxRows
  BY RowFields DEF Due
<1>2. IsFiniteSet(1..MaxRows)
  BY FS_Interval, DashboardAssumption
<1> QED
  BY <1>1, <1>2, FS_Subset

\* More rows, more that are due.
LEMMA DueMonotonic ==
  ASSUME NEW more \in SUBSET Row, NEW fewer \in SUBSET more, NEW field, NEW m
  PROVE  /\ Cardinality(Due(field, m, fewer)) <= Cardinality(Due(field, m, more))
         /\ Cardinality(Due(field, m, fewer)) \in Nat /\ Cardinality(Due(field, m, more)) \in Nat
<1>1. Due(field, m, fewer) \subseteq Due(field, m, more)
  BY DEF Due
<1> QED
  BY <1>1, DueFinite, FS_Subset, FS_CardinalityType

\* What a SELECT counts lies between what is due of the rows that were there all
\* along and of those that were there at some time.
LEMMA HitsBetween ==
  ASSUME DashTypeOK, RequestInv, asked # Idle, NEW field \in Field, NEW m
  PROVE  Cardinality(Hits(field, m)) \in Nat /\ Between(Cardinality(Hits(field, m)), field, m)
<1> DEFINE H == Hits(field, m)
           Early == {r \in H : r \in kept}
           f == [r \in Early |-> r.id]
           g == [r \in H |-> r.id]
<1>1. records \subseteq Row /\ kept \subseteq records /\ records \subseteq ever /\ ever \subseteq Row
      /\ IsFiniteSet(records) /\ \A r, s \in records : r.id = s.id => r = s
  BY DEF DashTypeOK, RequestInv
<1>2. \A r \in records : r \in H <=>
        r.model = m /\ r.owner \in Scope(asked) /\ SamePeriod("month", r[field], window[1])
  BY <1>1, HitsAreDue DEF Hits
<1>3. H \subseteq records /\ IsFiniteSet(H) /\ Cardinality(H) \in Nat
  BY <1>1, FS_Subset, FS_CardinalityType DEF Hits
<1>4. Cardinality(Due(field, m, kept)) <= Cardinality(H)
  <2>1. Early \subseteq H /\ IsFiniteSet(Early) /\ Cardinality(Early) <= Cardinality(H)
        /\ Cardinality(Early) \in Nat
    BY <1>3, FS_Subset, FS_CardinalityType
  <2>2. Due(field, m, kept) = {r.id : r \in Early}
    BY <1>1, <1>2 DEF Due
  <2> HIDE DEF H, Early
  <2>3. f \in Surjection(Early, Due(field, m, kept))
    BY <2>2 DEF Surjection
  <2> HIDE DEF f
  <2>4. Cardinality(Due(field, m, kept)) <= Cardinality(Early)
    BY <2>1, <2>3, FS_Surjection
  <2>5. Cardinality(Due(field, m, kept)) \in Nat
    BY <1>1, DueFinite, FS_CardinalityType
  <2> QED
    BY <1>3, <2>1, <2>4, <2>5
<1>5. Cardinality(H) <= Cardinality(Due(field, m, ever))
  <2>1. \A r \in H : r.id \in Due(field, m, ever)
    BY <1>1, <1>2, <1>3 DEF Due
  <2>2. \A r, s \in H : r.id = s.id => r = s
    BY <1>1, <1>3
  <2> HIDE DEF H
  <2>3. g \in Injection(H, Due(field, m, ever))
    BY <2>1, <2>2 DEF Injection, IsInjective
  <2>4. IsFiniteSet(Due(field, m, ever))
    BY <1>1, DueFinite
  <2> QED
    BY <2>3, <2>4, FS_Injection
<1> QED
  BY <1>3, <1>4, <1>5 DEF Between

-----------------------------------------------------------------------------
(* The invariant. *)

LEMMA InitInv == DashInit => DashInd
<1> SUFFICES ASSUME DashInit
             PROVE  DashInd
  OBVIOUS
<1>1. now \in Instant /\ ticks \in 0..MaxTicks /\ nextRow \in 1..(MaxRows + 1)
  BY DashboardAssumption DEF DashInit
<1>2. counted = <<>> /\ counted \in Seq(Counts) /\ Len(counted) = 0 /\ activity.counts \in Seq(Counts)
  BY DEF DashInit, NoCounts
<1>3. Len(counted) <= Len(Models)
  BY <1>2, DashboardAssumption
<1>4. DashTypeOK
  BY <1>1, <1>2, <1>3 DEF DashInit, DashTypeOK
<1>5. RequestInv
  BY FS_EmptySet DEF DashInit, RequestInv
<1>6. CountsAreOfTheRequest
  BY <1>2 DEF CountsAreOfTheRequest
<1> QED
  BY <1>4, <1>5, <1>6 DEF DashInd

\* Rows are written: kept rows become fewer, rows that were there more.
LEMMA WriteInv ==
  ASSUME DashInd, NEW rows \in SUBSET Row, Written(rows), IsFiniteSet(rows),
         \A r, s \in rows : r.id = s.id => r = s,
         nextRow' \in 1..(MaxRows + 1), \A r \in rows : r.id < nextRow'
  PROVE  DashInd'
<1>1. /\ records' = rows /\ kept' = kept \cap rows
      /\ ever' = (IF asked = Idle THEN {} ELSE ever \cup rows)
      /\ UNCHANGED <<now, ticks, asked, window, counted, activity>>
  BY DEF Written, request
<1>2. DashTypeOK'
  BY <1>1 DEF DashInd, DashTypeOK
<1>3. RequestInv'
  <2>1. IsFiniteSet(kept')
    BY <1>1, FS_Subset DEF DashInd, RequestInv
  <2>2. asked # Idle => kept' \subseteq records' /\ records' \subseteq ever'
    BY <1>1
  <2> QED
    BY <1>1, <2>1, <2>2 DEF DashInd, RequestInv
<1>4. CountsAreOfTheRequest'
  <2> SUFFICES ASSUME NEW m \in 1..Len(counted)
               PROVE  (/\ Between(counted[m].updated, "updated", m)
                       /\ Between(counted[m].added, "created", m))'
    BY <1>1 DEF CountsAreOfTheRequest
  <2>1. asked # Idle
    BY DEF DashInd, RequestInv
  <2>2. \A field, rs : Due(field, m, rs)' = Due(field, m, rs')
    BY <1>1 DEF Due
  <2>3. counted[m] \in Counts
    BY DEF DashInd, DashTypeOK
  <2>4. kept' \in SUBSET kept /\ ever \in SUBSET ever' /\ kept \in SUBSET Row /\ ever' \in SUBSET Row
    BY <1>1, <2>1 DEF DashInd, DashTypeOK
  <2>5. \A field :
          /\ Cardinality(Due(field, m, kept)') <= Cardinality(Due(field, m, kept))
          /\ Cardinality(Due(field, m, ever)) <= Cardinality(Due(field, m, ever)')
          /\ Cardinality(Due(field, m, kept)) \in Nat /\ Cardinality(Due(field, m, ever)) \in Nat
          /\ Cardinality(Due(field, m, kept)') \in Nat /\ Cardinality(Due(field, m, ever)') \in Nat
    BY <2>2, <2>4, DueMonotonic
  <2>6. /\ Between(counted[m].updated, "updated", m)
        /\ Between(counted[m].added, "created", m)
    BY DEF DashInd, CountsAreOfTheRequest
  <2>7. counted' = counted
    BY <1>1
  <2> QED
    BY <2>3, <2>5, <2>6, <2>7 DEF Between, Counts
<1> QED
  BY <1>2, <1>3, <1>4 DEF DashInd

\* While rows, request and histories stay, so do the counts' bounds.
LEMMA CountsStay ==
  CountsAreOfTheRequest /\ UNCHANGED <<asked, window, counted, kept, ever>> => CountsAreOfTheRequest'
<1> SUFFICES ASSUME CountsAreOfTheRequest, UNCHANGED <<asked, window, counted, kept, ever>>
             PROVE  CountsAreOfTheRequest'
  OBVIOUS
<1>1. \A field, m : /\ Due(field, m, kept)' = Due(field, m, kept)
                    /\ Due(field, m, ever)' = Due(field, m, ever)
  BY DEF Due, Scope
<1>2. \A m : counted'[m] = counted[m]
  OBVIOUS
<1> QED
  BY <1>1, <1>2 DEF CountsAreOfTheRequest, Between

LEMMA TickInv == DashInd /\ Tick => DashInd'
<1> SUFFICES ASSUME DashInd, Tick
             PROVE  DashInd'
  OBVIOUS
<1>1. ticks' \in 0..MaxTicks
  BY DashboardAssumption DEF Tick, DashInd, DashTypeOK
<1>2. now' \in Instant
  <2>1. /\ now \in Instant
        /\ now[1] \in Nat /\ now[2] \in 1..12 /\ now[3] \in 1..31 /\ now[4] \in 0..23
        /\ now[3] <= DaysOf(now[1], now[2])
    BY Fields DEF DashInd, DashTypeOK
  <2>2. 30 \in 0..59 /\ 0 \in 0..59
    OBVIOUS
  <2>3. /\ <<now[1], now[2], now[3], now[4], 30>> \in Instant
        /\ <<now[1], now[2], now[3], now[4], 0>> \in Instant
    BY <2>1, <2>2, MakeInstant
  <2> QED
    BY <2>3, NextHourType DEF Tick
<1>3. UNCHANGED <<records, nextRow, asked, window, counted, activity, kept, ever>>
  BY DEF Tick, request
<1>4. DashTypeOK'
  BY <1>1, <1>2, <1>3 DEF DashInd, DashTypeOK
<1>5. RequestInv'
  BY <1>3 DEF DashInd, RequestInv
<1> QED
  BY <1>3, <1>4, <1>5, CountsStay DEF DashInd

LEMMA AddInv == DashInd /\ Add => DashInd'
<1> SUFFICES ASSUME DashInd, Add
             PROVE  DashInd'
  OBVIOUS
<1>1. PICK m \in 1..Len(Models), u \in Owners :
        Written(records \cup
          {[id |-> nextRow, model |-> m, owner |-> u, created |-> now, updated |-> now]})
  BY DEF Add
<1> DEFINE row == [id |-> nextRow, model |-> m, owner |-> u, created |-> now, updated |-> now]
<1>2. nextRow \in 1..MaxRows /\ nextRow' = nextRow + 1 /\ nextRow' \in 1..(MaxRows + 1)
  BY DashboardAssumption DEF Add, DashInd, DashTypeOK
<1>3. row \in Row /\ row.id = nextRow
  BY <1>2 DEF DashInd, DashTypeOK, Row
<1>4. /\ records \subseteq Row /\ \A r \in records : r.id < nextRow /\ r.id \in Nat
      /\ \A r, s \in records : r.id = s.id => r = s
  BY RowFields DEF DashInd, DashTypeOK
<1> HIDE DEF row
<1>5. IsFiniteSet(records \cup {row})
  BY FS_AddElement DEF DashInd, RequestInv
<1>6. \A r \in records \cup {row} : r.id < nextRow'
  BY <1>2, <1>3, <1>4
<1>7. \A r, s \in records \cup {row} : r.id = s.id => r = s
  BY <1>2, <1>3, <1>4
<1>8. Written(records \cup {row}) /\ records \cup {row} \in SUBSET Row
  BY <1>1, <1>3, <1>4 DEF row
<1> QED
  BY <1>2, <1>5, <1>6, <1>7, <1>8, WriteInv

LEMMA TouchInv == DashInd /\ Touch => DashInd'
<1> SUFFICES ASSUME DashInd, Touch
             PROVE  DashInd'
  OBVIOUS
<1>1. PICK r \in records : Written((records \ {r}) \cup {[r EXCEPT !.updated = now]})
  BY DEF Touch
<1> DEFINE row == [r EXCEPT !.updated = now]
           rows == (records \ {r}) \cup {row}
<1>2. /\ records \subseteq Row /\ \A s \in records : s.id < nextRow
      /\ \A s, v \in records : s.id = v.id => s = v
      /\ now \in Instant /\ nextRow' = nextRow /\ nextRow \in 1..(MaxRows + 1)
  BY DEF DashInd, DashTypeOK, Touch
<1>3. row \in Row /\ row.id = r.id
  BY <1>2 DEF Row
<1> HIDE DEF row
<1>4. IsFiniteSet(rows)
  <2>1. IsFiniteSet(records \ {r})
    BY FS_Difference DEF DashInd, RequestInv
  <2> QED
    BY <2>1, FS_AddElement
<1>5. rows \in SUBSET Row /\ \A s \in rows : s.id < nextRow'
  BY <1>2, <1>3
<1>6. \A s, v \in rows : s.id = v.id => s = v
  BY <1>2, <1>3
<1>7. Written(rows)
  BY <1>1 DEF row
<1> HIDE DEF rows
<1> QED
  BY <1>2, <1>4, <1>5, <1>6, <1>7, WriteInv

LEMMA DeleteInv == DashInd /\ Delete => DashInd'
<1> SUFFICES ASSUME DashInd, Delete
             PROVE  DashInd'
  OBVIOUS
<1>1. PICK r \in records : Written(records \ {r})
  BY DEF Delete
<1>2. IsFiniteSet(records \ {r})
  BY FS_Difference DEF DashInd, RequestInv
<1>3. /\ records \ {r} \in SUBSET Row /\ \A s \in records \ {r} : s.id < nextRow'
      /\ \A s, v \in records \ {r} : s.id = v.id => s = v
      /\ nextRow' \in 1..(MaxRows + 1)
  BY DEF DashInd, DashTypeOK, Delete
<1> QED
  BY <1>1, <1>2, <1>3, WriteInv

LEMMA AskInv == DashInd /\ Ask => DashInd'
<1> SUFFICES ASSUME DashInd, Ask
             PROVE  DashInd'
  OBVIOUS
<1>1. PICK u \in Owners, c \in BOOLEAN : asked' = [user |-> u, current |-> c]
  BY DEF Ask
<1>2. /\ asked = Idle /\ window' = RangeActivity("month", now) /\ activity' = NoCounts
      /\ kept' = records /\ ever' = records
      /\ UNCHANGED <<now, ticks, records, nextRow, counted>>
  BY DEF Ask
<1>3. counted = <<>> /\ now \in Instant
  BY <1>2 DEF DashInd, RequestInv, DashTypeOK
<1>4. window' \in Instant \X Instant
  BY <1>2, <1>3, StartType, EndType DEF RangeActivity, Ranges
<1>5. DashTypeOK'
  BY <1>1, <1>2, <1>4 DEF DashInd, DashTypeOK, NoCounts
<1>6. RequestInv'
  BY <1>2, <1>3 DEF DashInd, RequestInv
<1>7. CountsAreOfTheRequest'
  BY <1>2, <1>3 DEF CountsAreOfTheRequest
<1> QED
  BY <1>5, <1>6, <1>7 DEF DashInd

LEMMA CountModelInv == DashInd /\ CountModel => DashInd'
<1> SUFFICES ASSUME DashInd, CountModel
             PROVE  DashInd'
  OBVIOUS
<1> DEFINE m == Len(counted) + 1
           c == [updated |-> Cardinality(Hits("updated", m)),
                 added |-> Cardinality(Hits("created", m))]
<1>1. /\ asked # Idle /\ Len(counted) < Len(Models)
      /\ UNCHANGED <<now, ticks, records, nextRow, asked, window, activity, kept, ever>>
      /\ counted \in Seq(Counts) /\ Len(Models) \in Nat
  BY DashboardAssumption DEF CountModel, DashInd, DashTypeOK
<1>2. Count(m, records, window, asked) = c
  <2>1. \A field : {r \in {s \in records : s.model = m /\ Mine(asked, s)} : In(r[field], window)}
                    = Hits(field, m)
    BY DEF Hits
  <2> QED
    BY <2>1 DEF Count
<1>3. counted' = Append(counted, c)
  BY <1>2 DEF CountModel
<1>4. /\ Cardinality(Hits("updated", m)) \in Nat
      /\ Between(Cardinality(Hits("updated", m)), "updated", m)
      /\ Cardinality(Hits("created", m)) \in Nat
      /\ Between(Cardinality(Hits("created", m)), "created", m)
  BY <1>1, HitsBetween DEF DashInd, Field
<1>5. c \in Counts
  BY <1>4 DEF Counts
<1>6. c.updated = Cardinality(Hits("updated", m)) /\ c.added = Cardinality(Hits("created", m))
  OBVIOUS
<1> HIDE DEF c
<1>7. /\ counted' \in Seq(Counts) /\ Len(counted') = m /\ counted'[m] = c
      /\ \A k \in 1..Len(counted) : counted'[k] = counted[k]
      /\ Len(counted') <= Len(Models)
  BY <1>1, <1>3, <1>5
<1>8. DashTypeOK'
  BY <1>1, <1>7 DEF DashInd, DashTypeOK
<1>9. RequestInv'
  BY <1>1 DEF DashInd, RequestInv
<1>10. CountsAreOfTheRequest'
  <2>1. \A field, k : /\ Due(field, k, kept)' = Due(field, k, kept)
                      /\ Due(field, k, ever)' = Due(field, k, ever)
    BY <1>1 DEF Due, Scope
  <2> SUFFICES ASSUME NEW k \in 1..Len(counted')
               PROVE  (/\ Between(counted[k].updated, "updated", k)
                       /\ Between(counted[k].added, "created", k))'
    BY DEF CountsAreOfTheRequest
  <2>2. /\ Between(counted'[k].updated, "updated", k)
        /\ Between(counted'[k].added, "created", k)
    <3>1. CASE k = m
      BY <1>4, <1>6, <1>7, <3>1
    <3>2. CASE k # m
      <4>1. k \in 1..Len(counted) /\ counted'[k] = counted[k]
        BY <1>1, <1>7, <3>2
      <4> QED
        BY <4>1 DEF DashInd, CountsAreOfTheRequest
    <3> QED
      BY <3>1, <3>2
  <2> QED
    BY <2>1, <2>2 DEF Between
<1> QED
  BY <1>8, <1>9, <1>10 DEF DashInd

LEMMA RespondInv ==
  ASSUME DashInd, NEW a, a.counts \in Seq(Counts), Respond(a)
  PROVE  DashInd'
<1>1. /\ activity' = a /\ asked' = Idle /\ window' = NoWindow /\ counted' = <<>>
      /\ kept' = {} /\ ever' = {} /\ UNCHANGED <<now, ticks, records, nextRow>>
  BY DEF Respond
<1>2. counted' \in Seq(Counts) /\ Len(counted') = 0 /\ Len(Models) \in Nat
  BY <1>1, DashboardAssumption
<1>3. DashTypeOK'
  BY <1>1, <1>2 DEF DashInd, DashTypeOK
<1>4. RequestInv'
  BY <1>1, FS_EmptySet DEF DashInd, RequestInv
<1>5. CountsAreOfTheRequest'
  BY <1>2 DEF CountsAreOfTheRequest
<1> QED
  BY <1>3, <1>4, <1>5 DEF DashInd

THEOREM DashInvariance == DashSpec => []DashInd
<1>1. DashInd /\ Answer => DashInd'
  BY RespondInv DEF Answer, DashInd, DashTypeOK
<1>2. DashInd /\ Fail => DashInd'
  <2>1. NoCounts.counts \in Seq(Counts)
    BY DEF NoCounts
  <2> QED
    BY <2>1, RespondInv DEF Fail
<1>3. DashInd /\ UNCHANGED dashVars => DashInd'
  BY CountsStay DEF DashInd, DashTypeOK, RequestInv, dashVars
<1>4. DashInd /\ [DashNext]_dashVars => DashInd'
  BY <1>1, <1>2, <1>3, TickInv, AddInv, TouchInv, DeleteInv, AskInv, CountModelInv DEF DashNext
<1> QED
  BY <1>4, InitInv, PTL DEF DashSpec

\* Every variable keeps its type.
THEOREM DashTypeCorrect == DashSpec => []DashTypeOK
BY DashInvariance, PTL DEF DashInd

\* Whatever the clock says, the windows have no gap and no overlap.
THEOREM WindowsAlwaysTile == DashSpec => []WindowsTile
<1>1. DashInd => WindowsTile
  BY Tiles, DashboardAssumption DEF DashInd, DashTypeOK, WindowsTile
<1> QED
  BY <1>1, DashInvariance, PTL

\* Every count is of the month in which the request began, and of rows that were there.
THEOREM CountsOfTheRequest == DashSpec => []CountsAreOfTheRequest
BY DashInvariance, PTL DEF DashInd

=============================================================================
