------------------------------ MODULE Dashboard ------------------------------
(***************************************************************************)
(* The activity dashboard: controllers/dashboard.py counts, table by       *)
(* table, the rows added and updated in a window of the calendar around    *)
(* now.  The window is computed once; then each table is counted by a      *)
(* SELECT of its own while others write and time goes on.                  *)
(***************************************************************************)
EXTENDS Integers, Sequences, FiniteSets

CONSTANTS
  Models,      \* the tables, in the order in which they are counted
  Owners,      \* admins who own rows
  Admins,      \* those with is_superuser set
  Starts,      \* instants at which the clock may start
  Samples,     \* instants at which the windows are compared
  MaxTicks,    \* bound: how often the clock moves on
  MaxRows      \* bound: how many rows are ever created

VARIABLES
  now,       \* datetime.now(timezone.utc)
  ticks,     \* how often the clock has moved
  records,   \* rows of all tables
  nextRow,   \* how many rows were created, plus one
  asked,     \* the request in progress
  window,    \* the window it computed
  counted,   \* the tables it has counted
  activity,  \* the last answer
  kept,      \* history: versions of rows that existed throughout the request
  ever       \* history: versions of rows that existed at some time during it

dashVars ==
  <<now, ticks, records, nextRow, asked, window, counted, activity, kept, ever>>

-----------------------------------------------------------------------------
(* The calendar: an instant is <<year, month, day, hour, minute>>.          *)

Leap(y) == y % 4 = 0 /\ (y % 100 # 0 \/ y % 400 = 0)

DaysOf(y, m) ==
  CASE m = 2 -> IF Leap(y) THEN 29 ELSE 28
    [] m \in {4, 6, 9, 11} -> 30
    [] OTHER -> 31

Instant ==
  {t \in Nat \X (1..12) \X (1..31) \X (0..23) \X (0..59) : t[3] <= DaysOf(t[1], t[2])}

ASSUME DashboardAssumption ==
  /\ Starts \subseteq Instant /\ Samples \subseteq Instant
  /\ Models \in Seq(STRING) /\ "nobody" \notin Owners
  /\ MaxTicks \in Nat /\ MaxRows \in Nat

\* t is earlier than u.
Before(t, u) ==
  \E i \in 1..5 : t[i] < u[i] /\ \A j \in 1..(i - 1) : t[j] = u[j]

\* start + timedelta(days=1), and start + timedelta(hours=1).
NextDay(t) ==
  IF t[3] < DaysOf(t[1], t[2]) THEN <<t[1], t[2], t[3] + 1, t[4], t[5]>>
  ELSE IF t[2] < 12 THEN <<t[1], t[2] + 1, 1, t[4], t[5]>>
  ELSE <<t[1] + 1, 1, 1, t[4], t[5]>>
NextHour(t) ==
  IF t[4] < 23 THEN <<t[1], t[2], t[3], t[4] + 1, t[5]>>
  ELSE NextDay(<<t[1], t[2], t[3], 0, t[5]>>)

Ranges == {"hour", "day", "month", "year"}

\* now.replace(...) with everything below the range at its least.
StartOf(range, t) ==
  CASE range = "hour"  -> <<t[1], t[2], t[3], t[4], 0>>
    [] range = "day"   -> <<t[1], t[2], t[3], 0, 0>>
    [] range = "month" -> <<t[1], t[2], 1, 0, 0>>
    [] range = "year"  -> <<t[1], 1, 1, 0, 0>>

\* Mutant of FirstOfNextMonth: January after December is that of the same year.
MonthOfSameYear(s) == <<s[1], (s[2] % 12) + 1, s[3], s[4], s[5]>>

FirstOfNextMonth(s) ==
  IF s[2] = 12 THEN <<s[1] + 1, 1, s[3], s[4], s[5]>>
  ELSE <<s[1], s[2] + 1, s[3], s[4], s[5]>>

EndOf(range, s) ==
  CASE range = "hour"  -> NextHour(s)
    [] range = "day"   -> NextDay(s)
    [] range = "month" -> FirstOfNextMonth(s)
    [] range = "year"  -> <<s[1] + 1, s[2], s[3], s[4], s[5]>>

\* get_range_activity.
RangeActivity(range, t) == <<StartOf(range, t), EndOf(range, StartOf(range, t))>>

\* Mutant of In: the end belongs to the window.
InClosed(t, w) == ~Before(t, w[1]) /\ ~Before(w[2], t)

In(t, w) == ~Before(t, w[1]) /\ Before(t, w[2])

-----------------------------------------------------------------------------
(* Requests, writes and the clock. *)

Idle == [user |-> "nobody", current |-> FALSE]
NoWindow == <<>>
NoCounts == [min |-> 0, max |-> 0, counts |-> <<>>]

DashInit ==
  /\ now \in Starts /\ ticks = 0
  /\ records = {} /\ nextRow = 1
  /\ asked = Idle /\ window = NoWindow /\ counted = <<>>
  /\ activity = NoCounts
  /\ kept = {} /\ ever = {}

request == <<asked, window, counted, activity>>

Tick ==
  /\ ticks < MaxTicks
  /\ ticks' = ticks + 1
  /\ now' = IF now[5] = 0 THEN <<now[1], now[2], now[3], now[4], 30>>
            ELSE NextHour(<<now[1], now[2], now[3], now[4], 0>>)
  /\ UNCHANGED <<records, nextRow, request, kept, ever>>

\* A write of the Catalog: the tables keep created_at and updated_at.
Written(rows) ==
  /\ records' = rows
  /\ kept' = kept \cap rows
  /\ ever' = IF asked = Idle THEN {} ELSE ever \cup rows
  /\ UNCHANGED <<now, ticks, request>>

Add ==
  /\ nextRow <= MaxRows
  /\ nextRow' = nextRow + 1
  /\ \E m \in 1..Len(Models), u \in Owners :
       Written(records \cup
         {[id |-> nextRow, model |-> m, owner |-> u, created |-> now, updated |-> now]})

Touch ==
  /\ \E r \in records :
       r.updated # now /\ Written((records \ {r}) \cup {[r EXCEPT !.updated = now]})
  /\ UNCHANGED nextRow

Delete ==
  /\ \E r \in records : Written(records \ {r})
  /\ UNCHANGED nextRow

\* The route: an admin asks for the month, of everybody or "current".
Ask ==
  /\ asked = Idle
  /\ \E u \in Owners, c \in BOOLEAN : asked' = [user |-> u, current |-> c]
  /\ window' = RangeActivity("month", now)
  /\ activity' = NoCounts
  /\ kept' = records /\ ever' = records
  /\ UNCHANGED <<now, ticks, records, nextRow, counted>>

\* Mutant of Mine: the two conditions are joined with AND.
MineOnlyIfBoth(a, r) == (a.user \notin Admins /\ a.current) => r.owner = a.user

Mine(a, r) == (a.user \notin Admins \/ a.current) => r.owner = a.user

\* SELECT sum(case ...), sum(case ...) of one table.
Count(m, rows, w, a) ==
  LET mine == {r \in rows : r.model = m /\ Mine(a, r)}
  IN [updated |-> Cardinality({r \in mine : In(r.updated, w)}),
      added   |-> Cardinality({r \in mine : In(r.created, w)})]

CountModel ==
  /\ asked # Idle /\ Len(counted) < Len(Models)
  /\ counted' = Append(counted, Count(Len(counted) + 1, records, window, asked))
  /\ UNCHANGED <<now, ticks, records, nextRow, asked, window, activity, kept, ever>>

Numbers(counts) ==
  {0} \cup UNION {{counts[i].updated, counts[i].added} : i \in 1..Len(counts)}

\* max starts at 0 and takes in every count, as min does: which stays 0.
Extreme(counts) == CHOOSE n \in Numbers(counts) : \A k \in Numbers(counts) : k <= n

Respond(a) ==
  /\ activity' = a
  /\ asked' = Idle /\ window' = NoWindow /\ counted' = <<>>
  /\ kept' = {} /\ ever' = {}
  /\ UNCHANGED <<now, ticks, records, nextRow>>

Answer ==
  /\ asked # Idle /\ Len(counted) = Len(Models)
  /\ Respond([min |-> 0, max |-> Extreme(counted), counts |-> counted])

\* handle_exception: the client gets no counts.
Fail ==
  /\ asked # Idle
  /\ Respond(NoCounts)

DashNext ==
  \/ Tick \/ Add \/ Touch \/ Delete
  \/ Ask \/ CountModel \/ Answer \/ Fail

DashSpec == DashInit /\ [][DashNext]_dashVars

-----------------------------------------------------------------------------
(* Properties. *)

Row == [id : 1..MaxRows, model : 1..Len(Models), owner : Owners,
        created : Instant, updated : Instant]
Counts == [updated : Nat, added : Nat]

\* The types; a window ends after it starts, and rows have distinct ids.
DashTypeOK ==
  /\ now \in Instant /\ ticks \in 0..MaxTicks
  /\ records \subseteq Row /\ nextRow \in 1..(MaxRows + 1)
  /\ \A r \in records : r.id < nextRow
  /\ \A r, s \in records : r.id = s.id => r = s
  /\ asked \in [user : Owners, current : BOOLEAN] \cup {Idle}
  /\ window \in Instant \X Instant \cup {NoWindow}
  /\ counted \in Seq(Counts) /\ Len(counted) <= Len(Models)
  /\ activity.counts \in Seq(Counts)
  /\ kept \subseteq Row /\ ever \subseteq Row

\* t and u fall into the same hour, day, month or year.
Depth == [hour |-> 4, day |-> 3, month |-> 2, year |-> 1]
SamePeriod(range, t, u) == \A i \in 1..Depth[range] : t[i] = u[i]

\* Whatever the clock says, the window of a range holds exactly the instants that
\* share its hour, day, month or year: the windows computed by replacing fields and
\* adding a timedelta have no gap and no overlap, in December and in leap years.
WindowsTile ==
  \A range \in Ranges, t \in Samples :
    In(t, RangeActivity(range, now)) <=> SamePeriod(range, t, now)

\* Whose rows a request is about: everybody's only for an admin with is_superuser
\* who did not ask for "current".
Scope(a) == IF a.user \in Admins /\ ~a.current THEN Owners ELSE {a.user}

\* The rows of table m in rows whose field is in the month in which the request began.
Due(field, m, rows) ==
  {r.id : r \in {s \in rows : s.model = m /\ s.owner \in Scope(asked)
                              /\ SamePeriod("month", s[field], window[1])}}

Between(n, field, m) ==
  Cardinality(Due(field, m, kept)) <= n /\ n <= Cardinality(Due(field, m, ever))

\* The tables are counted one after the other while others write and the month may
\* end: every count is of the month in which the request began, at least the rows that were
\* there all along and at most those that were there at some time; a request
\* during which nothing is written counts exactly.
CountsAreOfTheRequest ==
  \A m \in 1..Len(counted) :
    Between(counted[m].updated, "updated", m) /\ Between(counted[m].added, "created", m)

=============================================================================
