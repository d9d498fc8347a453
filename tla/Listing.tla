------------------------------ MODULE Listing -------------------------------
(***************************************************************************)
(* The list and export routes, next to the writes of Catalog.  Both build  *)
(* one set of predicates (search, facets, visibility) and use it in two    *)
(* SELECTs: the rows, then their count.  Each SELECT sees what is          *)
(* committed when it starts, and without a total ORDER BY the database     *)
(* may return rows in any order.  The rows are converted before they are   *)
(* counted, and one row that does not convert fails the request.           *)
(***************************************************************************)
EXTENDS Catalog, SequencesExt

CONSTANTS
  Listers,    \* worker threads that serve list requests
  Lists,      \* the list calls clients may make
  NoList,     \* what an idle lister is asked
  NoTerm,     \* a blank q
  Found,      \* the texts that contain each search term
  ExportCap   \* MAX_EXPORT_SIZE

Facets == {"public", "private"}

\* column is csrc, "any" when it is left out; facets is f, and may hold a value
\* that is not declared; sort stands for the sort columns that are unique (id),
\* for those that are not (public), and for none.  An export has no skip or limit.
ListType ==
  [op : {"list", "export"}, user : Users, term : DOMAIN Found \cup {NoTerm},
   column : {"any", "name", "slug"}, facets : SUBSET (Facets \cup {"undeclared"}),
   sort : {"none", "id", "public"}, order : {"asc", "desc"}, skip : Nat, limit : Nat \ {0}]

ASSUME ListsAssumption == Lists \subseteq ListType /\ NoList \notin ListType
ASSUME FoundAssumption == NoTerm \notin DOMAIN Found
ASSUME ExportCapAssumption == ExportCap \in Nat \ {0}
\* Categories have neither facets nor csrc nor an export.
ASSUME CategoryListAssumption ==
  Kind = "category" =>
    \A c \in Lists : c.op = "list" /\ c.facets = {} /\ c.column = "any"

VARIABLES
  lpc,     \* where each list request is
  lcall,   \* what it was asked
  ltier,   \* the tier of its caller when it began
  page,    \* the rows its first SELECT returned
  table,   \* history: the table that SELECT saw
  listed   \* the last answer to a list request

lists == <<lpc, lcall, ltier, page, table, listed>>
lvars == <<vars, lists>>

NoAnswer == [status |-> "none", data |-> <<>>, count |-> 0, truncated |-> FALSE]

ListTypeOK ==
  /\ lpc \in [Listers -> {"idle", "rows", "count"}]
  /\ lcall \in [Listers -> Lists \cup {NoList}]
  /\ \A l \in Listers : lpc[l] # "idle" => lcall[l] \in Lists
  /\ ltier \in [Listers -> Tiers]
  /\ \A l \in Listers :
       /\ page[l] \in Seq(Row) /\ table[l] \subseteq Row
       /\ lpc[l] # "count" => page[l] = <<>> /\ table[l] = {}
  /\ listed.status \in {"none", "ok", "403", "422", "invalid", "error"}
  /\ listed.data \in Seq(Row) /\ listed.count \in Nat /\ listed.truncated \in BOOLEAN

-----------------------------------------------------------------------------
(* The predicates. *)

\* q, in one column or in all of them.
Searched(c, row) ==
  \/ c.term = NoTerm
  \/ \E col \in {"name", "slug"} :
       c.column \in {"any", col} /\ row[col] \in Found[c.term]

\* Facets are combined with OR.
Faceted(c, row) ==
  \/ c.facets = {}
  \/ "public" \in c.facets /\ row.public = "yes"
  \/ "private" \in c.facets /\ row.public = "no"

\* A category is listed to its owner, anything else by visibility_filter.
Listable(c, t, row) ==
  IF Kind = "category" THEN IsOwner(c.user, row) ELSE InQuery(c.user, t, row)

\* Mutant of Filtered: visibility is one more facet, combined with OR.
FilteredByAny(c, t, S) ==
  {row \in S : Searched(c, row) /\ (Faceted(c, row) \/ Listable(c, t, row))}

\* The rows of S that both SELECTs ask for.
Filtered(c, t, S) ==
  {row \in S : Searched(c, row) /\ Faceted(c, row) /\ Listable(c, t, row)}

\* What ORDER BY compares; rows with the same key come in any order.
Key(c, row) ==
  CASE c.sort = "id"     -> row.id
    [] c.sort = "public" -> IF row.public = "yes" THEN 1 ELSE 0
    [] OTHER             -> 0

\* The orders in which the database may return S.
Orders(c, S) ==
  {s \in SetToSeqs(S) : \A i \in 1..Len(s) : \A j \in i..Len(s) :
     IF c.order = "asc" THEN Key(c, s[i]) <= Key(c, s[j])
                        ELSE Key(c, s[i]) >= Key(c, s[j])}

\* Mutants of Slice: an export reads no row beyond the cap; OFFSET counts from one.
SliceAtCap(c, s) ==
  IF c.op = "export" THEN SubSeq(s, 1, IF Len(s) < ExportCap THEN Len(s) ELSE ExportCap)
  ELSE SubSeq(s, c.skip + 1, IF Len(s) < c.skip + c.limit THEN Len(s) ELSE c.skip + c.limit)
SliceFromOne(c, s) ==
  IF c.op = "export"
  THEN SubSeq(s, 1, IF Len(s) <= ExportCap THEN Len(s) ELSE ExportCap + 1)
  ELSE SubSeq(s, IF c.skip = 0 THEN 1 ELSE c.skip,
              IF Len(s) < c.skip + c.limit THEN Len(s) ELSE c.skip + c.limit)

\* OFFSET and LIMIT; an export asks for one row more than it will return.
Slice(c, s) ==
  LET first == IF c.op = "export" THEN 1 ELSE c.skip + 1
      last  == IF c.op = "export" THEN ExportCap + 1 ELSE c.skip + c.limit
  IN SubSeq(s, first, IF Len(s) < last THEN Len(s) ELSE last)

\* Mutant of Shown: the rows of an export are not cut at the cap.
ShownWhole(c, s) == s

\* What is shown of the rows a SELECT returned.
Shown(c, s) == IF c.op = "export" /\ Len(s) > ExportCap THEN SubSeq(s, 1, ExportCap) ELSE s

\* The public model of a block or category asks for a slug of at least one
\* character; a template is dumped as it is.
Presentable(row) == Kind = "template" \/ row.slug # EmptySlug

-----------------------------------------------------------------------------
(* List requests. *)

ListInit ==
  /\ Init
  /\ lpc = [l \in Listers |-> "idle"]
  /\ lcall = [l \in Listers |-> NoList]
  /\ ltier = [l \in Listers |-> "user"]
  /\ page = [l \in Listers |-> <<>>]
  /\ table = [l \in Listers |-> {}]
  /\ listed = NoAnswer

\* Mutant of Reply: the rows of one request stay for the next.
ReplyKeepsPage(l, response) ==
  /\ lpc' = [lpc EXCEPT ![l] = "idle"]
  /\ lcall' = [lcall EXCEPT ![l] = NoList]
  /\ ltier' = [ltier EXCEPT ![l] = "user"]
  /\ listed' = response
  /\ UNCHANGED <<page, table>>

\* The session is closed and the client answered.
Reply(l, response) ==
  /\ lpc' = [lpc EXCEPT ![l] = "idle"]
  /\ lcall' = [lcall EXCEPT ![l] = NoList]
  /\ ltier' = [ltier EXCEPT ![l] = "user"]
  /\ page' = [page EXCEPT ![l] = <<>>]
  /\ table' = [table EXCEPT ![l] = {}]
  /\ listed' = response

\* The guard, then the facets: a value that is not declared is refused.
BeginList(l, c) ==
  LET t == tier[c.user]
  IN /\ lpc[l] = "idle"
     /\ CASE ~Admits(t, "get") -> Reply(l, [NoAnswer EXCEPT !.status = "403"])
          [] Admits(t, "get") /\ "undeclared" \in c.facets ->
               Reply(l, [NoAnswer EXCEPT !.status = "422"])
          [] OTHER -> /\ lpc' = [lpc EXCEPT ![l] = "rows"]
                      /\ lcall' = [lcall EXCEPT ![l] = c]
                      /\ ltier' = [ltier EXCEPT ![l] = t]
                      /\ UNCHANGED <<page, table, listed>>

\* The rows are kept for the answer.
Keep(l, p) ==
  /\ \A row \in ToSet(Shown(lcall[l], p)) : Presentable(row)
  /\ lpc' = [lpc EXCEPT ![l] = "count"]
  /\ page' = [page EXCEPT ![l] = p]
  /\ table' = [table EXCEPT ![l] = rows]
  /\ UNCHANGED <<lcall, ltier, listed>>

\* A row does not convert: the request ends without the count.
Reject(l, p) ==
  /\ \E row \in ToSet(Shown(lcall[l], p)) : ~Presentable(row)
  /\ Reply(l, [NoAnswer EXCEPT !.status = "invalid"])

\* The SELECT of the rows, and their conversion.
SelectRows(l) ==
  LET c == lcall[l]
  IN /\ lpc[l] = "rows"
     /\ \E s \in Orders(c, Filtered(c, ltier[l], rows)) :
          Keep(l, Slice(c, s)) \/ Reject(l, Slice(c, s))

\* Mutant of CountOf: the count describes everything visible.
CountVisible(c, t) == Cardinality({row \in rows : Listable(c, t, row)})

CountOf(c, t) == Cardinality(Filtered(c, t, rows))

\* The SELECT of the count, and the answer.
SelectCount(l) ==
  LET c == lcall[l]
      truncated == c.op = "export" /\ Len(page[l]) > ExportCap
  IN /\ lpc[l] = "count"
     /\ Reply(l, [status |-> "ok",
                  data |-> Shown(c, page[l]),
                  count |-> CountOf(c, ltier[l]),
                  truncated |-> truncated])

\* A lost connection or a crash.
FaultList(l) ==
  lpc[l] # "idle" /\ Reply(l, [NoAnswer EXCEPT !.status = "error"])

ListNext ==
  \/ Next /\ UNCHANGED lists
  \/ /\ \E l \in Listers :
          \/ \E c \in Lists : BeginList(l, c)
          \/ SelectRows(l) \/ SelectCount(l) \/ FaultList(l)
     /\ UNCHANGED vars

ListSpec == ListInit /\ [][ListNext]_lvars

-----------------------------------------------------------------------------
(* Properties. *)

Answers(l) == lpc[l] = "count" /\ lpc'[l] = "idle" /\ listed'.status = "ok"

\* "A filter can never widen what a non-superuser sees": whatever the search,
\* facets, order and page, nobody is listed a private record of somebody else, and
\* the user tier is listed public records only.
ListsShowVisible ==
  [][\A l \in Listers : Answers(l) =>
       \A row \in ToSet(listed'.data) :
         /\ IsVisible(lcall[l].user, row)
         /\ ltier[l] = "user" /\ lcall[l].user \notin Superusers => row.public = "yes"]_lvars

\* An export that does not say "truncated" lists every record that matched from the
\* first SELECT to the second, and none twice.
UntruncatedIsComplete ==
  [][\A l \in Listers :
       Answers(l) /\ lcall[l].op = "export" /\ ~listed'.truncated =>
         /\ Filtered(lcall[l], ltier[l], rows \cap table[l]) \subseteq ToSet(listed'.data)
         /\ IsInjective(listed'.data)]_lvars

\* If nothing is written between the two SELECTs, the count agrees with the rows:
\* a page is short only when it is the last, and an export is truncated exactly when
\* its count is more than it lists.
QuietAnswersAgree ==
  [][\A l \in Listers :
       Answers(l) /\ rows = table[l] =>
         LET c == lcall[l]
             n == Len(listed'.data)
         IN IF c.op = "export"
            THEN /\ listed'.truncated <=> n < listed'.count
                 /\ n <= ExportCap
            ELSE n = IF listed'.count <= c.skip THEN 0
                     ELSE IF listed'.count - c.skip < c.limit THEN listed'.count - c.skip
                     ELSE c.limit]_lvars

\* The rows that come no later than x when S is sorted by id, and how many they are.
UpTo(c, S, x) == {y \in S : IF c.order = "asc" THEN y.id <= x.id ELSE y.id >= x.id}
Rank(c, S, x) == Cardinality(UpTo(c, S, x))

\* A row that does not convert fails the lists that would hold it, and no others: a
\* list that answers holds no such row, and one that fails has such a row among those
\* its caller may see, which, when they are sorted by id, lies on the page or within
\* the cap of the export.
FailedListsHoldTheRow ==
  [][\A l \in Listers :
       LET c == lcall[l]
           S == Filtered(c, ltier[l], rows)
           Holds(x) == IF c.op = "export" THEN Rank(c, S, x) <= ExportCap
                       ELSE c.skip < Rank(c, S, x) /\ Rank(c, S, x) <= c.skip + c.limit
       IN /\ Answers(l) => \A row \in ToSet(listed'.data) : Presentable(row)
          /\ lpc[l] = "rows" /\ lpc'[l] = "idle" /\ listed'.status = "invalid" =>
               \E row \in S : /\ ~Presentable(row) /\ IsVisible(c.user, row)
                              /\ c.sort = "id" => Holds(row)]_lvars

\* Sorted by a unique column, the pages of a table that does not change list every
\* record once, whatever the size of the page.
PagesPartition ==
  \A c \in Lists, t \in Tiers :
    c.op = "list" /\ c.sort = "id" =>
      LET S == Filtered(c, t, rows)
          pageAt(k) == UNION {ToSet(Slice([c EXCEPT !.skip = k * c.limit], s)) :
                                s \in Orders(c, S)}
      IN \A row \in S : \E k \in 0..Cardinality(S) :
           /\ row \in pageAt(k)
           /\ \A j \in 0..Cardinality(S) \ {k} : row \notin pageAt(j)

=============================================================================
