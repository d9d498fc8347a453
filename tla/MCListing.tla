----------------------------- MODULE MCListing ------------------------------
(* Small instances of Listing. *)
EXTENDS Listing, MCCatalog

CONSTANTS bob

\* One term, which one of the names and slugs contains.
LFound == [q \in {"C"} |-> {"c"}]

\* Only alice writes: she creates a public and a private record, hides the first
\* or publishes it under a name without a slug, and deletes both.
LCalls ==
  {Call("create", alice, 1, "c", "yes"), Call("create", alice, 1, "a-b", "no")}
  \cup {Call("edit", alice, 1, "c", "no"), Call("edit", alice, 1, "!!!", "yes")}
  \cup {Call("delete", alice, i, "c", "unset") : i \in 1..MaxId}

List(op, u, q, fs, sort, k, n) ==
  [op |-> op, user |-> u, term |-> q, column |-> "any", facets |-> fs,
   sort |-> sort, order |-> "desc", skip |-> k, limit |-> n]

\* The owner and a stranger list and export, with and without filters.
LLists ==
  {List("list", alice, NoTerm, {}, "id", k, 1) : k \in {0, 1}}
  \cup {List("list", bob, NoTerm, {"public", "private"}, "public", 0, 2)}
  \cup {[List("list", bob, "C", {"private"}, "none", 0, 1) EXCEPT !.column = "slug"]}
  \cup {List("export", u, q, {}, "none", 0, 1) : u \in {alice, bob}, q \in {"C", NoTerm}}
  \cup {List("export", alice, NoTerm, {}, "id", 0, 1)}
  \cup {List("export", alice, NoTerm, {"undeclared"}, "none", 0, 1)}

\* alice gives her categories names that share a slug or have none; root deletes them.
PCalls ==
  {Call("create", alice, 1, n, "unset") : n \in {"A b", "a-b", "!!!"}}
  \cup {Call("create", root, 1, "c", "unset")}
  \cup {Call("edit", alice, 1, n, "unset") : n \in {"a-b", "c", "!!!"}}
  \cup {Call("delete", root, i, "c", "unset") : i \in 1..MaxId}

\* Pages of one and of two categories, for an owner and for a superuser.
PLists ==
  {[List("list", alice, NoTerm, {}, "id", 1, 1) EXCEPT !.order = "asc"],
   List("list", root, NoTerm, {}, "id", 2, 2),
   List("list", alice, "C", {}, "none", 0, 1)}

=============================================================================
