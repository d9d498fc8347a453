----------------------------- MODULE MCCatalog ------------------------------
(* Small instances of Catalog. *)
EXTENDS Catalog, TLC

CONSTANTS alice, root

\* Two names with one slug ("A b", "a-b"), one with another, one without any.
MCNames == {"A b", "a-b", "c", "!!!"}
MCSlugs == {"a-b", "c", ""}
MCSlugOf == [n \in MCNames |-> CASE n \in {"A b", "a-b"} -> "a-b"
                                 [] n = "c" -> "c"
                                 [] OTHER -> ""]

Call(op, u, i, n, p) ==
  [op |-> op, user |-> u, id |-> i, name |-> n, public |-> p]

\* Writes by the named users, with the given names and flags.
Writes(users, names, flags) ==
  {Call("create", u, 1, n, p) : u \in users, n \in names, p \in flags}
  \cup {Call("edit", u, i, n, p) : u \in users, i \in 1..MaxId, n \in names, p \in flags}
  \cup {Call("delete", u, i, "c", "unset") : u \in users, i \in 1..MaxId}

Gets(users) == {Call("get", u, i, "c", "unset") : u \in users, i \in 1..MaxId}
Finds(users) == {Call("getBySlug", u, 1, n, "unset") : u \in users, n \in {"c", "a-b"}}

\* Names that share a slug, flags given or left out.
Edits == Writes(Users, {"A b", "a-b", "c", "!!!"}, {"yes", "unset"})
\* Everybody reads and writes, once without the flag.
Shared ==
  Writes(Users, {"c", "a-b"}, {"yes", "no"}) \cup Gets(Users) \cup Finds(Users)
  \cup {Call("edit", alice, 1, "a-b", "unset")}
\* Categories: no flag, a name without a slug.
Categories == Writes(Users, {"c", "A b", "a-b", "!!!"}, {"unset"}) \cup Gets(Users)

RequestSymmetry == Permutations(Requests)

=============================================================================
