\* Two workers create, edit, delete and read the prompt blocks of two users.
SPECIFICATION Spec
CONSTANTS
  alice = alice
  root = root
  Kind = "block"
  Users = {alice, root}
  Superusers = {root}
  Demotable = {}
  Names <- MCNames
  Slugs <- MCSlugs
  SlugOf <- MCSlugOf
  EmptySlug = ""
  Requests = {r1, r2}
  Calls <- Shared
  NoCall = NoCall
  MaxId = 2
SYMMETRY RequestSymmetry
INVARIANTS
  TypeOK
  SlugsUnique
  SessionsHoldOwnRows
PROPERTIES
  OnlyOwnersWrite
  OnlyVisibleShown
  NoResurrection
  FreshEditsAreExact
