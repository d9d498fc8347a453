\* One worker edits a prompt block: is the slug ever empty?
SPECIFICATION Spec
CONSTANTS
  alice = alice
  root = root
  Kind = "block"
  Users = {alice}
  Superusers = {}
  Demotable = {}
  Names <- MCNames
  Slugs <- MCSlugs
  SlugOf <- MCSlugOf
  EmptySlug = ""
  Requests = {r1}
  Calls <- Edits
  NoCall = NoCall
  MaxId = 1
INVARIANTS
  SlugsNonEmpty
