\* One worker writes categories while another lists them page by page.
SPECIFICATION ListSpec
CONSTANTS
  alice = alice
  bob = bob
  root = root
  Kind = "category"
  Users = {alice, root}
  Superusers = {root}
  Demotable = {alice}
  Names <- MCNames
  Slugs <- MCSlugs
  SlugOf <- MCSlugOf
  EmptySlug = ""
  Requests = {r1}
  Calls <- PCalls
  NoCall = NoCall
  MaxId = 3
  Listers = {l1}
  Lists <- PLists
  NoList = NoList
  NoTerm = NoTerm
  Found <- LFound
  ExportCap = 1
INVARIANTS
  SlugsNonEmpty
  PagesPartition
PROPERTIES
  ListsShowVisible
