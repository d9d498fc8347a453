\* One worker writes prompt blocks while another lists and exports them.
SPECIFICATION ListSpec
CONSTANTS
  alice = alice
  bob = bob
  root = root
  Kind = "block"
  Users = {alice, bob}
  Superusers = {}
  Demotable = {alice}
  Names <- MCNames
  Slugs <- MCSlugs
  SlugOf <- MCSlugOf
  EmptySlug = ""
  Requests = {r1}
  Calls <- LCalls
  NoCall = NoCall
  MaxId = 2
  Listers = {l1}
  Lists <- LLists
  NoList = NoList
  NoTerm = NoTerm
  Found <- LFound
  ExportCap = 1
INVARIANTS
  ListTypeOK
PROPERTIES
  ListsShowVisible
  UntruncatedIsComplete
  QuietAnswersAgree
  FailedListsHoldTheRow
