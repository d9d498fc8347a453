\* Two workers edit categories: is the slug still that of the name?
SPECIFICATION Spec
CONSTANTS
  alice = alice
  root = root
  Kind = "category"
  Users = {alice}
  Superusers = {}
  Demotable = {}
  Names <- MCNames
  Slugs <- MCSlugs
  SlugOf <- MCSlugOf
  EmptySlug = ""
  Requests = {r1, r2}
  Calls <- Categories
  NoCall = NoCall
  MaxId = 1
SYMMETRY RequestSymmetry
INVARIANTS
  SlugFollowsName
