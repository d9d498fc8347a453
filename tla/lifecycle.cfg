\* Two workers attach, remove, delete and read rows of two owners.
SPECIFICATION Spec
CONSTANTS
  alice = alice
  root = root
  Templates = {t1, t2}
  Blocks = {b1, b2}
  Users = {alice, root}
  Superusers = {root}
  PrivateRows = {t2, b2}
  TemplateOwner <- MCTemplateOwner
  BlockOwner <- MCBlockOwner
  PublicTemplates = {}
  Requests = {r1, r2}
  Calls <- Lifecycles
  NoCall = NoCall
  MaxLinkId = 2
SYMMETRY RequestSymmetry
INVARIANTS
  IndInv
  ReferentialIntegrity
  TornReadMeansUnlinked
PROPERTIES
  CrossOwnerLinksBySuperuser
  RefinesMembership
