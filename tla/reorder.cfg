\* Two workers attach, move and remove the blocks of one template.
SPECIFICATION Spec
CONSTANTS
  alice = alice
  root = root
  Templates = {t1}
  Blocks = {b1, b2, b3}
  Users = {alice}
  Superusers = {}
  PrivateRows = {}
  TemplateOwner <- MCTemplateOwner
  BlockOwner <- MCBlockOwner
  PublicTemplates = {}
  Requests = {r1, r2}
  Calls <- Reorderings
  NoCall = NoCall
  MaxLinkId = 3
SYMMETRY BlockSymmetry
INVARIANTS
  TypeOK
  UniquePositions
  UniqueBlocks
  PositionsInRange
  LoadedRowsKeepIdentity
  FreshWritesSucceed
PROPERTIES
  FreshCommitsAreContiguous
  FreshCommitsAreAtomic
