\* Two workers: what add_template_block_and_reorder says of positions.
SPECIFICATION Spec
CONSTANTS
  alice = alice
  root = root
  Templates = {t1}
  Blocks = {b1, b2, b3}
  Users = {alice}
  Superusers = {}
  PrivateRows = {}
  TemplateOwner <- MCTemplateOwner
  BlockOwner <- MCBlockOwner
  PublicTemplates = {}
  Requests = {r1, r2}
  Calls <- Reorderings
  NoCall = NoCall
  MaxLinkId = 3
SYMMETRY BlockSymmetry
INVARIANTS
  PositionsContiguous
