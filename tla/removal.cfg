\* One worker: what delete_template_block_and_reorder says it does.
SPECIFICATION Spec
CONSTANTS
  alice = alice
  root = root
  Templates = {t1}
  Blocks = {b1, b2, b3}
  Users = {alice}
  Superusers = {}
  PrivateRows = {}
  TemplateOwner <- MCTemplateOwner
  BlockOwner <- MCBlockOwner
  PublicTemplates = {}
  Requests = {r1}
  Calls <- Reorderings
  NoCall = NoCall
  MaxLinkId = 3
SYMMETRY BlockSymmetry
INVARIANTS
  FreshRemovalsSucceed
