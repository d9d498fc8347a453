\* One worker: the routes as a client that is alone sees them, and the prompts
\* it composes.
SPECIFICATION Spec
CONSTANTS
  alice = alice
  root = root
  Templates = {t1}
  Blocks = {b1, b2, b3}
  Slotted = {b2}
  Whole = {b3}
  Dynamic <- MCDynamic
  Ids <- MCIds
  Piece <- MCPiece
  Content <- MCContent
  Slot = Slot
  Supplies <- MCSupplies
  Users = {alice}
  Superusers = {}
  PrivateRows = {}
  TemplateOwner <- MCTemplateOwner
  BlockOwner <- MCBlockOwner
  PublicTemplates = {}
  Requests = {r1}
  Calls <- Everything
  NoCall = NoCall
  MaxLinkId = 5
INVARIANTS
  PositionsContiguous
  PromptFollowsPositions
PROPERTIES
  RefinesOrdered
