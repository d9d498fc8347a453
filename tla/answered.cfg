\* Two workers, every operation: liveness (no symmetry).
SPECIFICATION Spec
CONSTANTS
  alice = alice
  root = root
  Templates = {t1}
  Blocks = {b1, b2}
  Users = {alice}
  Superusers = {}
  PrivateRows = {}
  TemplateOwner <- MCTemplateOwner
  BlockOwner <- MCBlockOwner
  PublicTemplates = {}
  Requests = {r1, r2}
  Calls <- Everything
  NoCall = NoCall
  MaxLinkId = 1
PROPERTIES
  EveryRequestAnswered
