\* Start-up and migrations, signing keys, time zones, dashboard.
SPECIFICATION OpsSpec
CONSTANTS
  LegacyLength = 3
  MaxImage = 2
  MaxTries = 3
  MaxFaults = 4
  MaxKey = 3
  Connections = {c1, c2}
  Alembic = alembic
  Instants = {9, 21}
  ServerZone = 5
  Models <- OpsModels
  Owners = {ann, bob}
  Admins = {ann}
  Starts <- OpsStarts
  Samples <- OpsSamples
  MaxTicks = 1
  MaxRows = 2
INVARIANTS
  ServesMigrated
  ServesWholeSchema
  StuckOnlyByLoss
  TokensVerify
  ComparedAsMeant
  WindowsTile
  CountsAreOfTheRequest
PROPERTIES
  StartedEventuallyServes
