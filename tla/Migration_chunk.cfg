SPECIFICATION FairMigrationSpec
CONSTANTS
  Processes = {donor, rival}
  MaxSessions = 1
  NoSession = NoSession
  Docs = {d1}
  Foreign = foreign
  Donor = donor
  Rival = rival
  MaxWrites = 2
  MaxFaults = 1
  MaxVersion = 2
  NoVersion = NoVersion
INVARIANTS
  MigrationTypeOK
  NoLostWrite
  OneOwner
  ClonedWhenSteady
PROPERTIES
  VersionRises
  LostInTurn
  ChunkGetsOwner
  RivalGetsLock
CONSTRAINT Promising
CHECK_DEADLOCK FALSE
