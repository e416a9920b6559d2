SPECIFICATION Spec
CONSTANTS
  Routes <- EveryWay
  Payloads <- GameSends
  Conforms <- GameReads
  MaxChoices = 2
  Special = {}
  ByteIndexes = 1
  ShortIndexes = 2
INVARIANTS
  TypeOK
  Understood
  DataKept
  NetIdsDistinct
  DroppedRightly
PROPERTIES
  HandlersKeep
  Delivers
