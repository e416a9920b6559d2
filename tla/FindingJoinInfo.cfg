SPECIFICATION Spec
CONSTANTS
  Routes <- Joining
  Payloads <- GameSends
  Conforms <- GameReads
  MaxChoices = 2
  Special <- Gathering
  ByteIndexes = 1
  ShortIndexes = 2
INVARIANTS
  Understood
