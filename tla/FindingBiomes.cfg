SPECIFICATION Spec
CONSTANTS
  Routes <- Biome
  Payloads <- GameSends
  Conforms <- GameReads
  MaxChoices = 1
  Special = {}
  ByteIndexes = 1
  ShortIndexes = 2
INVARIANTS
  Understood
