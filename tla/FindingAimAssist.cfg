SPECIFICATION Spec
CONSTANTS
  Routes <- Aim
  Payloads <- GameSends
  Conforms <- GameReads
  MaxChoices = 2
  Special = {}
  ByteIndexes = 1
  ShortIndexes = 2
INVARIANTS
  Understood
