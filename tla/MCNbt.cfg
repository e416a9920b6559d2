CONSTANTS
  MaxDepth = 2
  MaxTokens = 10
  Game <- MCGame
  Tokens <- AnyTokens
SPECIFICATION Spec
INVARIANTS TypeOK TagKept NoneRefused
