CONSTANTS
  System <- lexSystems
  Fixing <- noFixing
  Top = 3
  Parts <- fractions
SPECIFICATION SimSpec
INVARIANT LexMinimal
CHECK_DEADLOCK FALSE
