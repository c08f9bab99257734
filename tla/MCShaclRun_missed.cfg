SPECIFICATION RunSpec
CONSTANTS
  Schemas <- MCSchemas
  Quads <- MCQuads
  Alike <- MCAlike
  Filters <- MCFilters
  MaxDepth = 6
  MaxPathDepth = 4
  MaxExprDepth = 4
  MaxTriples = 30
  MaxChanges <- MCMaxChanges
  MaxPending <- MCMaxPending
  MaxRounds = 4
PROPERTY RevalidateMissesNothing
CHECK_DEADLOCK FALSE
