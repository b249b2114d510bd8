SPECIFICATION OutcomeSpec
CONSTANTS
  StartsWith <- MCStartsWith
  GlobMatch <- MCGlobMatch
  RegexMatches <- MCRegexMatches
  SystemDefaults <- MCSystemDefaults
  Commands <- MCCommands
  Layers <- MCLayers
  Diffs <- MCDiffs
  MaxRuns = 2
  MaxValidations = 2
  MaxEdits = 1
  MaxRestarts = 1
INVARIANTS
  
  RefsResolve
PROPERTIES
  GateOpensOnGreen
CHECK_DEADLOCK FALSE
