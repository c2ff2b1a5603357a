SPECIFICATION Spec
CONSTANTS
    Programs <- MCPrograms
    Lines <- MCLines
    MaxRounds = 2
INVARIANTS LineInv
PROPERTIES BreakContained RoundsRun LinesEnd
