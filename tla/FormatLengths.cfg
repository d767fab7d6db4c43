SPECIFICATION Spec
CONSTANTS
  MaxUnits = 10
  Cases <- MCCases
INVARIANTS WholeFileFound CutFileNotLonger 
PROPERTY WalksEnd
CHECK_DEADLOCK FALSE
