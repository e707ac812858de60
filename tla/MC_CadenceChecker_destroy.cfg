CONSTANTS
  u = u
  w = w
  Vars <- MCVars
  NoPos = NoPos
  MoveSite = MoveSite
  DestroySite = DestroySite
  Undeclared = Undeclared
SPECIFICATION Spec
INVARIANTS
  UseAfterDestructionReported
\* Checking one statement is a single step.
CHECK_DEADLOCK FALSE
