SPECIFICATION FairSpec
CONSTANTS
  Addr = {a, b, c}
  Outside = outside
  Line = {a, b}
  None = none
INVARIANTS
  NeverForgotten
PROPERTIES
  PromiseSpec
  Resumes
