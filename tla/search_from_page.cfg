\* Searches that start from a page other than the first.
CONSTANTS
  PageSize = 2
  Validators = 3
  MaxItems = 5
  MaxHeight = 4
SPECIFICATION Spec
INVARIANT SearchesFromPage
CHECK_DEADLOCK FALSE
