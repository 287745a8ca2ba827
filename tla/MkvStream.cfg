CONSTANTS
  Byte = {0, 1, 2, 3, 4, 5, 6, 7}
  Junk = junk
  PageSize = 2
  Alloc = {TRUE, FALSE}
  MaxBlock = 3
  MaxRead = 3
  MaxSent = 8
  MaxInit = 4
SPECIFICATION Spec
INVARIANT StreamIntact
PROPERTIES FailsOnlyWhenSplit AllDelivered
CHECK_DEADLOCK FALSE
