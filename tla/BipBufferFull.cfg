CONSTANTS
  Byte = {b0}
  Junk = junk
  PageSize = 2
  Alloc = {TRUE}
  MaxIO = 2
  MaxSize = 4
SPECIFICATION Spec
INVARIANT WriteNeverNegative
