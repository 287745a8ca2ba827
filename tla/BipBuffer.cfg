CONSTANTS
  Byte = {b0, b1}
  Junk = junk
  PageSize = 3
  Alloc = {TRUE, FALSE}
  MaxIO = 3
  MaxSize = 5
SPECIFICATION Spec
INVARIANTS TypeOK BlocksApart ReservationFree PeekStable DataIsSignaled
PROPERTY FifoSpec
