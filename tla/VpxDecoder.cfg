CONSTANTS
  Threads = {t1, t2}
  Images = {i1, i2}
  Free = free
  MaxDecodes = 2
SPECIFICATION Spec
INVARIANTS NoUseAfterFree DestroyedLast CopyIsOwnFrame DisposeWaits
PROPERTY NativeFreed
CHECK_DEADLOCK FALSE
