SPECIFICATION PathSpec
CONSTANTS
  Apps = {notify, watch, response}
  Ctrls = {echo}
  Notifies = {notify}
  Watches = {watch}
  Free = Free
  MaxReads = 3
  Capacity = 2
INVARIANTS FramesIntact CleanHandover ByteOrderAgreed LockOrder
 
CHECK_DEADLOCK FALSE
