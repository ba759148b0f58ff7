SPECIFICATION BufferSpec
CONSTANTS
  MaxTasks = 4
  capacity = 3
  N = 3
  Elem = {a, b}
  None = None
INVARIANTS TypeOK NoStrandedReceiver NoStrandedSender WaitersParked RingInv
PROPERTIES ReceiverServed ImplementsFifo
