CONSTANTS
    k1 = k1
    k2 = k2
    q1 = q1
    q2 = q2
    Subs = {k1}
    Requests = {q1}
    SubQueue = 1
    MaxEvents = 3
    Frames <- Frame
    SizeOf <- Sized
    MaxQueuedFrames = 2
    MaxQueuedBytes = 3
CHECK_DEADLOCK FALSE
SPECIFICATION Spec
INVARIANTS
    ClientReconstructs
    QueueBounded
    NoLostWakeup
PROPERTY IsFifoChannel
