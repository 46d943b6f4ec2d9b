SPECIFICATION Spec
CONSTANTS
    Kinds = {"none"}
    MaxEvents = 2
    MaxInvalid = 1
    Room = 3
    PipeRoom = 2
INVARIANT EventsKept
CHECK_DEADLOCK FALSE
