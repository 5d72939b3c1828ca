SPECIFICATION Spec
CONSTANTS
    Workers = {w1}
    None = None
    Scripts <- ShortScripts
    MaxFrames = 3
    MaxEvents = 2
    FrameChunk = 2
INVARIANTS
    TypeOK
    CaptureIsComplete
    NoEventTwice
    NoStrayWrite
    MainThreadIndex
PROPERTIES
    DumpsWhenStopped
    Terminates
