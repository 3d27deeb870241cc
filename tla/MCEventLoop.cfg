\* The event loop.
SPECIFICATION FairSpec
CONSTANTS
    PlainListeners = 1
    TlsListeners = 1
    MaxClient = 2
    MaxForward = 1
    MaxLine = 2
    MaxFd = 4
INVARIANTS
    TypeOK
    ListSound
    DescriptorsOwn
    NeverBlocks
    
    NothingAfterBye

    
CHECK_DEADLOCK FALSE
