SPECIFICATION FairSpec
CONSTANTS
    PIPE_BUFF_SIZE = 3
    MaxMessage = 5
INVARIANTS
    MessageArrives
    DescriptorsAgree
    PipeInv
PROPERTIES
    DaemonGetsMessage
