\* Two commands, one per recv; two reports fill the send buffer.
SPECIFICATION FairSpec
CONSTANTS
    RxCap = 2
    TxCap = 2
    RecvCap = 1
INVARIANTS
    NeverBlocks
PROPERTIES
    EndsWithServer
    CommandsRead
\* The program ends, and a client without its thread may wait for ever.
CHECK_DEADLOCK FALSE
