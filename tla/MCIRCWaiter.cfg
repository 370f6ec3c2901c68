SPECIFICATION WaiterSpec
CONSTANTS
    w1 = w1
    w2 = w2
    w3 = w3
    m1 = m1
    m2 = m2
    Waiters = {w1, w2, w3}
    Msgs = {m1, m2}
    MsgOf <- MCMsgOf
    Empty = Empty
INVARIANTS FirstIsGenuine NotifierNeverBlocks NoChannelLeak
PROPERTY EveryWaitEnds
CHECK_DEADLOCK FALSE
