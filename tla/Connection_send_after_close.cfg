CONSTANTS
    m1 = m1
    m2 = m2
    Frames <- MCFrames
    MaxPacketSize = 5
    BufSize = 4
    Msgs <- MCMsgs
    MsgLen <- MCMsgLen
CHECK_DEADLOCK FALSE
SPECIFICATION Spec
INVARIANT NoSendAfterClose
