CONSTANTS
    m1 = m1
    m2 = m2
    Frames <- MCFrames
    MaxPacketSize = 5
    BufSize = 4
    Msgs <- MCMsgs
    MsgLen <- MCMsgLen
SPECIFICATION FairSpec
CHECK_DEADLOCK FALSE
PROPERTY CloseCompletes
