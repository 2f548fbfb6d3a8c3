CONSTANTS
    MaxLen = 16
    Samples <- MCSamples
    MutValues <- MCMutValues
    PacketSamples <- MCPacketSamples
    WireRecords <- MCWireRecords
    RequestSamples <- MCRequestSamples
    PacketMutValues <- MCPacketMutValues
    Received <- MCReceived
SPECIFICATION Spec
CHECK_DEADLOCK FALSE
INVARIANT NoUtf8Panic
