CONSTANTS
    MaxLen = 16
    Samples <- MCSamples
    MutValues <- MCMutValues
    PacketSamples <- MCPacketSamples
    WireRecords <- MCWireRecords
    RequestSamples <- MCRequestSamples
    PacketMutValues <- MCPacketMutValues
    Received <- MCReceived
SPECIFICATION Spec
INVARIANT TypeOK
INVARIANT NoCheckedPanic
INVARIANT DecodeCanonical
INVARIANT PacketRoundTrip
INVARIANT PacketDecodeCanonical
INVARIANT PacketNoPanic
INVARIANT ObjectRoundTrip
INVARIANT ObjectDecodeCanonical
CHECK_DEADLOCK FALSE
