------------------------- MODULE MC_HandshakeCodec -------------------------
(* Handshakes for TLC: versions, tags and peer addresses of length 1 and   *)
(* MAX_LEN (16), a peer address of 17 characters (the length of a          *)
(* formatted SocketAddr such as "10.0.0.100:2125" plus two), zero fixed    *)
(* fields.  Overwritten bytes take the values 0, MAX_LEN + 1 and 0xFF.      *)
EXTENDS CodecLaws

Str(k) == [i \in 1..k |-> 97]

MCSamples ==
    {[version |-> v, tag |-> t, fixed |-> [i \in 1..FixedLen |-> 0], peers |-> p] :
        v \in {Str(1), Str(16)},
        t \in {None, <<Str(1)>>, <<Str(16)>>},
        p \in {<<>>, <<Str(1)>>, <<Str(17)>>, <<Str(16), Str(1)>>}}

MCMutValues == {0, 17, 255}

(* Packet handshakes: version and tag of length 1 and MAX_LEN, no peer, an *)
(* IPv4 peer, or an IPv6 and an IPv4 peer; the integer and hash fields are *)
(* zero bytes.  The wire records add what a remote may send and            *)
(* Handshake::new refuses: an empty version, a version and a tag of        *)
(* MAX_LEN + 1 characters, MAX_LEN + 1 peers.                              *)
V4 == [kind |-> "V4", ip |-> <<127, 0, 0, 1>>, port |-> <<8, 77>>]

V6 == [kind |-> "V6", ip |-> [i \in 1..16 |-> 0], port |-> <<0, 1>>]

Zeros(k) == [i \in 1..k |-> 0]

PacketOf(v, t, p) ==
    [version |-> v, node_tag |-> t, network_id |-> Zeros(16),
     peer_id |-> Zeros(8), local_port |-> Zeros(2), utc_time |-> Zeros(8),
     block_height |-> Zeros(8), block_top_hash |-> Zeros(32), peers |-> p]

MCPacketSamples ==
    {PacketOf(v, t, p) : v \in {Str(1), Str(16)},
                         t \in {None, <<Str(1)>>, <<Str(16)>>},
                         p \in {<<>>, <<V4>>, <<V6, V4>>}}

MCWireRecords ==
    MCPacketSamples \cup {PacketOf(<<>>, None, <<>>),
                          PacketOf(Str(17), None, <<>>),
                          PacketOf(Str(1), <<Str(17)>>, <<>>),
                          PacketOf(Str(1), None, [i \in 1..17 |-> V4])}

(* Requests for a zero hash and for a hash of 0xFF bytes.                  *)
MCRequestSamples ==
    {[kind |-> k, hash |-> [i \in 1..32 |-> b]] :
        k \in {"Block", "Transaction"}, b \in {0, 255}}

MCPacketMutValues == {0, 2, 17, 255}

(* What a remote may send besides the old-format inputs: every packet      *)
(* handshake and object encoding, its truncations and its corruptions.     *)
MCReceived == PacketInputs \cup ObjectInputs
=============================================================================
