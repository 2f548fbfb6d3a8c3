------------------------------ MODULE CodecLaws ------------------------------
(***************************************************************************)
(* The bytes a remote sends, handed to the decoders.  HandshakeCodec's     *)
(* variable data is the byte string the node received; besides running     *)
(* the old from_bytes on it step by step, the node could decode it with    *)
(* the Reader-based Handshake::read, ObjectRequest::read or                *)
(* ObjectResponse::read of p2p/packet/.  The laws below state what those   *)
(* decoders must do with whatever was received.                            *)
(***************************************************************************)
EXTENDS HandshakeCodec, PacketCodec

(* Spec 4.1's round-trip law for the Handshake packet: when the bytes      *)
(* received are what Handshake::write made of a handshake that             *)
(* Handshake::new accepts, Handshake::read gives that handshake back and   *)
(* reads exactly those bytes.                                              *)
PacketRoundTrip ==
    \A h \in PacketSamples :
        data = HandshakeWrite(h) =>
            HandshakeRead(NewReader(data)) = Ok(h, ReadAll(data))

(* Whatever bytes a remote sends, a Handshake that Handshake::read         *)
(* accepts is encoded by Handshake::write as exactly the bytes it read:    *)
(* the decoder accepts one encoding per value (spec section 4.2 wants     *)
(* canonical encodings, a hash being defined by them).                     *)
PacketDecodeCanonical ==
    LET res == HandshakeRead(NewReader(data))
    IN  res.ok => HandshakeWrite(res.val) = SubSeq(data, 1, res.rd.total)

(* Whatever bytes a remote sends, Handshake::read only calls               *)
(* Handshake::new with values its asserts accept: a packet cannot make     *)
(* the node panic (the comment at packet/handshake.rs lines 119-121).     *)
PacketNoPanic ==
    HandshakeRead(NewReader(data)).err # "panic"

(* When the bytes received are what ObjectRequest::write made of a         *)
(* request, ObjectRequest::read gives it back; when they are the NotFound  *)
(* response ObjectResponse::write made of it, ObjectResponse::read gives  *)
(* that response back.  Each reads exactly the bytes received.             *)
ObjectRoundTrip ==
    \A o \in RequestSamples :
        /\ data = ObjectRequestWrite(o) =>
               ObjectRequestRead(NewReader(data)) = Ok(o, ReadAll(data))
        /\ data = ObjectResponseWrite([request |-> o]) =>
               ObjectResponseRead(NewReader(data))
                 = Ok([kind |-> "NotFound", request |-> o], ReadAll(data))

(* Whatever bytes a remote sends, an ObjectRequest that                    *)
(* ObjectRequest::read accepts is encoded by ObjectRequest::write as       *)
(* exactly the bytes it read: an unknown id is refused, not taken for a    *)
(* Block or a Transaction.                                                 *)
ObjectDecodeCanonical ==
    LET res == ObjectRequestRead(NewReader(data))
    IN  res.ok => ObjectRequestWrite(res.val) = SubSeq(data, 1, res.rd.total)

=============================================================================
