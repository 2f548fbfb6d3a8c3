---------------------------- MODULE PacketCodec ----------------------------
(***************************************************************************)
(* The Reader-based codecs: the cursor of core/reader.rs, the Handshake    *)
(* packet of p2p/packet/handshake.rs and the ObjectRequest and             *)
(* ObjectResponse of p2p/packet/object.rs.  They are pure functions of     *)
(* their input, so each is an operator: a read takes a Reader record       *)
(* [bytes, total] and returns a result record                              *)
(* [ok, val, err, rd], rd being the Reader after the call (Rust's          *)
(* &mut Reader).  Each `?` of the code is a Then.  An integer field        *)
(* (u16, u64) is kept as its big-endian bytes: read_u16/read_u64 and       *)
(* write_u16/write_u64 are from_be_bytes/to_be_bytes, inverse of each      *)
(* other, so no property tells the value from its bytes.                   *)
(* The Writer and ip_to_bytes/ip_from_bytes (globals.rs) are not in the    *)
(* source tree: they are modelled from spec sections 4.1 and 6.            *)
(***************************************************************************)
EXTENDS Naturals, Sequences, CodecBytes

CONSTANTS
    PacketSamples,   \* Handshakes a node builds with Handshake::new
    WireRecords,     \* Handshakes as a remote may encode them, valid or not
    RequestSamples,  \* ObjectRequests
    PacketMutValues  \* bytes written over one position of an encoding

(* A Hash is 32 bytes; an ObjectRequest names a Block or a Transaction.   *)
Hashes == {h \in Seq(Bytes) : Len(h) = 32}

ObjectRequests == [kind : {"Block", "Transaction"}, hash : Hashes]

ASSUME PacketConstAssumption ==
    /\ RequestSamples \subseteq ObjectRequests
    /\ PacketMutValues \subseteq Bytes

(* Handshake::MAX_LEN (packet/handshake.rs line 31).                       *)
MAX_LEN == 16

Ok(v, r) == [ok |-> TRUE, val |-> v, err |-> "none", rd |-> r]
Err(e, r) == [ok |-> FALSE, val |-> None, err |-> e, rd |-> r]

(* The `?` operator: pass the value and the Reader on, or return the error.*)
Then(res, F(_, _)) == IF res.ok THEN F(res.val, res.rd) ELSE res

(*************************** core/reader.rs *******************************)
NewReader(b) == [bytes |-> b, total |-> 0]

ReaderSize(r) == Len(r.bytes) - r.total

(* read_bytes: the slice self.bytes[total..total+n] is taken only when n   *)
(* bytes remain; its try_into always succeeds, every caller asking for a   *)
(* buffer of exactly n bytes.                                              *)
ReadBytes(r, n) ==
    IF n > ReaderSize(r) THEN Err("InvalidSize", r)
    ELSE Ok(SubSeq(r.bytes, r.total + 1, r.total + n),
            [bytes |-> r.bytes, total |-> r.total + n])

ReadU8(r) ==
    IF ReaderSize(r) = 0 THEN Err("InvalidSize", r)
    ELSE Ok(r.bytes[r.total + 1], [bytes |-> r.bytes, total |-> r.total + 1])

ReadBool(r) == Then(ReadU8(r), LAMBDA b, r1 : Ok(b = 1, r1))

ReadU16(r) == ReadBytes(r, 2)

ReadU64(r) == ReadBytes(r, 8)

ReadHash(r) == ReadBytes(r, 32)

(* The bytes are consumed before from_utf8 rejects them.                   *)
ReadStringWithSize(r, size) ==
    Then(ReadBytes(r, size), LAMBDA s, r1 :
        IF Utf8Valid(s) THEN Ok(s, r1) ELSE Err("InvalidValue", r1))

ReadString(r) == Then(ReadU8(r), LAMBDA n, r1 : ReadStringWithSize(r1, n))

ReadOptionalString(r) ==
    Then(ReadU8(r), LAMBDA n, r1 :
        IF n = 0 THEN Ok(None, r1)
        ELSE Then(ReadStringWithSize(r1, n), LAMBDA s, r2 : Ok(<<s>>, r2)))

(************************ Writer and globals.rs ****************************)
WriteString(s) == <<Len(s) % 256>> \o s

WriteOptionalString(o) == IF o = None THEN <<0>> ELSE WriteString(o[1])

(* A SocketAddr (kind "V4" or "V6") is written as a kind byte, 0 for IPv4 *)
(* (4 address bytes) and 1 for IPv6 (16), then the port as 2 big-endian    *)
(* bytes.                                                                  *)
IpToBytes(a) == <<IF a.kind = "V4" THEN 0 ELSE 1>> \o a.ip \o a.port

(* An ip_from_bytes that reads every kind other than 0 as IPv6.           *)
IpFromBytesAnyKind(r) ==
    Then(ReadU8(r), LAMBDA kind, r1 :
        Then(ReadBytes(r1, IF kind = 0 THEN 4 ELSE 16), LAMBDA ip, r2 :
        Then(ReadU16(r2), LAMBDA port, r3 :
            Ok([kind |-> IF kind = 0 THEN "V4" ELSE "V6", ip |-> ip,
                port |-> port], r3))))

IpFromBytes(r) ==
    Then(ReadU8(r), LAMBDA kind, r1 :
        IF kind \notin {0, 1} THEN Err("InvalidValue", r1)
        ELSE Then(ReadBytes(r1, IF kind = 0 THEN 4 ELSE 16), LAMBDA ip, r2 :
             Then(ReadU16(r2), LAMBDA port, r3 :
                 Ok([kind |-> IF kind = 0 THEN "V4" ELSE "V6", ip |-> ip,
                     port |-> port], r3))))

(********************** p2p/packet/handshake.rs ****************************)
(* The asserts of Handshake::new; a failed one panics.                     *)
HandshakeNewOk(h) ==
    /\ Len(h.version) > 0 /\ Len(h.version) <= MAX_LEN
    /\ h.node_tag # None => Len(h.node_tag[1]) > 0
                            /\ Len(h.node_tag[1]) <= MAX_LEN
    /\ Len(h.peers) <= MAX_LEN

HandshakeNew(h, r) == IF HandshakeNewOk(h) THEN Ok(h, r) ELSE Err("panic", r)

(* Handshake::write.  write_u8(peers.len() as u8) truncates to a byte.    *)
HandshakeWrite(h) ==
    LET peerBytes[i \in 0..Len(h.peers)] ==
            IF i = 0 THEN <<>> ELSE peerBytes[i - 1] \o IpToBytes(h.peers[i])
    IN  WriteString(h.version) \o WriteOptionalString(h.node_tag)
        \o h.network_id \o h.peer_id \o h.local_port \o h.utc_time
        \o h.block_height \o h.block_top_hash
        \o <<Len(h.peers) % 256>> \o peerBytes[Len(h.peers)]

(* The loop of Handshake::read: loop[i] is the i-th ip_from_bytes, or the  *)
(* first error, which every later iteration passes on.                     *)
ReadPeers(r, n) ==
    LET loop[i \in 0..n] ==
            IF i = 0 THEN Ok(None, r)
            ELSE Then(loop[i - 1], LAMBDA p, r1 : IpFromBytes(r1))
    IN  Then(loop[n], LAMBDA p, rn : Ok([i \in 1..n |-> loop[i].val], rn))

(* The checks of Handshake::read on the version (line 125) and the node   *)
(* tag (lines 131-135).                                                    *)
VersionInvalidNoEmpty(version) == Len(version) > MAX_LEN

VersionInvalid(version) == Len(version) = 0 \/ Len(version) > MAX_LEN

TagInvalidOffByOne(node_tag) == node_tag # None /\ Len(node_tag[1]) >= MAX_LEN

TagInvalid(node_tag) == node_tag # None /\ Len(node_tag[1]) > MAX_LEN

HandshakeRead(r) ==
  Then(ReadString(r), LAMBDA version, r1 :
  IF VersionInvalid(version) THEN Err("InvalidSize", r1)
  ELSE Then(ReadOptionalString(r1), LAMBDA node_tag, r2 :
  IF TagInvalid(node_tag) THEN Err("InvalidSize", r2)
  ELSE Then(ReadBytes(r2, 16), LAMBDA network_id, r3 :
       Then(ReadU64(r3), LAMBDA peer_id, r4 :
       Then(ReadU16(r4), LAMBDA local_port, r5 :
       Then(ReadU64(r5), LAMBDA utc_time, r6 :
       Then(ReadU64(r6), LAMBDA block_height, r7 :
       Then(ReadHash(r7), LAMBDA block_top_hash, r8 :
       Then(ReadU8(r8), LAMBDA peers_len, r9 :
  IF peers_len > MAX_LEN THEN Err("InvalidSize", r9)
  ELSE Then(ReadPeers(r9, peers_len), LAMBDA peers, r10 :
       HandshakeNew([version |-> version, node_tag |-> node_tag,
                     network_id |-> network_id, peer_id |-> peer_id,
                     local_port |-> local_port, utc_time |-> utc_time,
                     block_height |-> block_height,
                     block_top_hash |-> block_top_hash, peers |-> peers],
                    r10)))))))))))

(************************ p2p/packet/object.rs *****************************)
ObjectRequestWrite(o) == <<IF o.kind = "Block" THEN 0 ELSE 1>> \o o.hash

(* An ObjectRequest::read with `_ => Transaction` for the last arm.        *)
ObjectRequestReadAnyId(r) ==
    Then(ReadU8(r), LAMBDA id, r1 :
        Then(ReadHash(r1), LAMBDA hash, r2 :
             Ok([kind |-> IF id = 0 THEN "Block" ELSE "Transaction",
                 hash |-> hash], r2)))

(* An ObjectRequest::read without the Transaction arm.                    *)
ObjectRequestReadBlockOnly(r) ==
    Then(ReadU8(r), LAMBDA id, r1 :
        IF id # 0 THEN Err("InvalidValue", r1)
        ELSE Then(ReadHash(r1), LAMBDA hash, r2 :
             Ok([kind |-> "Block", hash |-> hash], r2)))

ObjectRequestRead(r) ==
    Then(ReadU8(r), LAMBDA id, r1 :
        IF id \notin {0, 1} THEN Err("InvalidValue", r1)
        ELSE Then(ReadHash(r1), LAMBDA hash, r2 :
             Ok([kind |-> IF id = 0 THEN "Block" ELSE "Transaction",
                 hash |-> hash], r2)))

(* ObjectResponse::NotFound(request): id 2, then the request.  Ids 0 and 1 *)
(* carry a CompleteBlock or a Transaction, whose codecs are not in the    *)
(* source tree: the model reads the id and stops there.                   *)
ObjectResponseWrite(o) == <<2>> \o ObjectRequestWrite(o.request)

ObjectResponseRead(r) ==
    Then(ReadU8(r), LAMBDA id, r1 :
        CASE id = 0 -> Ok([kind |-> "Block"], r1)
          [] id = 1 -> Ok([kind |-> "Transaction"], r1)
          [] id = 2 -> Then(ObjectRequestRead(r1), LAMBDA req, r2 :
                            Ok([kind |-> "NotFound", request |-> req], r2))
          [] OTHER  -> Err("InvalidValue", r1))

(******************************* Inputs ************************************)
(* An encoding, every proper prefix of it (a short read) and every        *)
(* encoding with one byte overwritten.                                     *)
Variants(e) ==
    {e} \cup {SubSeq(e, 1, k) : k \in 0..Len(e) - 1}
        \cup {[e EXCEPT ![i] = v] : i \in DOMAIN e, v \in PacketMutValues}

PacketInputs == UNION {Variants(HandshakeWrite(w)) : w \in WireRecords}

ObjectInputs ==
    UNION {Variants(ObjectRequestWrite(o))
             \cup Variants(ObjectResponseWrite([request |-> o])) :
           o \in RequestSamples}

(* The Reader after all of b was read.                                     *)
ReadAll(b) == [bytes |-> b, total |-> Len(b)]

=============================================================================
