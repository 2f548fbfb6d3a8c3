------------------------ MODULE HandshakeCodec_proofs ------------------------
(***************************************************************************)
(* Proofs about from_bytes (src/p2p/handshake.rs) for every MAX_LEN and    *)
(* every input: the running expected_size keeps every slice in range and   *)
(* Handshake::new's asserts hold, so a remote cannot make the node panic   *)
(* on a bounds check (NoCheckedPanic).  IInv is the inductive invariant.   *)
(***************************************************************************)
EXTENDS HandshakeCodec, TLAPS, SequenceTheorems

(* A byte is a natural number below 256.                                   *)
LEMMA BytesNat ==
    ASSUME NEW x \in Bytes
    PROVE  x \in Nat /\ x <= 255
BY DEF Bytes

(* A byte of the input is a natural number.                                *)
LEMMA ByteNat ==
    ASSUME NEW d \in Seq(Bytes), NEW i \in 1..Len(d)
    PROVE  d[i] \in Nat
<1>1. d[i] \in Bytes
  OBVIOUS
<1>. QED
  BY <1>1, BytesNat

(* The slice d[a+1..b] of a byte string, for a <= b <= Len(d), is a byte   *)
(* string of b - a bytes.                                                  *)
LEMMA SliceBytes ==
    ASSUME NEW d \in Seq(Bytes), NEW a \in Nat, NEW b \in Nat,
           a <= b, b <= Len(d)
    PROVE  /\ SubSeq(d, a + 1, b) \in Seq(Bytes)
           /\ Len(SubSeq(d, a + 1, b)) = b - a
<1>1. \A i \in a + 1 .. b : d[i] \in Bytes
  OBVIOUS
<1>2. /\ SubSeq(d, a + 1, b) \in Seq(Bytes)
      /\ Len(SubSeq(d, a + 1, b)) = IF a + 1 <= b THEN b - (a + 1) + 1 ELSE 0
  BY <1>1, SubSeqProperties
<1>. QED
  BY <1>2

(* Every input of Init is a byte string: an encoding, a truncation of it,  *)
(* it with one byte overwritten, it with a trailing 0, or a string of      *)
(* Received.                                                                *)
LEMMA InputsBytes ==
    ASSUME NEW h \in Samples
    PROVE  Inputs(h) \subseteq Seq(Bytes)
<1> DEFINE e == ToBytes(h)
<1>1. e \in Seq(Bytes)
  BY ConstAssumption
<1>2. ASSUME NEW k \in 0..Len(e) - 1 PROVE SubSeq(e, 1, k) \in Seq(Bytes)
  <2>1. 0 \in Nat /\ k \in Nat /\ 0 <= k /\ k <= Len(e)
    BY <1>1
  <2>2. SubSeq(e, 0 + 1, k) \in Seq(Bytes)
    BY <1>1, <2>1, SliceBytes
  <2>. QED
    BY <2>2
<1>3. ASSUME NEW i \in 1..Len(e), NEW v \in MutValues
      PROVE  [e EXCEPT ![i] = v] \in Seq(Bytes)
  <2>1. v \in Bytes
    BY ConstAssumption
  <2>. QED
    BY <1>1, <2>1, ExceptSeq
<1>4. e \o <<0>> \in Seq(Bytes)
  <2>1. <<0>> \in Seq(Bytes)
    BY DEF Bytes
  <2>. QED
    BY <1>1, <2>1, ConcatProperties
<1>. QED
  BY <1>2, <1>3, <1>4 DEF Inputs

LEMMA InitIInv == Init => IInv
<1> SUFFICES ASSUME Init PROVE IInv
  OBVIOUS
<1>1. data \in Seq(Bytes)
  <2>1. CASE \E h \in Samples : data = ToBytes(h) \/ data \in Inputs(h)
    BY <2>1, InputsBytes, ConstAssumption
  <2>2. CASE data \in Received
    BY <2>2, ConstAssumption
  <2>. QED
    BY <2>1, <2>2 DEF Init
<1>. QED
  BY <1>1 DEF Init, IInv, NoCheckedPanic, Outcomes, Parsing, MinSize

(* Lines 90-93: the size check lets the parse start only on at least      *)
(* expected_size = 75 bytes.                                                *)
LEMMA StartIInv ==
    ASSUME IInv, Start
    PROVE  IInv'
BY DEF Start, IInv, NoCheckedPanic, Outcomes, Parsing

(* Lines 97-105: the version's length byte is in range because 75 bytes   *)
(* are; its bytes are because the check against expected_size + len       *)
(* passed; expected_size then exceeds the cursor by the 74 bytes left.     *)
LEMMA VersionIInv ==
    ASSUME IInv, ReadVersion
    PROVE  IInv'
<1>1. /\ pc = "version" /\ n = 0 /\ expected = MinSize /\ MinSize <= Len(data)
      /\ data \in Seq(Bytes) /\ peers = <<>> /\ MaxLen \in Nat
  BY ConstAssumption DEF ReadVersion, IInv, Parsing
<1>2. n + 1 \in 1..Len(data)
  BY <1>1 DEF MinSize
<1> DEFINE len == At(n)
<1>3. len \in Nat
  BY <1>1, <1>2, ByteNat DEF At
<1>4. InRange(1)
  BY <1>2 DEF InRange
<1>5. CASE len = 0 \/ len > MaxLen \/ Len(data) < expected + len
  <2>1. pc' = "err" /\ UNCHANGED <<data, n, version, peers, peersLen>>
        /\ expected' = expected + len
    BY <1>4, <1>5, Zenon DEF ReadVersion
  <2>. QED
    BY <1>1, <1>3, <2>1 DEF IInv, NoCheckedPanic, Outcomes, Parsing
<1>6. CASE ~(len = 0 \/ len > MaxLen \/ Len(data) < expected + len)
  <2> DEFINE s == SubSeq(data, n + 2, n + 1 + len)
  <2>1. /\ len \in 1..MaxLen /\ expected + len <= Len(data)
        /\ n + 1 + len <= Len(data)
    BY <1>1, <1>3, <1>6 DEF MinSize
  <2>2. s \in Seq(Bytes) /\ Len(s) = len
    <3>1. n + 1 \in Nat /\ n + 1 + len \in Nat /\ n + 1 <= n + 1 + len
      BY <1>1, <1>3
    <3>2. /\ SubSeq(data, (n + 1) + 1, n + 1 + len) \in Seq(Bytes)
          /\ Len(SubSeq(data, (n + 1) + 1, n + 1 + len)) = (n + 1 + len) - (n + 1)
      BY <1>1, <2>1, <3>1, SliceBytes
    <3>3. (n + 1) + 1 = n + 2 /\ (n + 1 + len) - (n + 1) = len
      BY <1>1, <1>3
    <3>. QED
      BY <3>2, <3>3
  <2>3. InRange(1 + len)
    BY <1>1, <1>3, <2>1 DEF InRange
  <2>4. /\ n' = n + 1 + len /\ expected' = expected + len
        /\ UNCHANGED <<data, peers, peersLen>>
        /\ pc' = IF Utf8Valid(s) THEN "tag" ELSE "utf8_panic"
        /\ version' = IF Utf8Valid(s) THEN s ELSE version
    BY <1>4, <1>6, <2>3, Zenon DEF ReadVersion
  <2>5. CASE Utf8Valid(s)
    <3>1. pc' = "tag" /\ version' = s
      BY <2>4, <2>5
    <3>2. expected' = n' + (MinSize - 1)
      BY <1>1, <1>3, <2>4 DEF MinSize
    <3>3. /\ data' \in Seq(Bytes) /\ n' \in Nat /\ expected' \in Nat
          /\ peersLen' \in Nat /\ version' \in Seq(Bytes) /\ peers' \in Seq(Seq(Bytes))
      <4>1. peersLen \in Nat /\ peers \in Seq(Seq(Bytes)) /\ expected \in Nat
        BY DEF IInv
      <4>2. n' \in Nat /\ expected' \in Nat
        BY <1>1, <1>3, <2>4, <4>1
      <4>3. data' \in Seq(Bytes) /\ version' \in Seq(Bytes)
        BY <1>1, <2>2, <2>4, <3>1
      <4>4. peersLen' \in Nat /\ peers' \in Seq(Seq(Bytes))
        BY <4>1, <2>4
      <4>. QED
        BY <4>2, <4>3, <4>4
    <3>4. expected' <= Len(data') /\ Len(version') \in 1..MaxLen /\ peers' = <<>>
      BY <1>1, <2>1, <2>2, <2>4, <3>1
    <3>. QED
      BY <3>1, <3>2, <3>3, <3>4 DEF IInv, NoCheckedPanic, Outcomes, Parsing
  <2>6. CASE ~Utf8Valid(s)
    <3>1. pc' = "utf8_panic" /\ version' = version
      BY <2>4, <2>6
    <3>. QED
      BY <1>1, <1>3, <2>4, <3>1 DEF IInv, NoCheckedPanic, Outcomes, Parsing, Panics
  <2>. QED
    BY <2>5, <2>6
<1>. QED
  BY <1>5, <1>6

(* The typing part of IInv.                                                *)
LEMMA TypeFacts ==
    ASSUME IInv
    PROVE  /\ data \in Seq(Bytes) /\ n \in Nat /\ expected \in Nat
           /\ peersLen \in Nat /\ version \in Seq(Bytes)
           /\ peers \in Seq(Seq(Bytes)) /\ MaxLen \in Nat
BY ConstAssumption DEF IInv

(* The length byte at the cursor is a natural number when it is in range. *)
LEMMA AtNat ==
    ASSUME IInv, n + 1 <= Len(data)
    PROVE  At(n) \in Nat
<1>1. data \in Seq(Bytes) /\ n \in Nat
  BY TypeFacts
<1>2. n + 1 \in 1..Len(data)
  BY <1>1
<1>. QED
  BY <1>1, <1>2, ByteNat DEF At

(* The string after a length byte at the cursor, of len bytes, when its   *)
(* last byte is in range.                                                  *)
LEMMA FieldSlice ==
    ASSUME IInv, NEW len \in Nat, n + 1 + len <= Len(data)
    PROVE  /\ SubSeq(data, n + 2, n + 1 + len) \in Seq(Bytes)
           /\ Len(SubSeq(data, n + 2, n + 1 + len)) = len
<1>1. data \in Seq(Bytes) /\ n \in Nat
  BY TypeFacts
<1>2. n + 1 \in Nat /\ n + 1 + len \in Nat /\ n + 1 <= n + 1 + len
  BY <1>1
<1>3. /\ SubSeq(data, (n + 1) + 1, n + 1 + len) \in Seq(Bytes)
      /\ Len(SubSeq(data, (n + 1) + 1, n + 1 + len)) = (n + 1 + len) - (n + 1)
  BY <1>1, <1>2, SliceBytes
<1>4. (n + 1) + 1 = n + 2 /\ (n + 1 + len) - (n + 1) = len
  BY <1>1
<1>. QED
  BY <1>3, <1>4

(* Lines 108-125: the tag's length byte is in range because 74 bytes are, *)
(* its bytes because expected_size + len passed the check; 73 are left.   *)
LEMMA TagIInv ==
    ASSUME IInv, ReadTag
    PROVE  IInv'
<1>1. /\ pc = "tag" /\ expected = n + (MinSize - 1) /\ expected <= Len(data)
      /\ peers = <<>> /\ Len(version) \in 1..MaxLen
  BY DEF ReadTag, IInv, Parsing
<1>2. /\ data \in Seq(Bytes) /\ n \in Nat /\ expected \in Nat
      /\ peersLen \in Nat /\ version \in Seq(Bytes)
      /\ peers \in Seq(Seq(Bytes)) /\ MaxLen \in Nat
  BY TypeFacts
<1> DEFINE len == At(n)
<1>3. n + 1 <= Len(data) /\ InRange(1)
  BY <1>1, <1>2 DEF MinSize, InRange
<1>4. len \in Nat
  BY <1>3, AtNat
<1>5. CASE len > MaxLen \/ Len(data) < expected + len
  <2>1. pc' = "err" /\ UNCHANGED <<data, n, version, peers, peersLen>>
        /\ expected' = expected + len
    BY <1>3, <1>5, Zenon DEF ReadTag
  <2>. QED
    BY <1>2, <1>4, <2>1 DEF IInv, NoCheckedPanic, Outcomes, Parsing
<1>6. CASE ~(len > MaxLen \/ Len(data) < expected + len)
  <2>1. /\ len <= MaxLen /\ expected + len <= Len(data)
        /\ n + 1 + len <= Len(data) /\ InRange(1 + len)
        /\ expected + len = (n + 1 + len) + (FixedLen + 1)
    BY <1>1, <1>2, <1>4, <1>6 DEF MinSize, FixedLen, InRange
  <2> DEFINE s == SubSeq(data, n + 2, n + 1 + len)
  <2>2. s \in Seq(Bytes) /\ Len(s) = len
    BY <1>4, <2>1, FieldSlice
  <2>3. /\ n' = n + 1 + len /\ expected' = expected + len
        /\ UNCHANGED <<data, version, peers, peersLen>>
        /\ pc' = IF len = 0 THEN "fixed" ELSE IF Utf8Valid(s) THEN "fixed" ELSE "err"
        /\ tag' = IF len = 0 THEN None ELSE IF Utf8Valid(s) THEN <<s>> ELSE tag
    BY <1>3, <1>6, <2>1, Zenon DEF ReadTag
  <2>4. /\ data' \in Seq(Bytes) /\ n' \in Nat /\ expected' \in Nat
        /\ peersLen' \in Nat /\ version' \in Seq(Bytes) /\ peers' \in Seq(Seq(Bytes))
        /\ expected' <= Len(data') /\ expected' = n' + (FixedLen + 1)
        /\ Len(version') \in 1..MaxLen /\ peers' = <<>>
    BY <1>1, <1>2, <1>4, <2>1, <2>3
  <2>5. pc' = "fixed" => tag' = None \/ Len(tag'[1]) \in 1..MaxLen
    BY <1>4, <2>1, <2>2, <2>3
  <2>. QED
    BY <2>3, <2>4, <2>5 DEF IInv, NoCheckedPanic, Outcomes, Parsing
<1>. QED
  BY <1>5, <1>6

(* Lines 127-140: the 72 fixed bytes are in range because 73 are; the    *)
(* peer count is left.                                                     *)
LEMMA FixedIInv ==
    ASSUME IInv, ReadFixed
    PROVE  IInv'
<1>1. /\ pc = "fixed" /\ expected = n + (FixedLen + 1) /\ expected <= Len(data)
      /\ peers = <<>> /\ Len(version) \in 1..MaxLen
      /\ tag = None \/ Len(tag[1]) \in 1..MaxLen
  BY DEF ReadFixed, IInv, Parsing
<1>2. /\ data \in Seq(Bytes) /\ n \in Nat /\ expected \in Nat
      /\ peersLen \in Nat /\ version \in Seq(Bytes)
      /\ peers \in Seq(Seq(Bytes)) /\ MaxLen \in Nat
  BY TypeFacts
<1>3. InRange(FixedLen)
  BY <1>1, <1>2 DEF InRange, FixedLen
<1>4. /\ pc' = "peers_len" /\ n' = n + FixedLen
      /\ UNCHANGED <<data, expected, version, tag, peersLen, peers>>
  BY <1>3, Zenon DEF ReadFixed
<1>5. /\ n' \in Nat /\ expected' = n' + 1 /\ expected' <= Len(data')
  BY <1>1, <1>2, <1>4 DEF FixedLen
<1>. QED
  BY <1>1, <1>2, <1>4, <1>5 DEF IInv, NoCheckedPanic, Outcomes, Parsing

(* Lines 142-147: the count byte is in range because one byte is left;    *)
(* expected_size grows by one size byte per peer.                          *)
LEMMA PeersLenIInv ==
    ASSUME IInv, ReadPeersLen
    PROVE  IInv'
<1>1. /\ pc = "peers_len" /\ expected = n + 1 /\ expected <= Len(data)
      /\ peers = <<>> /\ Len(version) \in 1..MaxLen
      /\ tag = None \/ Len(tag[1]) \in 1..MaxLen
  BY DEF ReadPeersLen, IInv, Parsing
<1>2. /\ data \in Seq(Bytes) /\ n \in Nat /\ expected \in Nat
      /\ peersLen \in Nat /\ version \in Seq(Bytes)
      /\ peers \in Seq(Seq(Bytes)) /\ MaxLen \in Nat
  BY TypeFacts
<1> DEFINE len == At(n)
<1>3. n + 1 <= Len(data) /\ InRange(1)
  BY <1>1, <1>2 DEF InRange
<1>4. len \in Nat
  BY <1>3, AtNat
<1>5. CASE len > MaxLen \/ Len(data) < expected + len
  <2>1. pc' = "err" /\ UNCHANGED <<data, n, version, peers, peersLen>>
        /\ expected' = expected + len
    BY <1>3, <1>5, Zenon DEF ReadPeersLen
  <2>. QED
    BY <1>2, <1>4, <2>1 DEF IInv, NoCheckedPanic, Outcomes, Parsing
<1>6. CASE ~(len > MaxLen \/ Len(data) < expected + len)
  <2>1. /\ pc' = "peer" /\ n' = n + 1 /\ peersLen' = len /\ expected' = expected + len
        /\ UNCHANGED <<data, version, tag, peers>>
    BY <1>3, <1>6, Zenon DEF ReadPeersLen
  <2>2. /\ n' \in Nat /\ expected' \in Nat /\ peersLen' \in Nat
        /\ expected' <= Len(data') /\ expected' + Len(peers') = n' + peersLen'
        /\ Len(peers') <= peersLen' /\ peersLen' <= MaxLen
    BY <1>1, <1>2, <1>4, <1>6, <2>1
  <2>. QED
    BY <1>1, <1>2, <2>1, <2>2 DEF IInv, NoCheckedPanic, Outcomes, Parsing
<1>. QED
  BY <1>5, <1>6

(* Lines 150-162: with a peer left to read, one size byte is within       *)
(* expected_size, so the size byte is in range, and so is the address     *)
(* once expected_size + size passed the check.                             *)
LEMMA PeerIInv ==
    ASSUME IInv, ReadPeer
    PROVE  IInv'
<1>1. /\ pc = "peer" /\ Len(peers) < peersLen
      /\ expected + Len(peers) = n + peersLen /\ expected <= Len(data)
      /\ Len(version) \in 1..MaxLen /\ peersLen <= MaxLen
      /\ tag = None \/ Len(tag[1]) \in 1..MaxLen
  BY DEF ReadPeer, IInv, Parsing
<1>2. /\ data \in Seq(Bytes) /\ n \in Nat /\ expected \in Nat
      /\ peersLen \in Nat /\ version \in Seq(Bytes)
      /\ peers \in Seq(Seq(Bytes)) /\ MaxLen \in Nat
  BY TypeFacts
<1> DEFINE size == At(n)
<1>3. n + 1 <= expected /\ n + 1 <= Len(data) /\ InRange(1)
  BY <1>1, <1>2 DEF InRange
<1>4. size \in Nat
  BY <1>3, AtNat
<1>5. CASE size = 0 \/ size > MaxLen \/ Len(data) < expected + size
  <2>1. pc' = "err" /\ UNCHANGED <<data, n, version, peers, peersLen>>
        /\ expected' = expected + size
    BY <1>3, <1>5, Zenon DEF ReadPeer
  <2>. QED
    BY <1>2, <1>4, <2>1 DEF IInv, NoCheckedPanic, Outcomes, Parsing
<1>6. CASE ~(size = 0 \/ size > MaxLen \/ Len(data) < expected + size)
  <2>1. /\ expected + size <= Len(data)
        /\ n + 1 + size <= Len(data) /\ InRange(1 + size)
    BY <1>2, <1>3, <1>4, <1>6 DEF InRange
  <2> DEFINE s == SubSeq(data, n + 2, n + 1 + size)
  <2>2. s \in Seq(Bytes) /\ Len(s) = size
    BY <1>4, <2>1, FieldSlice
  <2>3. /\ n' = n + 1 + size /\ expected' = expected + size
        /\ UNCHANGED <<data, version, tag, peersLen>>
        /\ pc' = IF Utf8Valid(s) THEN "peer" ELSE "utf8_panic"
        /\ peers' = IF Utf8Valid(s) THEN Append(peers, s) ELSE peers
    BY <1>3, <1>6, <2>1, Zenon DEF ReadPeer
  <2>4. CASE Utf8Valid(s)
    <3>1. pc' = "peer" /\ peers' = Append(peers, s)
      BY <2>3, <2>4
    <3>2. peers' \in Seq(Seq(Bytes)) /\ Len(peers') = Len(peers) + 1
      BY <1>2, <2>2, <3>1, AppendProperties
    <3>3. /\ n' \in Nat /\ expected' \in Nat /\ expected' <= Len(data')
          /\ expected' + Len(peers') = n' + peersLen'
          /\ Len(peers') <= peersLen'
      <4>1. Len(peers) \in Nat
        BY <1>2
      <4>2. n' = n + 1 + size /\ expected' = expected + size /\ data' = data
            /\ peersLen' = peersLen
        BY <2>3
      <4>3. expected + size + (Len(peers) + 1) = (n + 1 + size) + peersLen
        <5>1. expected + Len(peers) = n + peersLen
          BY <1>1
        <5>2. expected + size + (Len(peers) + 1)
                = (expected + Len(peers)) + size + 1
          BY <1>2, <1>4, <4>1
        <5>3. (expected + Len(peers)) + size + 1 = (n + peersLen) + size + 1
          BY <5>1
        <5>4. (n + peersLen) + size + 1 = (n + 1 + size) + peersLen
          BY <1>2, <1>4
        <5>. QED
          BY <5>2, <5>3, <5>4
      <4>4. Len(peers) + 1 <= peersLen
        BY <1>1, <1>2, <4>1
      <4>5. n + 1 + size \in Nat /\ expected + size \in Nat
        BY <1>2, <1>4
      <4>. QED
        BY <2>1, <3>2, <4>2, <4>3, <4>4, <4>5
    <3>. QED
      BY <1>1, <1>2, <2>3, <3>1, <3>2, <3>3 DEF IInv, NoCheckedPanic, Outcomes, Parsing
  <2>5. CASE ~Utf8Valid(s)
    <3>1. pc' = "utf8_panic" /\ peers' = peers
      BY <2>3, <2>5
    <3>. QED
      BY <1>2, <1>4, <2>3, <3>1 DEF IInv, NoCheckedPanic, Outcomes, Parsing, Panics
  <2>. QED
    BY <2>4, <2>5
<1>. QED
  BY <1>5, <1>6

(* Line 164: with every peer read, the fields pass Handshake::new's       *)
(* asserts, so the parse ends in "done".                                   *)
LEMMA NewIInv ==
    ASSUME IInv, New
    PROVE  IInv'
<1>1. /\ pc = "peer" /\ Len(peers) = peersLen /\ peersLen <= MaxLen
      /\ Len(version) \in 1..MaxLen
      /\ tag = None \/ Len(tag[1]) \in 1..MaxLen
  BY DEF New, IInv, Parsing
<1>2. NewOk([version |-> version, tag |-> tag, fixed |-> fixed, peers |-> peers])
  BY <1>1 DEF NewOk
<1>3. pc' = "done" /\ UNCHANGED <<data, n, expected, version, tag, peersLen, peers>>
  BY <1>2 DEF New
<1>. QED
  BY <1>3 DEF IInv, NoCheckedPanic, Outcomes, Parsing

(* Every step of from_bytes, and a stutter, keeps IInv.                    *)
LEMMA NextIInv == IInv /\ [Next]_vars => IInv'
<1> SUFFICES ASSUME IInv, [Next]_vars PROVE IInv'
  OBVIOUS
<1>1. CASE Start
  BY <1>1, StartIInv
<1>2. CASE ReadVersion
  BY <1>2, VersionIInv
<1>3. CASE ReadTag
  BY <1>3, TagIInv
<1>4. CASE ReadFixed
  BY <1>4, FixedIInv
<1>5. CASE ReadPeersLen
  BY <1>5, PeersLenIInv
<1>6. CASE ReadPeer
  BY <1>6, PeerIInv
<1>7. CASE New
  BY <1>7, NewIInv
<1>8. CASE UNCHANGED vars
  BY <1>8 DEF vars, IInv, NoCheckedPanic, Outcomes, Parsing
<1>. QED
  BY <1>1, <1>2, <1>3, <1>4, <1>5, <1>6, <1>7, <1>8 DEF Next

(* IInv holds in every state of every run of from_bytes.                   *)
THEOREM IInvHolds == Spec => []IInv
BY InitIInv, NextIInv, PTL DEF Spec

(* Whatever bytes are received, from_bytes never indexes past the end of  *)
(* its input (the `bytes[i]` and slice expressions of p2p/handshake.rs     *)
(* lines 96-162) and never hands Handshake::new values its asserts refuse: the  *)
(* only panic left to a remote is the unchecked from_utf8(..).unwrap().   *)
THEOREM NoCheckedPanicHolds == Spec => []NoCheckedPanic
<1>1. IInv => NoCheckedPanic
  BY DEF IInv
<1>. QED
  BY <1>1, IInvHolds, PTL

-----------------------------------------------------------------------------
(* Type correctness.  IInv' gives the types of pc, expected, version and   *)
(* peers; each step of from_bytes must keep the cursor within the input,   *)
(* the tag an Option, the peer count a byte and the peers read within it.  *)
LEMMA TypeStep ==
    ASSUME TypeOK, IInv', data' = data, n' \in 0..Len(data),
           fixed' \in Seq(Bytes), tag' \in Seq(Seq(Bytes)), Len(tag') <= 1,
           peersLen' \in 0..255, Len(peers') <= peersLen'
    PROVE  TypeOK'
BY DEF TypeOK, IInv, Parsing, Outcomes

(* TypeOK bounds the cursor by the input.                                  *)
LEMMA CursorNat ==
    ASSUME TypeOK
    PROVE  n \in Nat /\ n <= Len(data) /\ data \in Seq(Bytes)
BY DEF TypeOK

LEMMA StartTypeOK ==
    ASSUME TypeOK, IInv, Start
    PROVE  TypeOK'
BY DEF Start, TypeOK, Outcomes

LEMMA NewTypeOK ==
    ASSUME TypeOK, IInv, New
    PROVE  TypeOK'
BY DEF New, TypeOK, Outcomes, Panics

(* Lines 97-105: the version leaves the cursor at most at the end of the  *)
(* input, expected_size + len having passed the check.                     *)
LEMMA VersionTypeOK ==
    ASSUME TypeOK, IInv, ReadVersion
    PROVE  TypeOK'
<1>1. /\ pc = "version" /\ n = 0 /\ expected = MinSize /\ MinSize <= Len(data)
  BY DEF ReadVersion, IInv, Parsing
<1>2. n \in Nat /\ n <= Len(data) /\ data \in Seq(Bytes)
  BY CursorNat
<1>3. InRange(1) /\ n + 1 <= Len(data)
  BY <1>1 DEF InRange, MinSize
<1> DEFINE len == At(n)
<1>4. len \in Nat
  BY <1>3, AtNat
<1>5. /\ data' = data /\ tag' = tag /\ fixed' = fixed
      /\ peersLen' = peersLen /\ peers' = peers
  BY <1>3, Zenon DEF ReadVersion
<1>6. n' \in 0..Len(data)
  <2>1. CASE len = 0 \/ len > MaxLen \/ Len(data) < expected + len
    <3>1. n' = n
      BY <1>3, <2>1, Zenon DEF ReadVersion
    <3>. QED
      BY <1>2, <3>1
  <2>2. CASE ~(len = 0 \/ len > MaxLen \/ Len(data) < expected + len)
    <3>1. n' = n + 1 + len
      BY <1>3, <2>2, Zenon DEF ReadVersion
    <3>. QED
      BY <1>1, <1>2, <1>4, <2>2, <3>1 DEF MinSize
  <2>. QED
    BY <2>1, <2>2
<1>7. /\ fixed' \in Seq(Bytes) /\ tag' \in Seq(Seq(Bytes)) /\ Len(tag') <= 1
      /\ peersLen' \in 0..255 /\ Len(peers') <= peersLen'
  BY <1>5 DEF TypeOK
<1>8. IInv'
  BY VersionIInv
<1>. QED
  BY <1>5, <1>6, <1>7, <1>8, TypeStep

(* Lines 108-125: the tag is None or Some of a byte string, and the        *)
(* cursor stays within the input.                                          *)
LEMMA TagTypeOK ==
    ASSUME TypeOK, IInv, ReadTag
    PROVE  TypeOK'
<1>1. pc = "tag" /\ expected = n + (MinSize - 1) /\ expected <= Len(data)
  BY DEF ReadTag, IInv, Parsing
<1>2. n \in Nat /\ n <= Len(data) /\ data \in Seq(Bytes)
  BY CursorNat
<1>3. InRange(1) /\ n + 1 <= Len(data)
  BY <1>1, <1>2 DEF InRange, MinSize
<1> DEFINE len == At(n)
           s == SubSeq(data, n + 2, n + 1 + len)
<1>4. len \in Nat
  BY <1>3, AtNat
<1>5. /\ data' = data /\ fixed' = fixed
      /\ peersLen' = peersLen /\ peers' = peers
  BY <1>3, Zenon DEF ReadTag
<1>6. n' \in 0..Len(data) /\ tag' \in Seq(Seq(Bytes)) /\ Len(tag') <= 1
  <2>1. CASE len > MaxLen \/ Len(data) < expected + len
    <3>1. n' = n /\ tag' = tag
      BY <1>3, <2>1, Zenon DEF ReadTag
    <3>. QED
      BY <1>2, <3>1 DEF TypeOK
  <2>2. CASE ~(len > MaxLen \/ Len(data) < expected + len)
    <3>1. n + 1 + len <= Len(data)
      BY <1>1, <1>2, <1>4, <2>2 DEF MinSize
    <3>2. n' = n + 1 + len /\ tag' \in {None, tag, <<s>>}
      BY <1>3, <2>2, Zenon DEF ReadTag, InRange
    <3>3. s \in Seq(Bytes)
      BY <1>4, <3>1, FieldSlice
    <3>4. tag' \in Seq(Seq(Bytes)) /\ Len(tag') <= 1
      <4>1. CASE tag' = <<s>>
        <5>1. <<s>> \in Seq(Seq(Bytes)) /\ Len(<<s>>) = 1
          BY <3>3
        <5>. QED
          BY <4>1, <5>1
      <4>2. CASE tag' = None
        BY <4>2 DEF None
      <4>3. CASE tag' = tag
        BY <4>3 DEF TypeOK
      <4>. QED
        BY <3>2, <4>1, <4>2, <4>3
    <3>. QED
      BY <1>2, <1>4, <3>1, <3>2, <3>4
  <2>. QED
    BY <2>1, <2>2
<1>7. fixed' \in Seq(Bytes) /\ peersLen' \in 0..255 /\ Len(peers') <= peersLen'
  BY <1>5 DEF TypeOK
<1>8. IInv'
  BY TagIInv
<1>. QED
  BY <1>5, <1>6, <1>7, <1>8, TypeStep

(* Lines 127-140: the fixed fields are 72 bytes of the input.              *)
LEMMA FixedTypeOK ==
    ASSUME TypeOK, IInv, ReadFixed
    PROVE  TypeOK'
<1>1. pc = "fixed" /\ expected = n + (FixedLen + 1) /\ expected <= Len(data)
  BY DEF ReadFixed, IInv, Parsing
<1>2. n \in Nat /\ n <= Len(data) /\ data \in Seq(Bytes)
  BY CursorNat
<1>3. InRange(FixedLen) /\ n + FixedLen <= Len(data) /\ FixedLen \in Nat
  BY <1>1, <1>2 DEF InRange, FixedLen
<1>4. /\ data' = data /\ tag' = tag /\ peersLen' = peersLen /\ peers' = peers
      /\ fixed' = Slice(FixedLen) /\ n' = n + FixedLen
  BY <1>3, Zenon DEF ReadFixed
<1>5. Slice(FixedLen) \in Seq(Bytes)
  <2>1. n + FixedLen \in Nat /\ n <= n + FixedLen
    BY <1>2, <1>3
  <2>. QED
    BY <1>2, <1>3, <2>1, SliceBytes DEF Slice
<1>6. /\ n' \in 0..Len(data) /\ fixed' \in Seq(Bytes)
      /\ tag' \in Seq(Seq(Bytes)) /\ Len(tag') <= 1
      /\ peersLen' \in 0..255 /\ Len(peers') <= peersLen'
  BY <1>2, <1>3, <1>4, <1>5 DEF TypeOK
<1>7. IInv'
  BY FixedIInv
<1>. QED
  BY <1>4, <1>6, <1>7, TypeStep

(* Lines 142-147: the peer count is a byte of the input, and no peer has  *)
(* been read yet.                                                          *)
LEMMA PeersLenTypeOK ==
    ASSUME TypeOK, IInv, ReadPeersLen
    PROVE  TypeOK'
<1>1. pc = "peers_len" /\ expected = n + 1 /\ expected <= Len(data) /\ peers = <<>>
  BY DEF ReadPeersLen, IInv, Parsing
<1>2. n \in Nat /\ n <= Len(data) /\ data \in Seq(Bytes)
  BY CursorNat
<1>3. InRange(1) /\ n + 1 \in 1..Len(data)
  BY <1>1, <1>2 DEF InRange
<1> DEFINE len == At(n)
<1>4. len \in 0..255
  <2>1. len \in Bytes
    BY <1>2, <1>3 DEF At
  <2>. QED
    BY <2>1 DEF Bytes
<1>5. /\ data' = data /\ tag' = tag /\ fixed' = fixed /\ peers' = peers
      /\ \/ n' = n /\ peersLen' = peersLen
         \/ n' = n + 1 /\ peersLen' = len
  BY <1>3, Zenon DEF ReadPeersLen
<1>6. /\ n' \in 0..Len(data) /\ fixed' \in Seq(Bytes)
      /\ tag' \in Seq(Seq(Bytes)) /\ Len(tag') <= 1
      /\ peersLen' \in 0..255 /\ Len(peers') <= peersLen'
  <2>1. /\ fixed' \in Seq(Bytes) /\ tag' \in Seq(Seq(Bytes)) /\ Len(tag') <= 1
        /\ Len(peers') = 0
    BY <1>1, <1>5 DEF TypeOK
  <2>2. n' \in 0..Len(data) /\ peersLen' \in 0..255
    <3>1. CASE n' = n /\ peersLen' = peersLen
      BY <1>2, <3>1 DEF TypeOK
    <3>2. CASE n' = n + 1 /\ peersLen' = len
      BY <1>2, <1>3, <1>4, <3>2
    <3>. QED
      BY <1>5, <3>1, <3>2
  <2>. QED
    BY <2>1, <2>2
<1>7. IInv'
  BY PeersLenIInv
<1>. QED
  BY <1>5, <1>6, <1>7, TypeStep

(* Lines 150-162: a peer is appended only while fewer than the peer count *)
(* have been read, and its bytes end within the input.                     *)
LEMMA PeerTypeOK ==
    ASSUME TypeOK, IInv, ReadPeer
    PROVE  TypeOK'
<1>1. /\ pc = "peer" /\ Len(peers) < peersLen
      /\ expected + Len(peers) = n + peersLen /\ expected <= Len(data)
  BY DEF ReadPeer, IInv, Parsing
<1>2. /\ n \in Nat /\ n <= Len(data) /\ data \in Seq(Bytes)
      /\ expected \in Nat /\ peersLen \in Nat /\ peers \in Seq(Seq(Bytes))
  BY CursorNat, TypeFacts
<1>3. n + 1 <= expected
  <2>1. Len(peers) \in Nat
    BY <1>2
  <2>. QED
    BY <1>1, <1>2, <2>1
<1>4. InRange(1) /\ n + 1 <= Len(data)
  BY <1>1, <1>2, <1>3 DEF InRange
<1> DEFINE size == At(n)
           s == SubSeq(data, n + 2, n + 1 + size)
<1>5. size \in Nat
  BY <1>4, AtNat
<1>6. /\ data' = data /\ tag' = tag /\ fixed' = fixed /\ peersLen' = peersLen
  BY <1>4, Zenon DEF ReadPeer
<1>7. n' \in 0..Len(data) /\ Len(peers') <= peersLen'
  <2>1. CASE size = 0 \/ size > MaxLen \/ Len(data) < expected + size
    <3>1. n' = n /\ peers' = peers
      BY <1>4, <2>1, Zenon DEF ReadPeer
    <3>. QED
      BY <1>2, <1>6, <3>1 DEF TypeOK
  <2>2. CASE ~(size = 0 \/ size > MaxLen \/ Len(data) < expected + size)
    <3>1. n + 1 + size <= Len(data)
      BY <1>2, <1>3, <1>5, <2>2
    <3>2. n' = n + 1 + size /\ peers' \in {peers, Append(peers, s)}
      BY <1>4, <2>2, <3>1, Zenon DEF ReadPeer, InRange
    <3>3. Len(peers') <= peersLen
      <4>1. Len(Append(peers, s)) = Len(peers) + 1
        BY <1>2, AppendProperties
      <4>2. Len(peers) \in Nat
        BY <1>2
      <4>. QED
        BY <1>1, <1>2, <3>2, <4>1, <4>2 DEF TypeOK
    <3>. QED
      BY <1>2, <1>5, <1>6, <3>1, <3>2, <3>3
  <2>. QED
    BY <2>1, <2>2
<1>8. /\ fixed' \in Seq(Bytes) /\ tag' \in Seq(Seq(Bytes)) /\ Len(tag') <= 1
      /\ peersLen' \in 0..255
  BY <1>6 DEF TypeOK
<1>9. IInv'
  BY PeerIInv
<1>. QED
  BY <1>6, <1>7, <1>8, <1>9, TypeStep

LEMMA InitTypeOK == Init => TypeOK
<1> SUFFICES ASSUME Init PROVE TypeOK
  OBVIOUS
<1>1. data \in Seq(Bytes)
  BY InitIInv DEF IInv
<1>2. /\ pc = "start" /\ n = 0 /\ expected = MinSize
      /\ version = <<>> /\ tag = <<>> /\ fixed = <<>>
      /\ peersLen = 0 /\ peers = <<>>
  BY DEF Init, None
<1>. QED
  BY <1>1, <1>2 DEF TypeOK, MinSize

(* Every step of from_bytes, and a stutter, keeps TypeOK where IInv holds. *)
LEMMA NextTypeOK == TypeOK /\ IInv /\ [Next]_vars => TypeOK'
<1> SUFFICES ASSUME TypeOK, IInv, [Next]_vars PROVE TypeOK'
  OBVIOUS
<1>1. CASE Start
  BY <1>1, StartTypeOK
<1>2. CASE ReadVersion
  BY <1>2, VersionTypeOK
<1>3. CASE ReadTag
  BY <1>3, TagTypeOK
<1>4. CASE ReadFixed
  BY <1>4, FixedTypeOK
<1>5. CASE ReadPeersLen
  BY <1>5, PeersLenTypeOK
<1>6. CASE ReadPeer
  BY <1>6, PeerTypeOK
<1>7. CASE New
  BY <1>7, NewTypeOK
<1>8. CASE UNCHANGED vars
  BY <1>8 DEF vars, TypeOK
<1>. QED
  BY <1>1, <1>2, <1>3, <1>4, <1>5, <1>6, <1>7, <1>8 DEF Next

(* Whatever bytes are received, from_bytes keeps its cursor within the    *)
(* input, the node tag an Option, the peer count a byte and the peers it  *)
(* has read within that count.                                             *)
THEOREM TypeCorrect == Spec => []TypeOK
<1>1. Init => TypeOK /\ IInv
  BY InitTypeOK, InitIInv
<1>2. TypeOK /\ IInv /\ [Next]_vars => TypeOK' /\ IInv'
  BY NextTypeOK, NextIInv
<1>. QED
  BY <1>1, <1>2, PTL DEF Spec
=============================================================================
