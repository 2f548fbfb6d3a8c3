------------------------- MODULE PacketCodec_proofs -------------------------
(***************************************************************************)
(* Proofs about the Reader of core/reader.rs and the ObjectRequest and     *)
(* ObjectResponse codecs of p2p/packet/object.rs, for every hash and every *)
(* byte string rather than for the samples and the one-byte variants TLC  *)
(* enumerates.                                                             *)
(***************************************************************************)
EXTENDS CodecLaws, HandshakeCodec_proofs, TLAPS, SequenceTheorems

(* The fields of a successful result.                                      *)
LEMMA OkFields ==
    ASSUME NEW X, NEW v, NEW q, X = Ok(v, q)
    PROVE  X.ok /\ X.val = v /\ X.rd = q
BY Zenon DEF Ok

(* read_u8 takes the byte under the cursor only when one remains: the     *)
(* index self.bytes[self.total] is in range.                               *)
LEMMA ReadU8Ok ==
    ASSUME NEW b \in Seq(Bytes), NEW t \in Nat, t < Len(b)
    PROVE  ReadU8([bytes |-> b, total |-> t])
             = Ok(b[t + 1], [bytes |-> b, total |-> t + 1])
BY DEF ReadU8, ReaderSize

LEMMA ReadU8Short ==
    ASSUME NEW b \in Seq(Bytes), NEW t \in Nat, Len(b) = t
    PROVE  ReadU8([bytes |-> b, total |-> t])
             = Err("InvalidSize", [bytes |-> b, total |-> t])
BY DEF ReadU8, ReaderSize

(* read_bytes(32) takes the slice self.bytes[total..total+32] only when   *)
(* 32 bytes remain: the slice is in range.                                 *)
LEMMA ReadHashOk ==
    ASSUME NEW b \in Seq(Bytes), NEW t \in Nat, t + 32 <= Len(b)
    PROVE  ReadHash([bytes |-> b, total |-> t])
             = Ok(SubSeq(b, t + 1, t + 32), [bytes |-> b, total |-> t + 32])
BY DEF ReadHash, ReadBytes, ReaderSize

LEMMA ReadHashShort ==
    ASSUME NEW b \in Seq(Bytes), NEW t \in Nat, ~(t + 32 <= Len(b))
    PROVE  ReadHash([bytes |-> b, total |-> t])
             = Err("InvalidSize", [bytes |-> b, total |-> t])
BY DEF ReadHash, ReadBytes, ReaderSize

(* A byte put in front of a buffer: its length, its first byte and the    *)
(* rest as a subsequence.                                                  *)
LEMMA ConsBytes ==
    ASSUME NEW x \in Bytes, NEW h \in Seq(Bytes), Len(h) >= 1
    PROVE  /\ <<x>> \o h \in Seq(Bytes)
           /\ Len(<<x>> \o h) = 1 + Len(h)
           /\ (<<x>> \o h)[1] = x
           /\ SubSeq(<<x>> \o h, 2, 1 + Len(h)) = h
<1>1. <<x>> \in Seq(Bytes) /\ Len(<<x>>) = 1
  OBVIOUS
<1>2. /\ <<x>> \o h \in Seq(Bytes)
      /\ Len(<<x>> \o h) = 1 + Len(h)
      /\ (<<x>> \o h)[1] = x
  BY <1>1, ConcatProperties
<1>3. SubSeq(<<x>> \o h, 2, 1 + Len(h)) = SubSeq(h, 1, Len(h))
  BY <1>1, SubSeqOfConcat2
<1>. QED
  BY <1>2, <1>3, SubSeqFull

(* Past the leading byte, <<x>> \o h is h shifted by one.                  *)
LEMMA ConsShift ==
    ASSUME NEW x \in Bytes, NEW h \in Seq(Bytes),
           NEW i \in 1 .. Len(h), NEW j \in 1 .. Len(h)
    PROVE  /\ SubSeq(<<x>> \o h, i + 1, j + 1) = SubSeq(h, i, j)
           /\ (<<x>> \o h)[i + 1] = h[i]
<1>1. <<x>> \in Seq(Bytes) /\ Len(<<x>>) = 1
  OBVIOUS
<1>2. /\ i + 1 \in Len(<<x>>) + 1 .. Len(<<x>>) + Len(h)
      /\ j + 1 \in Len(<<x>>) + 1 .. Len(<<x>>) + Len(h)
      /\ i + 1 - Len(<<x>>) = i /\ j + 1 - Len(<<x>>) = j
      /\ i + 1 \in 1 .. Len(<<x>>) + Len(h) /\ ~(i + 1 <= Len(<<x>>))
  BY <1>1
<1>3. SubSeq(<<x>> \o h, i + 1, j + 1)
        = SubSeq(h, i + 1 - Len(<<x>>), j + 1 - Len(<<x>>))
  BY <1>1, <1>2, SubSeqOfConcat2
<1>4. (<<x>> \o h)[i + 1] = h[i + 1 - Len(<<x>>)]
  BY <1>1, <1>2, ConcatProperties
<1>. QED
  BY <1>2, <1>3, <1>4

(* The code byte of an ObjectRequest.                                      *)
Code(o) == IF o.kind = "Block" THEN 0 ELSE 1

(* A hash is 32 bytes.                                                     *)
LEMMA HashLen ==
    ASSUME NEW o \in ObjectRequests
    PROVE  Len(o.hash) = 32
BY DEF ObjectRequests, Hashes

LEMMA RequestFields ==
    ASSUME NEW o \in ObjectRequests
    PROVE  /\ o.hash \in Seq(Bytes) /\ 1 <= Len(o.hash)
           /\ Code(o) \in Bytes /\ Code(o) \in {0, 1}
           /\ ObjectRequestWrite(o) = <<Code(o)>> \o o.hash
           /\ o = [kind |-> IF Code(o) = 0 THEN "Block" ELSE "Transaction",
                   hash |-> o.hash]
<1>1. o.hash \in Seq(Bytes) /\ 1 <= Len(o.hash)
  <2>1. o.hash \in Seq(Bytes)
    BY DEF ObjectRequests, Hashes
  <2>2. Len(o.hash) = 32
    BY HashLen
  <2>. QED
    BY <2>1, <2>2
<1>2. Code(o) \in Bytes
  BY DEF Code, Bytes
<1>3. Code(o) \in {0, 1}
  BY DEF Code
<1>4. o = [kind |-> IF Code(o) = 0 THEN "Block" ELSE "Transaction",
           hash |-> o.hash]
  BY DEF ObjectRequests, Code
<1>. QED
  BY <1>1, <1>2, <1>3, <1>4 DEF ObjectRequestWrite, Code

(* The encoding of a request: its code byte, then its hash.               *)
LEMMA RequestBytes ==
    ASSUME NEW o \in ObjectRequests
    PROVE  LET w == ObjectRequestWrite(o) IN
           /\ w \in Seq(Bytes)
           /\ Len(w) = 33
           /\ w[1] = Code(o)
           /\ SubSeq(w, 2, 33) = o.hash
<1> DEFINE w == ObjectRequestWrite(o)
<1>1. /\ o.hash \in Seq(Bytes) /\ 1 <= Len(o.hash)
      /\ Code(o) \in Bytes
      /\ w = <<Code(o)>> \o o.hash
  BY RequestFields
<1>2. /\ <<Code(o)>> \o o.hash \in Seq(Bytes)
      /\ Len(<<Code(o)>> \o o.hash) = 1 + Len(o.hash)
      /\ (<<Code(o)>> \o o.hash)[1] = Code(o)
      /\ SubSeq(<<Code(o)>> \o o.hash, 2, 1 + Len(o.hash)) = o.hash
  BY <1>1, ConsBytes
<1>3. 1 + Len(o.hash) = 33
  <2>1. Len(o.hash) = 32
    BY HashLen
  <2>. QED
    BY <2>1
<1>. QED
  BY <1>1, <1>2, <1>3, Zenon

(* ObjectRequest::read at any cursor reads back the request whose         *)
(* encoding lies under the cursor, and moves the cursor past its 33 bytes. *)
LEMMA RequestReadAt ==
    ASSUME NEW o \in ObjectRequests, NEW b \in Seq(Bytes), NEW t \in Nat,
           t + 33 <= Len(b), b[t + 1] = Code(o),
           SubSeq(b, t + 2, t + 33) = o.hash
    PROVE  ObjectRequestRead([bytes |-> b, total |-> t])
             = Ok(o, [bytes |-> b, total |-> t + 33])
<1> DEFINE c == Code(o)
           r1 == [bytes |-> b, total |-> t + 1]
           rest == Then(ReadHash(r1), LAMBDA hash, r2 :
                      Ok([kind |-> IF c = 0 THEN "Block" ELSE "Transaction",
                          hash |-> hash], r2))
<1>1. c \in {0, 1}
  BY RequestFields
<1>2. ReadU8([bytes |-> b, total |-> t]) = Ok(c, r1)
  <2>1. t < Len(b)
    OBVIOUS
  <2>. QED
    BY <2>1, ReadU8Ok
<1>3. ReadHash(r1) = Ok(o.hash, [bytes |-> b, total |-> t + 33])
  <2>1. t + 1 \in Nat /\ t + 1 + 32 <= Len(b)
    OBVIOUS
  <2>2. ReadHash(r1)
          = Ok(SubSeq(b, t + 1 + 1, t + 1 + 32),
               [bytes |-> b, total |-> t + 1 + 32])
    BY <2>1, ReadHashOk
  <2>3. t + 1 + 1 = t + 2 /\ t + 1 + 32 = t + 33
    OBVIOUS
  <2>. QED
    BY <2>2, <2>3, Zenon
<1>4. ObjectRequestRead([bytes |-> b, total |-> t]) = rest
  <2>1. /\ ReadU8([bytes |-> b, total |-> t]).ok
        /\ ReadU8([bytes |-> b, total |-> t]).val = c
        /\ ReadU8([bytes |-> b, total |-> t]).rd = r1
    BY <1>2, OkFields
  <2>. QED
    BY <1>1, <2>1 DEF ObjectRequestRead, Then
<1>5. rest = Ok([kind |-> IF c = 0 THEN "Block" ELSE "Transaction",
                 hash |-> o.hash], [bytes |-> b, total |-> t + 33])
  <2>1. /\ ReadHash(r1).ok
        /\ ReadHash(r1).val = o.hash
        /\ ReadHash(r1).rd = [bytes |-> b, total |-> t + 33]
    BY <1>3, OkFields
  <2>. QED
    BY <2>1 DEF Then
<1>. QED
  BY <1>4, <1>5, RequestFields

(* ObjectRequest::read reads back every request ObjectRequest::write      *)
(* encodes, and reads exactly its 33 bytes.                                *)
LEMMA RequestRoundTrip ==
    ASSUME NEW o \in ObjectRequests
    PROVE  ObjectRequestRead(NewReader(ObjectRequestWrite(o)))
             = Ok(o, ReadAll(ObjectRequestWrite(o)))
<1> DEFINE b == ObjectRequestWrite(o)
<1>1. /\ b \in Seq(Bytes) /\ Len(b) = 33 /\ b[1] = Code(o)
      /\ SubSeq(b, 2, 33) = o.hash
  BY RequestBytes
<1>2. /\ 0 \in Nat /\ 0 + 33 <= Len(b) /\ b[0 + 1] = Code(o)
      /\ SubSeq(b, 0 + 2, 0 + 33) = o.hash
  BY <1>1
<1>3. ObjectRequestRead([bytes |-> b, total |-> 0])
        = Ok(o, [bytes |-> b, total |-> 0 + 33])
  BY <1>1, <1>2, RequestReadAt
<1>4. ReadAll(b) = [bytes |-> b, total |-> 0 + 33]
  BY <1>1 DEF ReadAll
<1>. QED
  BY <1>3, <1>4 DEF NewReader

(* ObjectResponse::read reads back every NotFound response that           *)
(* ObjectResponse::write encodes, and reads exactly its 34 bytes.          *)
LEMMA NotFoundRoundTrip ==
    ASSUME NEW o \in ObjectRequests
    PROVE  ObjectResponseRead(NewReader(ObjectResponseWrite([request |-> o])))
             = Ok([kind |-> "NotFound", request |-> o],
                  ReadAll(ObjectResponseWrite([request |-> o])))
<1> DEFINE w == ObjectRequestWrite(o)
           b == ObjectResponseWrite([request |-> o])
<1>1. /\ w \in Seq(Bytes) /\ Len(w) = 33 /\ w[1] = Code(o)
      /\ SubSeq(w, 2, 33) = o.hash
  BY RequestBytes
<1>2. w \in Seq(Bytes)
  BY <1>1
<1>3. Len(w) = 33
  BY <1>1
<1>4. <<2>> \in Seq(Bytes)
  <2>1. 2 \in Bytes
    BY DEF Bytes
  <2>. QED
    BY <2>1
<1>5. b = <<2>> \o w
  BY DEF ObjectResponseWrite
<1>6. /\ b \in Seq(Bytes) /\ Len(b) = 1 + Len(w) /\ b[1] = 2
  <2>1. 2 \in Bytes /\ 1 <= Len(w)
    BY <1>3 DEF Bytes
  <2>2. /\ <<2>> \o w \in Seq(Bytes)
        /\ Len(<<2>> \o w) = 1 + Len(w)
        /\ (<<2>> \o w)[1] = 2
    BY <1>2, <2>1, ConsBytes
  <2>. QED
    BY <1>5, <2>2, Zenon
<1>7. Len(b) = 34
  BY <1>3, <1>6
<1>8. SubSeq(b, 3, 34) = SubSeq(w, 2, 33) /\ b[2] = w[1]
  <2>1. 2 \in Bytes /\ 1 \in 1 .. Len(w) /\ 2 \in 1 .. Len(w) /\ 33 \in 1 .. Len(w)
    BY <1>3 DEF Bytes
  <2>2. SubSeq(<<2>> \o w, 2 + 1, 33 + 1) = SubSeq(w, 2, 33)
    BY <1>2, <2>1, ConsShift
  <2>3. (<<2>> \o w)[1 + 1] = w[1]
    BY <1>2, <2>1, ConsShift
  <2>4. 2 + 1 = 3 /\ 33 + 1 = 34 /\ 1 + 1 = 2
    OBVIOUS
  <2>. QED
    BY <1>5, <2>2, <2>3, <2>4
<1>10. /\ b \in Seq(Bytes)
       /\ 0 \in Nat /\ 0 < Len(b) /\ b[0 + 1] = 2
       /\ 1 \in Nat /\ 1 + 33 <= Len(b) /\ b[1 + 1] = Code(o)
       /\ SubSeq(b, 1 + 2, 1 + 33) = o.hash
       /\ ReadAll(b) = [bytes |-> b, total |-> 1 + 33]
  <2>1. w[1] = Code(o) /\ SubSeq(w, 2, 33) = o.hash
    BY <1>1
  <2>2. b \in Seq(Bytes) /\ 0 < Len(b) /\ 1 + 33 <= Len(b)
    <3>1. b \in Seq(Bytes)
      BY <1>6
    <3>2. Len(b) = 1 + 33
      BY <1>7
    <3>3. 0 < 1 + 33 /\ 1 + 33 <= 1 + 33
      OBVIOUS
    <3>. QED
      BY <3>1, <3>2, <3>3, Zenon
  <2>3. b[0 + 1] = 2 /\ b[1 + 1] = Code(o)
    BY <1>6, <1>8, <2>1
  <2>4. SubSeq(b, 1 + 2, 1 + 33) = o.hash
    BY <1>8, <2>1
  <2>5. ReadAll(b) = [bytes |-> b, total |-> 1 + 33]
    <3>1. Len(b) = 1 + 33
      BY <1>7
    <3>. QED
      BY <3>1, Zenon DEF ReadAll
  <2>. QED
    BY <2>2, <2>3, <2>4, <2>5
<1>11. ObjectRequestRead([bytes |-> b, total |-> 1])
        = Ok(o, [bytes |-> b, total |-> 1 + 33])
  <2>1. o \in ObjectRequests /\ b \in Seq(Bytes) /\ 1 \in Nat
        /\ 1 + 33 <= Len(b) /\ b[1 + 1] = Code(o)
        /\ SubSeq(b, 1 + 2, 1 + 33) = o.hash
    BY <1>10
  <2>. QED
    BY <2>1, RequestReadAt
<1>12. ReadU8(NewReader(b)) = Ok(2, [bytes |-> b, total |-> 1])
  <2>1. ReadU8([bytes |-> b, total |-> 0])
          = Ok(b[0 + 1], [bytes |-> b, total |-> 0 + 1])
    <3>1. b \in Seq(Bytes) /\ 0 \in Nat /\ 0 < Len(b)
      BY <1>10
    <3>. QED
      BY <3>1, ReadU8Ok
  <2>2. b[0 + 1] = 2 /\ 0 + 1 = 1
    BY <1>10
  <2>. QED
    BY <2>1, <2>2 DEF NewReader
<1>. QED
  <2>1. /\ ReadU8(NewReader(b)).ok
        /\ ReadU8(NewReader(b)).val = 2
        /\ ReadU8(NewReader(b)).rd = [bytes |-> b, total |-> 1]
    BY <1>12, OkFields
  <2>2. /\ ObjectRequestRead([bytes |-> b, total |-> 1]).ok
        /\ ObjectRequestRead([bytes |-> b, total |-> 1]).val = o
        /\ ObjectRequestRead([bytes |-> b, total |-> 1]).rd = ReadAll(b)
    <3>1. ReadAll(b) = [bytes |-> b, total |-> 1 + 33]
      BY <1>10
    <3>. QED
      BY <1>11, <3>1, OkFields
  <2>. QED
    BY <2>1, <2>2 DEF ObjectResponseRead, Then

(* For every hash, ObjectRequest::read and ObjectResponse::read give back  *)
(* what ObjectRequest::write and ObjectResponse::write encoded, reading    *)
(* exactly their bytes (ObjectRoundTrip, checked by TLC on four requests). *)
THEOREM ObjectRoundTripHolds == Spec => []ObjectRoundTrip
<1>1. RequestSamples \subseteq ObjectRequests
  BY PacketConstAssumption
<1>2. ObjectRoundTrip
  <2> SUFFICES ASSUME NEW o \in RequestSamples
               PROVE  /\ data = ObjectRequestWrite(o) =>
                           ObjectRequestRead(NewReader(data)) = Ok(o, ReadAll(data))
                      /\ data = ObjectResponseWrite([request |-> o]) =>
                           ObjectResponseRead(NewReader(data))
                             = Ok([kind |-> "NotFound", request |-> o], ReadAll(data))
    BY DEF ObjectRoundTrip
  <2>1. o \in ObjectRequests
    BY <1>1
  <2>. QED
    BY <2>1, RequestRoundTrip, NotFoundRoundTrip
<1>. QED
  BY <1>2, PTL

(* Whatever byte string b ObjectRequest::read is given, it succeeds only  *)
(* on an id byte 0 or 1 followed by 32 bytes, and the request it returns   *)
(* is written back as exactly the 33 bytes it consumed.                    *)
LEMMA RequestDecodeCanonical ==
    ASSUME NEW b \in Seq(Bytes)
    PROVE  LET res == ObjectRequestRead(NewReader(b))
           IN  res.ok => ObjectRequestWrite(res.val) = SubSeq(b, 1, res.rd.total)
<1> DEFINE r0 == [bytes |-> b, total |-> 0]
           r1 == [bytes |-> b, total |-> 1]
           res == ObjectRequestRead(r0)
<1>0. NewReader(b) = r0
  BY DEF NewReader
<1> SUFFICES ASSUME res.ok
             PROVE  ObjectRequestWrite(res.val) = SubSeq(b, 1, res.rd.total)
  BY <1>0
<1>1. CASE Len(b) = 0
  <2>1. ReadU8(r0) = Err("InvalidSize", r0)
    BY <1>1 DEF ReadU8, ReaderSize
  <2>. QED
    BY <2>1 DEF ObjectRequestRead, Then, Err
<1>2. CASE Len(b) >= 1
  <2>1. ReadU8(r0) = Ok(b[1], r1)
    BY <1>2 DEF ReadU8, ReaderSize
  <2>2. /\ ReadU8(r0).ok /\ ReadU8(r0).val = b[1] /\ ReadU8(r0).rd = r1
    BY <2>1, OkFields
  <2>3. CASE b[1] \notin {0, 1}
    BY <2>2, <2>3 DEF ObjectRequestRead, Then, Err
  <2>4. CASE b[1] \in {0, 1} /\ Len(b) < 33
    <3>1. ReadHash(r1) = Err("InvalidSize", r1)
      BY <2>4 DEF ReadHash, ReadBytes, ReaderSize
    <3>. QED
      BY <2>2, <2>4, <3>1 DEF ObjectRequestRead, Then, Err
  <2>5. CASE b[1] \in {0, 1} /\ Len(b) >= 33
    <3> DEFINE hs == SubSeq(b, 2, 33)
               o == [kind |-> IF b[1] = 0 THEN "Block" ELSE "Transaction",
                     hash |-> hs]
    <3>1. hs \in Seq(Bytes) /\ Len(hs) = 32
      <4>1. \A i \in 2 .. 33 : b[i] \in Bytes
        BY <2>5
      <4>. QED
        BY <4>1, SubSeqProperties
    <3>2. o \in ObjectRequests
      BY <3>1 DEF ObjectRequests, Hashes
    <3>3. Code(o) = b[1]
      BY <2>5 DEF Code
    <3>4. res = Ok(o, [bytes |-> b, total |-> 33])
      <4>1. /\ 0 \in Nat /\ 0 + 33 <= Len(b)
            /\ 0 + 1 = 1 /\ 0 + 2 = 2 /\ 0 + 33 = 33
        BY <2>5
      <4>2. b[0 + 1] = Code(o) /\ SubSeq(b, 0 + 2, 0 + 33) = o.hash
        BY <3>3, <4>1, Zenon
      <4>3. \A q \in ObjectRequests :
              b[0 + 1] = Code(q) /\ SubSeq(b, 0 + 2, 0 + 33) = q.hash
              => ObjectRequestRead([bytes |-> b, total |-> 0])
                   = Ok(q, [bytes |-> b, total |-> 0 + 33])
        BY <4>1, RequestReadAt
      <4>4. ObjectRequestRead([bytes |-> b, total |-> 0])
              = Ok(o, [bytes |-> b, total |-> 0 + 33])
        BY <3>2, <4>2, <4>3
      <4>. QED
        BY <4>1, <4>4
    <3>5. res.val = o /\ res.rd.total = 33
      <4>1. /\ Ok(o, [bytes |-> b, total |-> 33]).val = o
            /\ Ok(o, [bytes |-> b, total |-> 33]).rd.total = 33
        BY DEF Ok
      <4>. QED
        BY <3>4, <4>1
    <3>6. ObjectRequestWrite(o) = <<b[1]>> \o hs
      BY <3>2, <3>3, RequestFields
    <3>7. SubSeq(b, 1, 33) = <<b[1]>> \o hs
      <4>1. SubSeq(b, 1, 33) = <<b[1]>> \o SubSeq(b, 1 + 1, 33)
        BY <2>5, SubSeqRecursiveFirst
      <4>. QED
        BY <4>1
    <3>. QED
      BY <3>5, <3>6, <3>7
  <2>. QED
    BY <2>3, <2>4, <2>5
<1>. QED
  BY <1>1, <1>2

(* Whatever bytes a remote sends, ObjectRequest::read accepts one encoding *)
(* per request: for every hash and every byte string, in every state.     *)
THEOREM ObjectDecodeCanonicalHolds == Spec => []ObjectDecodeCanonical
<1>1. IInv => ObjectDecodeCanonical
  BY RequestDecodeCanonical DEF IInv, ObjectDecodeCanonical
<1>. QED
  BY <1>1, IInvHolds, PTL
=============================================================================
