--------------------------- MODULE HandshakeCodec ---------------------------
(***************************************************************************)
(* The hand-written Handshake codec of src/p2p/handshake.rs, the one       *)
(* server.rs sends (to_bytes) and parses (from_bytes, on the first read of *)
(* a new connection).  from_bytes is a sequence of steps over the received *)
(* bytes with a cursor n and a running expected_size; each block of the    *)
(* code is one action, so that TLC follows every input through every check *)
(* and every slice.  A slice out of range, an unwrap of invalid UTF-8 and  *)
(* a failed assert of Handshake::new are panics, each a state of its own.  *)
(*                                                                         *)
(* Bytes are integers in 0..255.  A string's bytes are valid UTF-8 when    *)
(* all are ASCII (< 128): the inputs use 'a' (97) and 0xFF (255), which is  *)
(* invalid anywhere.  The 72 bytes of network_id, peer_id, utc_time,       *)
(* block_height and block_top_hash are kept as bytes: to_be_bytes and      *)
(* from_be_bytes are inverse, so a u64 is its 8 big-endian bytes.          *)
(***************************************************************************)
EXTENDS Integers, Sequences, FiniteSets, CodecBytes

CONSTANTS
    MaxLen,     \* Handshake::MAX_LEN
    Samples,    \* handshakes the inputs are made from (accepted by new)
    MutValues,  \* byte values written over one byte of an encoding
    Received    \* other byte strings a remote may send

FixedLen == 16 + 8 + 8 + 8 + 32
MinSize == 75          \* from_bytes: 1 + 1 + 72 + 1

(* Handshake::new's asserts, lines 26-31.                                  *)
NewOk(h) ==
    /\ Len(h.version) \in 1..MaxLen
    /\ h.tag = None \/ Len(h.tag[1]) \in 1..MaxLen
    /\ Len(h.peers) <= MaxLen

(* Handshake::to_bytes, lines 51-84.                                       *)
ToBytes(h) ==
    LET tagBytes == IF h.tag = None THEN <<0>>
                    ELSE <<Len(h.tag[1]) % 256>> \o h.tag[1]
        peerBytes[i \in 0..Len(h.peers)] ==
            IF i = 0 THEN <<>>
            ELSE peerBytes[i - 1] \o <<Len(h.peers[i]) % 256>> \o h.peers[i]
    IN  <<Len(h.version) % 256>> \o h.version \o tagBytes \o h.fixed
          \o <<Len(h.peers) % 256>> \o peerBytes[Len(h.peers)]

ASSUME ConstAssumption ==
    /\ MaxLen \in Nat \ {0}
    /\ MutValues \subseteq Bytes
    /\ IsFiniteSet(Samples)
    /\ Received \subseteq Seq(Bytes)
    /\ \A h \in Samples : ToBytes(h) \in Seq(Bytes)

(* What a remote can send: the encoding of a sample, every truncation of   *)
(* it, it with one byte overwritten, or it with a trailing byte.           *)
Inputs(h) ==
    LET e == ToBytes(h) IN
    {SubSeq(e, 1, k) : k \in 0..Len(e) - 1}
      \cup {[e EXCEPT ![i] = v] : i \in 1..Len(e), v \in MutValues}
      \cup {e \o <<0>>}

VARIABLES
    data,       \* the bytes from_bytes is given
    sent,       \* Some(the sample data encodes), or None
    pc,         \* the block of from_bytes about to run, or the outcome
    n,          \* the cursor
    expected,   \* expected_size
    version, tag, fixed, peersLen, peers   \* the fields read so far

vars == <<data, sent, pc, n, expected, version, tag, fixed, peersLen, peers>>

Panics == {"index_panic", "utf8_panic", "assert_panic"}
Outcomes == {"done", "err"} \cup Panics

TypeOK ==
    /\ data \in Seq(Bytes)
    /\ pc \in {"start", "version", "tag", "fixed", "peers_len", "peer"} \cup Outcomes
    /\ n \in 0..Len(data)
    /\ expected \in Nat
    /\ version \in Seq(Bytes) /\ fixed \in Seq(Bytes)
    /\ tag \in Seq(Seq(Bytes)) /\ Len(tag) <= 1
    /\ peersLen \in 0..255
    /\ peers \in Seq(Seq(Bytes)) /\ Len(peers) <= peersLen

Init ==
    /\ \/ \E h \in Samples :
            \/ data = ToBytes(h) /\ sent = <<h>>
            \/ data \in Inputs(h) /\ sent = None
       \/ data \in Received /\ sent = None
    /\ pc = "start" /\ n = 0 /\ expected = MinSize
    /\ version = <<>> /\ tag = None /\ fixed = <<>>
    /\ peersLen = 0 /\ peers = <<>>

(* data[n], and the slice data[n..n+k], of the 0-based code.               *)
At(i) == data[i + 1]
Slice(k) == SubSeq(data, n + 1, n + k)
InRange(k) == n + k <= Len(data)

Fail(p) == pc' = p /\ UNCHANGED <<n, expected, version, tag, fixed, peersLen, peers>>

-----------------------------------------------------------------------------
(* Lines 90-93: the minimum size check.                                    *)
Start ==
    /\ pc = "start"
    /\ pc' = IF Len(data) < MinSize THEN "err" ELSE "version"
    /\ UNCHANGED <<data, sent, n, expected, version, tag, fixed, peersLen, peers>>

(* Lines 97-105: the version: length byte, checks, UTF-8 unwrap.           *)
ReadVersion ==
    /\ pc = "version"
    /\ IF ~InRange(1) THEN Fail("index_panic")
       ELSE LET len == At(n) IN
            /\ expected' = expected + len
            /\ IF len = 0 \/ len > MaxLen \/ Len(data) < expected + len
               THEN pc' = "err" /\ UNCHANGED <<n, version>>
               ELSE /\ n' = n + 1 + len
                    /\ IF ~InRange(1 + len) THEN pc' = "index_panic" /\ UNCHANGED version
                       ELSE LET s == SubSeq(data, n + 2, n + 1 + len) IN
                            IF ~Utf8Valid(s) THEN pc' = "utf8_panic" /\ UNCHANGED version
                            ELSE pc' = "tag" /\ version' = s
            /\ UNCHANGED <<tag, fixed, peersLen, peers>>
    /\ UNCHANGED <<data, sent>>

(* Lines 108-125: the node tag; length 0 is None, invalid UTF-8 an error.  *)
ReadTag ==
    /\ pc = "tag"
    /\ IF ~InRange(1) THEN Fail("index_panic")
       ELSE LET len == At(n) IN
            /\ expected' = expected + len
            /\ IF len > MaxLen \/ Len(data) < expected + len
               THEN pc' = "err" /\ UNCHANGED <<n, tag>>
               ELSE /\ n' = n + 1 + len
                    /\ IF len = 0 THEN pc' = "fixed" /\ tag' = None
                       ELSE IF ~InRange(1 + len) THEN pc' = "index_panic" /\ UNCHANGED tag
                       ELSE LET s == SubSeq(data, n + 2, n + 1 + len) IN
                            IF ~Utf8Valid(s) THEN pc' = "err" /\ UNCHANGED tag
                            ELSE pc' = "fixed" /\ tag' = <<s>>
            /\ UNCHANGED <<version, fixed, peersLen, peers>>
    /\ UNCHANGED <<data, sent>>

(* Lines 127-140: network_id, peer_id, utc_time, block_height and          *)
(* block_top_hash, five unchecked slices of fixed width.                   *)
ReadFixed ==
    /\ pc = "fixed"
    /\ IF ~InRange(FixedLen) THEN Fail("index_panic")
       ELSE /\ fixed' = Slice(FixedLen) /\ n' = n + FixedLen /\ pc' = "peers_len"
            /\ UNCHANGED <<expected, version, tag, peersLen, peers>>
    /\ UNCHANGED <<data, sent>>

(* Mutant: the peer count is not added to expected_size (line 143). *)
ReadPeersLenNoExpected ==
    /\ pc = "peers_len"
    /\ IF ~InRange(1) THEN Fail("index_panic")
       ELSE LET len == At(n) IN
            /\ UNCHANGED expected
            /\ IF len > MaxLen \/ Len(data) < expected
               THEN pc' = "err" /\ UNCHANGED <<n, peersLen>>
               ELSE pc' = "peer" /\ n' = n + 1 /\ peersLen' = len
            /\ UNCHANGED <<version, tag, fixed, peers>>
    /\ UNCHANGED <<data, sent>>

(* Lines 142-147: the peer count.                                          *)
ReadPeersLen ==
    /\ pc = "peers_len"
    /\ IF ~InRange(1) THEN Fail("index_panic")
       ELSE LET len == At(n) IN
            /\ expected' = expected + len
            /\ IF len > MaxLen \/ Len(data) < expected + len
               THEN pc' = "err" /\ UNCHANGED <<n, peersLen>>
               ELSE pc' = "peer" /\ n' = n + 1 /\ peersLen' = len
            /\ UNCHANGED <<version, tag, fixed, peers>>
    /\ UNCHANGED <<data, sent>>

(* Mutant: the peer is sliced from the cursor before the size byte is     *)
(* stepped over (line 157 missing).                                        *)
ReadPeerNoSkip ==
    /\ pc = "peer" /\ Len(peers) < peersLen
    /\ IF ~InRange(1) THEN Fail("index_panic")
       ELSE LET size == At(n) IN
            /\ expected' = expected + size
            /\ IF size = 0 \/ size > MaxLen \/ Len(data) < expected + size
               THEN pc' = "err" /\ UNCHANGED <<n, peers>>
               ELSE /\ n' = n + size
                    /\ LET s == SubSeq(data, n + 1, n + size) IN
                       IF ~Utf8Valid(s) THEN pc' = "utf8_panic" /\ UNCHANGED peers
                       ELSE pc' = "peer" /\ peers' = Append(peers, s)
            /\ UNCHANGED <<version, tag, fixed, peersLen>>
    /\ UNCHANGED <<data, sent>>

(* Mutant: the cursor steps over the size byte twice.                     *)
ReadPeerOverAdvance ==
    /\ pc = "peer" /\ Len(peers) < peersLen
    /\ IF ~InRange(1) THEN Fail("index_panic")
       ELSE LET size == At(n) IN
            /\ expected' = expected + size
            /\ IF size = 0 \/ size > MaxLen \/ Len(data) < expected + size
               THEN pc' = "err" /\ UNCHANGED <<n, peers>>
               ELSE /\ n' = n + 2 + size
                    /\ IF ~InRange(1 + size) THEN pc' = "index_panic" /\ UNCHANGED peers
                       ELSE LET s == SubSeq(data, n + 2, n + 1 + size) IN
                            IF ~Utf8Valid(s) THEN pc' = "utf8_panic" /\ UNCHANGED peers
                            ELSE pc' = "peer" /\ peers' = Append(peers, s)
            /\ UNCHANGED <<version, tag, fixed, peersLen>>
    /\ UNCHANGED <<data, sent>>

(* Lines 150-162: one peer address: length byte, checks, UTF-8 unwrap.     *)
ReadPeer ==
    /\ pc = "peer" /\ Len(peers) < peersLen
    /\ IF ~InRange(1) THEN Fail("index_panic")
       ELSE LET size == At(n) IN
            /\ expected' = expected + size
            /\ IF size = 0 \/ size > MaxLen \/ Len(data) < expected + size
               THEN pc' = "err" /\ UNCHANGED <<n, peers>>
               ELSE /\ n' = n + 1 + size
                    /\ IF ~InRange(1 + size) THEN pc' = "index_panic" /\ UNCHANGED peers
                       ELSE LET s == SubSeq(data, n + 2, n + 1 + size) IN
                            IF ~Utf8Valid(s) THEN pc' = "utf8_panic" /\ UNCHANGED peers
                            ELSE pc' = "peer" /\ peers' = Append(peers, s)
            /\ UNCHANGED <<version, tag, fixed, peersLen>>
    /\ UNCHANGED <<data, sent>>

(* Line 164: Handshake::new, whose asserts (lines 26-31) panic.            *)
New ==
    /\ pc = "peer" /\ Len(peers) = peersLen
    /\ pc' = IF NewOk([version |-> version, tag |-> tag, fixed |-> fixed, peers |-> peers])
             THEN "done" ELSE "assert_panic"
    /\ UNCHANGED <<data, sent, n, expected, version, tag, fixed, peersLen, peers>>

Next == Start \/ ReadVersion \/ ReadTag \/ ReadFixed \/ ReadPeersLen \/ ReadPeer \/ New

Spec == Init /\ [][Next]_vars

Result == [version |-> version, tag |-> tag, fixed |-> fixed, peers |-> peers]

-----------------------------------------------------------------------------
(* Properties.                                                             *)

(* from_bytes never panics on a bounds check: no slice of remote input is  *)
(* out of range, and Handshake::new's asserts hold for what it parsed.     *)
(* This is what the running expected_size of lines 90-153 is for ("if we   *)
(* don't verify each time, it can create a panic error and crash the       *)
(* node", lines 87-89).                                                    *)
NoCheckedPanic == pc \notin {"index_panic", "assert_panic"}

(* A handshake from_bytes accepts is exactly what it read: to_bytes of the *)
(* result gives back the bytes up to the cursor.  The parse is canonical,  *)
(* so two different byte strings never yield the same handshake prefix.    *)
DecodeCanonical == pc = "done" => ToBytes(Result) = SubSeq(data, 1, n)

(* The inductive invariant behind NoCheckedPanic.  At every block of      *)
(* from_bytes, expected_size is the cursor plus the fewest bytes the rest  *)
(* of the handshake can take (a length byte for the tag, the 72 fixed      *)
(* bytes, the peer count, one size byte per peer still to read), and the   *)
(* checks have kept it within the input; the fields read so far pass       *)
(* Handshake::new's asserts.                                                *)
Parsing == {"version", "tag", "fixed", "peers_len", "peer"}

IInv ==
    /\ data \in Seq(Bytes)
    /\ n \in Nat /\ expected \in Nat /\ peersLen \in Nat
    /\ version \in Seq(Bytes) /\ peers \in Seq(Seq(Bytes))
    /\ pc \in {"start"} \cup Parsing \cup Outcomes
    /\ NoCheckedPanic
    /\ pc \in Parsing => expected <= Len(data)
    /\ pc \in {"start", "version"} => n = 0 /\ expected = MinSize
    /\ pc = "tag" => expected = n + (MinSize - 1)
    /\ pc = "fixed" => expected = n + (FixedLen + 1)
    /\ pc = "peers_len" => expected = n + 1
    /\ pc = "peer" => expected + Len(peers) = n + peersLen
    /\ pc \in {"start", "version", "tag", "fixed", "peers_len"} => peers = <<>>
    /\ pc \in {"tag", "fixed", "peers_len", "peer"} => Len(version) \in 1..MaxLen
    /\ pc \in {"fixed", "peers_len", "peer"} =>
           tag = None \/ Len(tag[1]) \in 1..MaxLen
    /\ pc = "peer" => Len(peers) <= peersLen /\ peersLen <= MaxLen

(* Spec section 4.1 round-trip law: from_bytes(to_bytes(h)) = h for every  *)
(* handshake h that Handshake::new accepts.                                *)
RoundTrip == (sent # None /\ pc \in Outcomes) => (pc = "done" /\ Result = sent[1])

(* A malformed handshake from a remote is an error, never a panic (spec    *)
(* section 7: a decode error is peer-fatal, the server continues).         *)
NoUtf8Panic == pc # "utf8_panic"
=============================================================================
