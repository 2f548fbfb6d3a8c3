----------------------------- MODULE Connection -----------------------------
(***************************************************************************)
(* The async Connection of src/p2p/connection.rs: one TCP stream behind a  *)
(* tokio Mutex, shared by the tasks that use the connection.               *)
(*                                                                         *)
(*   - a reader task that calls read_packet again and again;               *)
(*   - one task per message in Msgs that calls send_bytes once;            *)
(*   - one task that calls close();                                        *)
(*   - the remote end of the socket (the environment): it delivers the     *)
(*     bytes of its frames in chunks of any size, and may close.           *)
(*                                                                         *)
(* The stream is a byte count: the remote sends the frames of Frames, each *)
(* a 4-byte big-endian length followed by that many payload bytes.         *)
(* Frames[i] is the length of frame i.  What we write is the sequence      *)
(* wire of the tasks whose chunks reached the socket, one entry per        *)
(* partial write.  tokio's Mutex is fair: a released lock passes to the    *)
(* longest waiter, so the lock is a holder and a FIFO queue of waiters.    *)
(***************************************************************************)
EXTENDS Integers, Sequences, FiniteSets

CONSTANTS
    Frames,         \* payload lengths of the frames the remote sends
    MaxPacketSize,  \* read_packet's max_size
    BufSize,        \* buf.len() of the caller's buffer
    Msgs,           \* the send_bytes calls, one task each
    MsgLen          \* MsgLen[m]: buf.len() of call m

ASSUME ConstAssumption ==
    /\ Frames \in Seq(1..MaxPacketSize)
    /\ MaxPacketSize \in Nat \ {0}
    /\ BufSize \in Nat /\ BufSize >= 4       \* buf[0..4] would panic below 4
    /\ IsFiniteSet(Msgs)
    /\ MsgLen \in [Msgs -> Nat \ {0}]
    /\ "reader" \notin Msgs /\ "closer" \notin Msgs /\ "none" \notin Msgs

Tasks == Msgs \cup {"reader", "closer"}
NoTask == "none"

(* Byte offset of the start of frame i in the remote's stream.             *)
Start[i \in 1..Len(Frames) + 1] ==
    IF i = 1 THEN 0 ELSE Start[i - 1] + 4 + Frames[i - 1]

StreamLen == Start[Len(Frames) + 1]

VARIABLES
    holder,     \* the task holding the stream Mutex, or NoTask
    lockQ,      \* tasks waiting for the stream Mutex, oldest first
    rpc,        \* reader: "idle", "size", "body", "failed", "exited"
    rStart,     \* reader: offset where the current size prefix began
    rLeft,      \* reader: read_all_bytes's left
    rSize,      \* reader: the size read
    packets,    \* payload lengths of the packets read_packet returned
    arrived,    \* bytes of the remote's stream in our receive buffer
    bytesIn,    \* bytes_in: bytes read by read_bytes_from_stream
    eof,        \* the remote closed its side
    spc,        \* spc[m]: "idle", "write", "done", "err"
    written,    \* written[m]: bytes of call m write_all has written
    wire,       \* the chunks written to the socket, by task
    callOrder,  \* the send_bytes calls in the order they asked for the lock
    lateCall,   \* the calls made after close() had set closed
    bytesOut,   \* bytes_out
    closed,     \* closed
    cpc,        \* closer: "idle", "exit", "shut", "done"
    exits,      \* Exit messages queued on tx
    shut        \* our write side is shut down

vars == <<holder, lockQ, rpc, rStart, rLeft, rSize, packets, arrived, bytesIn,
          eof, spc, written, wire, callOrder, lateCall, bytesOut, closed, cpc,
          exits, shut>>
readerVars == <<rpc, rStart, rLeft, rSize, packets, bytesIn>>
senderVars == <<spc, written, wire, callOrder, lateCall, bytesOut>>
closerVars == <<closed, cpc, exits, shut>>

TypeOK ==
    /\ holder \in Tasks \cup {NoTask}
    /\ lockQ \in Seq(Tasks)
    /\ rpc \in {"idle", "size", "body", "failed", "exited"}
    /\ rStart \in 0..StreamLen
    /\ rLeft \in Nat /\ rSize \in Nat
    /\ packets \in Seq(Nat)
    /\ arrived \in 0..StreamLen /\ bytesIn \in 0..arrived
    /\ eof \in BOOLEAN
    /\ spc \in [Msgs -> {"idle", "write", "done", "err"}]
    /\ written \in [Msgs -> Nat]
    /\ wire \in Seq(Msgs) /\ callOrder \in Seq(Msgs)
    /\ lateCall \subseteq Msgs
    /\ bytesOut \in Nat
    /\ closed \in BOOLEAN /\ exits \in Nat /\ shut \in BOOLEAN
    /\ cpc \in {"idle", "exit", "shut", "done"}

Init ==
    /\ holder = NoTask /\ lockQ = <<>>
    /\ rpc = "idle" /\ rStart = 0 /\ rLeft = 0 /\ rSize = 0
    /\ packets = <<>> /\ arrived = 0 /\ bytesIn = 0 /\ eof = FALSE
    /\ spc = [m \in Msgs |-> "idle"] /\ written = [m \in Msgs |-> 0]
    /\ wire = <<>> /\ callOrder = <<>> /\ lateCall = {} /\ bytesOut = 0
    /\ closed = FALSE /\ cpc = "idle" /\ exits = 0 /\ shut = FALSE

-----------------------------------------------------------------------------
(* The tokio Mutex.  lock().await takes a free lock at once or queues;     *)
(* dropping the guard hands the lock to the oldest waiter.                 *)
Lock(t) ==
    IF holder = NoTask
    THEN holder' = t /\ UNCHANGED lockQ
    ELSE lockQ' = Append(lockQ, t) /\ UNCHANGED holder

(* Mutant: an unfair lock that hands over to any waiter. *)
UnlockAny ==
    IF lockQ = <<>>
    THEN holder' = NoTask /\ UNCHANGED lockQ
    ELSE \E i \in DOMAIN lockQ :
           /\ holder' = lockQ[i]
           /\ lockQ' = [j \in 1..Len(lockQ) - 1 |-> IF j < i THEN lockQ[j] ELSE lockQ[j + 1]]

Unlock ==
    IF lockQ = <<>>
    THEN holder' = NoTask /\ UNCHANGED lockQ
    ELSE holder' = Head(lockQ) /\ lockQ' = Tail(lockQ)

(* Bytes in our receive buffer that nobody has read yet.                   *)
Avail == arrived - bytesIn

(* The length prefixes a read of 4 bytes at offset pos can decode.  At a   *)
(* frame boundary it is that frame's length; anywhere else it is whatever  *)
(* 4 bytes of the stream happen to say.                                    *)
SizesAt(pos) ==
    IF \E i \in 1..Len(Frames) : Start[i] = pos
    THEN {Frames[i] : i \in {j \in 1..Len(Frames) : Start[j] = pos}}
    ELSE 0..MaxPacketSize + 1

(* The payload read_all_bytes returned decodes (Packet::read and the       *)
(* total_read check) when it is the payload of a frame; a misaligned one   *)
(* may or may not.                                                         *)
Decodes(start, size) ==
    IF \E i \in 1..Len(Frames) : Start[i] = start /\ Frames[i] = size
    THEN {TRUE} ELSE BOOLEAN

(* read_packet fails: the guard is dropped and the reader task stops.      *)
ReaderFails ==
    /\ rpc' = "failed" /\ Unlock

-----------------------------------------------------------------------------
(* read_packet, line 77: lock the stream.                                  *)
ReaderLock ==
    /\ rpc = "idle"
    /\ rpc' = "size" /\ rStart' = bytesIn
    /\ Lock("reader")
    /\ UNCHANGED <<rLeft, rSize, packets, bytesIn, arrived, eof>>
    /\ UNCHANGED senderVars /\ UNCHANGED closerVars

(* Mutant: the size read counts 4 bytes whatever the read returned. *)
ReaderSizeAssumesFull ==
    /\ rpc = "size" /\ holder = "reader"
    /\ Avail > 0 \/ eof
    /\ bytesIn' = bytesIn + 4
    /\ \E size \in SizesAt(bytesIn) :
         IF size = 0 \/ size > MaxPacketSize
         THEN ReaderFails /\ UNCHANGED <<rLeft, rSize>>
         ELSE /\ rpc' = "body" /\ rSize' = size /\ rLeft' = size
              /\ UNCHANGED <<holder, lockQ>>
    /\ UNCHANGED <<rStart, packets, arrived, eof>>
    /\ UNCHANGED senderVars /\ UNCHANGED closerVars

(* read_packet_size: one read into buf[0..4], then the size checks of      *)
(* read_packet.  A read returns what is buffered, up to 4 bytes; 0 bytes   *)
(* once the remote closed.  The read awaits while nothing is buffered.     *)
ReaderSize ==
    /\ rpc = "size" /\ holder = "reader"
    /\ Avail > 0 \/ eof
    /\ LET r == IF Avail < 4 THEN Avail ELSE 4 IN
       /\ bytesIn' = bytesIn + r
       /\ IF r # 4
          THEN ReaderFails /\ UNCHANGED <<rLeft, rSize>>
          ELSE \E size \in SizesAt(bytesIn) :
                 IF size = 0 \/ size > MaxPacketSize
                 THEN ReaderFails /\ UNCHANGED <<rLeft, rSize>>
                 ELSE /\ rpc' = "body" /\ rSize' = size /\ rLeft' = size
                      /\ UNCHANGED <<holder, lockQ>>
    /\ UNCHANGED <<rStart, packets, arrived, eof>>
    /\ UNCHANGED senderVars /\ UNCHANGED closerVars

(* Mutant: each read asks for buf_size bytes, not min(buf_size, left), and *)
(* the loop stops once left is used up.                                    *)
ReaderBodyNoMax ==
    /\ rpc = "body" /\ holder = "reader"
    /\ Avail > 0 \/ eof
    /\ IF Avail = 0
       THEN ReaderFails /\ UNCHANGED <<rLeft, bytesIn, packets>>
       ELSE LET r == IF Avail < BufSize THEN Avail ELSE BufSize IN
            /\ bytesIn' = bytesIn + r
            /\ rLeft' = IF r >= rLeft THEN 0 ELSE rLeft - r
            /\ IF r < rLeft
               THEN UNCHANGED <<rpc, holder, lockQ, packets>>
               ELSE \E ok \in Decodes(rStart, rSize) :
                      IF ok
                      THEN /\ packets' = Append(packets, rSize)
                           /\ rpc' = "idle" /\ Unlock
                      ELSE ReaderFails /\ UNCHANGED packets
    /\ UNCHANGED <<rStart, rSize, arrived, eof>>
    /\ UNCHANGED senderVars /\ UNCHANGED closerVars

(* Mutant: a read of 0 bytes is Ok(0), not Disconnected; the loop spins.   *)
ReaderBodyZeroRead ==
    /\ rpc = "body" /\ holder = "reader"
    /\ Avail > 0
    /\ LET max == IF BufSize > rLeft THEN rLeft ELSE BufSize
            r   == IF Avail < max THEN Avail ELSE max IN
       /\ bytesIn' = bytesIn + r
       /\ rLeft' = rLeft - r
       /\ IF rLeft - r > 0
          THEN UNCHANGED <<rpc, holder, lockQ, packets>>
          ELSE \E ok \in Decodes(rStart, rSize) :
                 IF ok
                 THEN /\ packets' = Append(packets, rSize)
                      /\ rpc' = "idle" /\ Unlock
                 ELSE ReaderFails /\ UNCHANGED packets
    /\ UNCHANGED <<rStart, rSize, arrived, eof>>
    /\ UNCHANGED senderVars /\ UNCHANGED closerVars

(* One iteration of read_all_bytes's loop: a read of at most               *)
(* min(buf_size, left) bytes.  When left reaches 0 the payload is decoded  *)
(* and read_packet returns, dropping the guard.                            *)
ReaderBody ==
    /\ rpc = "body" /\ holder = "reader"
    /\ Avail > 0 \/ eof
    /\ IF Avail = 0
       THEN ReaderFails /\ UNCHANGED <<rLeft, bytesIn, packets>>
       ELSE LET max == IF BufSize > rLeft THEN rLeft ELSE BufSize
                r   == IF Avail < max THEN Avail ELSE max IN
            /\ bytesIn' = bytesIn + r
            /\ rLeft' = rLeft - r
            /\ IF rLeft - r > 0
               THEN UNCHANGED <<rpc, holder, lockQ, packets>>
               ELSE \E ok \in Decodes(rStart, rSize) :
                      IF ok
                      THEN /\ packets' = Append(packets, rSize)
                           /\ rpc' = "idle" /\ Unlock
                      ELSE ReaderFails /\ UNCHANGED packets
    /\ UNCHANGED <<rStart, rSize, arrived, eof>>
    /\ UNCHANGED senderVars /\ UNCHANGED closerVars

(* Mutant: the caller looks at its mailbox only between two packets, so  *)
(* an Exit queued while read_packet awaits bytes is never seen.           *)
ReaderExitIdleOnly ==
    /\ exits > 0
    /\ rpc = "idle" /\ UNCHANGED <<holder, lockQ>>
    /\ rpc' = "exited" /\ exits' = exits - 1
    /\ UNCHANGED <<rStart, rLeft, rSize, packets, bytesIn, arrived, eof>>
    /\ UNCHANGED senderVars /\ UNCHANGED <<closed, cpc, shut>>

(* The reader task's loop, which is not in this tree, selects between its *)
(* mailbox rx and read_packet (close() sends Exit "to stop the current     *)
(* lock of stream", line 141).  On Exit it stops: between packets it just  *)
(* leaves; inside read_packet the awaiting read is dropped, and with it    *)
(* the guard.  A reader still queued for the lock first gets it (FIFO).   *)
ReaderExit ==
    /\ exits > 0
    /\ \/ rpc = "idle" /\ UNCHANGED <<holder, lockQ>>
       \/ rpc \in {"size", "body"} /\ holder = "reader" /\ Unlock
    /\ rpc' = "exited" /\ exits' = exits - 1
    /\ UNCHANGED <<rStart, rLeft, rSize, packets, bytesIn, arrived, eof>>
    /\ UNCHANGED senderVars /\ UNCHANGED <<closed, cpc, shut>>

Reader == ReaderLock \/ ReaderSize \/ ReaderBody \/ ReaderExit

-----------------------------------------------------------------------------
(* send_bytes, line 69: lock the stream.                                   *)
SendLock(m) ==
    /\ spc[m] = "idle"
    /\ spc' = [spc EXCEPT ![m] = "write"]
    /\ callOrder' = Append(callOrder, m)
    /\ lateCall' = IF closed THEN lateCall \cup {m} ELSE lateCall
    /\ Lock(m)
    /\ UNCHANGED <<written, wire, bytesOut>>
    /\ UNCHANGED readerVars /\ UNCHANGED <<arrived, eof>> /\ UNCHANGED closerVars

(* One write of write_all: some of the bytes left, or an error (EPIPE once *)
(* our side is shut, and possibly once the remote closed).  After the last *)
(* byte, bytes_out is counted and the flush, a no-op on a TcpStream,       *)
(* returns Ok.  Either way the guard is dropped at the end.                *)
SendWrite(m) ==
    /\ spc[m] = "write" /\ holder = m
    /\ \/ /\ ~shut
          /\ \E k \in 1..(MsgLen[m] - written[m]) :
               /\ written' = [written EXCEPT ![m] = @ + k]
               /\ wire' = Append(wire, m)
               /\ IF written[m] + k = MsgLen[m]
                  THEN /\ spc' = [spc EXCEPT ![m] = "done"]
                       /\ bytesOut' = bytesOut + MsgLen[m]
                       /\ Unlock
                  ELSE UNCHANGED <<spc, bytesOut, holder, lockQ>>
       \/ /\ shut \/ eof
          /\ spc' = [spc EXCEPT ![m] = "err"]
          /\ Unlock
          /\ UNCHANGED <<written, wire, bytesOut>>
    /\ UNCHANGED <<callOrder, lateCall>>
    /\ UNCHANGED readerVars /\ UNCHANGED <<arrived, eof>> /\ UNCHANGED closerVars

Sender(m) == SendLock(m) \/ SendWrite(m)

-----------------------------------------------------------------------------
(* close(), line 139: set closed.                                         *)
CloseFlag ==
    /\ cpc = "idle"
    /\ closed' = TRUE /\ cpc' = "exit"
    /\ UNCHANGED <<exits, shut, holder, lockQ>>
    /\ UNCHANGED readerVars /\ UNCHANGED senderVars /\ UNCHANGED <<arrived, eof>>

(* close(), lines 140-142: queue Exit on tx, then lock the stream.  The    *)
(* send cannot fail: the receiver rx is a field of the same Connection.    *)
CloseExit ==
    /\ cpc = "exit"
    /\ exits' = exits + 1 /\ cpc' = "shut"
    /\ Lock("closer")
    /\ UNCHANGED <<closed, shut>>
    /\ UNCHANGED readerVars /\ UNCHANGED senderVars /\ UNCHANGED <<arrived, eof>>

(* close(), line 143: shut down our write side, then drop the guard.  The  *)
(* shutdown may fail once the remote has reset the connection.             *)
CloseShutdown ==
    /\ cpc = "shut" /\ holder = "closer"
    /\ \/ shut' = TRUE
       \/ eof /\ UNCHANGED shut
    /\ cpc' = "done" /\ Unlock
    /\ UNCHANGED <<closed, exits>>
    /\ UNCHANGED readerVars /\ UNCHANGED senderVars /\ UNCHANGED <<arrived, eof>>

Closer == CloseFlag \/ CloseExit \/ CloseShutdown

-----------------------------------------------------------------------------
(* The remote: more bytes of its stream arrive, or it closes its socket.   *)
Deliver ==
    /\ ~eof /\ arrived < StreamLen
    /\ \E k \in 1..(StreamLen - arrived) : arrived' = arrived + k
    /\ UNCHANGED <<holder, lockQ, eof>>
    /\ UNCHANGED readerVars /\ UNCHANGED senderVars /\ UNCHANGED closerVars

RemoteClose ==
    /\ ~eof /\ eof' = TRUE
    /\ UNCHANGED <<holder, lockQ, arrived>>
    /\ UNCHANGED readerVars /\ UNCHANGED senderVars /\ UNCHANGED closerVars

Remote == Deliver \/ RemoteClose

Next == Reader \/ (\E m \in Msgs : Sender(m)) \/ Closer \/ Remote

Spec == Init /\ [][Next]_vars

(* The tasks run on the tokio runtime and are polled whenever they can     *)
(* make progress.  The remote gets no fairness: it may stay silent.  Nor   *)
(* does the decision to call close(): once called, it runs to its end.    *)
FairSpec ==
    /\ Spec
    /\ WF_vars(Reader) /\ WF_vars(CloseExit \/ CloseShutdown)
    /\ \A m \in Msgs : WF_vars(Sender(m))

-----------------------------------------------------------------------------
(* Properties.                                                             *)

(* Call m1 asked for the stream lock before call m2.                      *)
Before(m1, m2) ==
    \E i, j \in DOMAIN callOrder : i < j /\ callOrder[i] = m1 /\ callOrder[j] = m2

(* read_packet returns exactly the frames the remote sent, in order, and   *)
(* the reader never loses its place in the stream: between two calls it   *)
(* stands at a frame boundary, and each call starts its size read at the   *)
(* boundary after the last packet.  This is what read_all_bytes's         *)
(* min(buf_size, left) and the size checks of lines 79 and 97 keep true   *)
(* whatever the chunking of the remote's bytes.                           *)
PacketsAreFrames ==
    /\ Len(packets) <= Len(Frames)
    /\ packets = SubSeq(Frames, 1, Len(packets))
    /\ rpc = "idle" => bytesIn = Start[Len(packets) + 1]
    /\ rpc \in {"size", "body"} => rStart = Start[Len(packets) + 1]

(* The bytes of concurrent send_bytes calls reach the socket in the order  *)
(* the calls asked for the stream lock, each call's bytes contiguous:     *)
(* write_all of lines 69-70 runs under the lock, and tokio's Mutex hands   *)
(* it over in FIFO order.  (The per-peer FIFO of spec section 5.)          *)
FifoSends ==
    \A a, b \in DOMAIN wire : a < b => wire[a] = wire[b] \/ Before(wire[a], wire[b])

(* Once the remote has closed, the reader eventually stops, whether or not *)
(* close() is ever called: a read of 0 bytes is Disconnected (line 129),   *)
(* and every other holder of the stream lock lets it go.                   *)
ReaderStopsAtEof == eof ~> rpc \in {"failed", "exited"}

(* Spec section 8: after close(), no further successful send_bytes.  The   *)
(* code's send_bytes (lines 68-74) never reads closed.                     *)
NoSendAfterClose == \A m \in lateCall : spc[m] # "done"

(* close() returns, even when the remote stays silent: it must get the     *)
(* stream lock at line 142, which the reader holds while its read at line  *)
(* 126 awaits bytes, and the Exit it queued first (line 141) makes the     *)
(* reader drop it.                                                         *)
CloseCompletes == cpc # "idle" ~> cpc = "done"

(* Spec section 4.5(a): the reader reads exactly 4 bytes for the length    *)
(* prefix, so a well-formed stream is never rejected while the remote is   *)
(* still connected.  read_packet_size reads once (line 96).                *)
ReaderFailsOnlyAtEof == rpc = "failed" => eof

(* The refinement mapping to SerialSends: a call in "write" is waiting    *)
(* until write_all has written its first byte.                             *)
SendState ==
    [m \in Msgs |-> IF spc[m] = "write"
                    THEN IF written[m] = 0 THEN "waiting" ELSE "writing"
                    ELSE spc[m]]

Serial == INSTANCE SerialSends WITH log <- callOrder, state <- SendState

(* send_bytes (lines 68-74) implements SerialSends: every call writes or   *)
(* fails only after every call that locked the stream before it has       *)
(* returned, whatever the reader and close() do with the lock meanwhile.  *)
SerialSendsRefined == Serial!Spec

(* Inductive invariant for FifoSends, over the lock and the senders only.  *)
(* Every call in state "write" holds the lock or waits for it exactly once; *)
(* waiting calls queue in call order behind the holder; every chunk on the  *)
(* wire comes from a call that asked before every call still waiting, and  *)
(* only the holder can be writing and have chunks on the wire.             *)
LockTypeOK ==
    /\ holder \in Tasks \cup {NoTask}
    /\ lockQ \in Seq(Tasks)
    /\ spc \in [Msgs -> {"idle", "write", "done", "err"}]
    /\ wire \in Seq(Msgs) /\ callOrder \in Seq(Msgs)

(* Each call is logged once, when it leaves "idle".                        *)
CallsInv ==
    /\ \A i, j \in DOMAIN callOrder : callOrder[i] = callOrder[j] => i = j
    /\ \A m \in Msgs : spc[m] # "idle" <=> \E i \in DOMAIN callOrder : callOrder[i] = m

(* The calls in "write" are the holder and the waiters, each once, queued *)
(* in call order behind the holder.                                        *)
QueueInv ==
    /\ holder = NoTask => lockQ = <<>>
    /\ \A m \in Msgs : spc[m] = "write" <=> (holder = m \/ \E i \in DOMAIN lockQ : lockQ[i] = m)
    /\ \A i, j \in DOMAIN lockQ : lockQ[i] \in Msgs /\ lockQ[i] = lockQ[j] => i = j
    /\ \A i \in DOMAIN lockQ : lockQ[i] \in Msgs => lockQ[i] # holder
    /\ \A i, j \in DOMAIN lockQ :
         i < j /\ lockQ[i] \in Msgs /\ lockQ[j] \in Msgs => Before(lockQ[i], lockQ[j])
    /\ holder \in Msgs =>
         \A i \in DOMAIN lockQ : lockQ[i] \in Msgs => Before(holder, lockQ[i])

(* The wire holds chunks of calls made before every call still writing,   *)
(* except the holder's own.                                                *)
WireInv ==
    /\ \A a \in DOMAIN wire : spc[wire[a]] # "idle"
    /\ \A a \in DOMAIN wire, m \in Msgs :
         spc[m] = "write" /\ wire[a] # m => Before(wire[a], m)
    /\ \A a \in DOMAIN wire : spc[wire[a]] = "write" => wire[a] = holder
    /\ FifoSends

LockInv == LockTypeOK /\ CallsInv /\ QueueInv /\ WireInv

=============================================================================
