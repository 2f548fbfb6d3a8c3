------------------------- MODULE Connection_proofs -------------------------
(***************************************************************************)
(* Proof that concurrent send_bytes calls on one Connection reach the      *)
(* socket in the order they asked for the stream lock, each contiguous     *)
(* (FifoSends), for every set of calls, every frame layout and every       *)
(* buffer size.  The argument is LockInv: tokio's fair Mutex keeps the     *)
(* waiting calls in call order behind the holder, and only the holder      *)
(* writes.                                                                 *)
(***************************************************************************)
EXTENDS Connection, SequenceTheorems, TLAPS

LockVars == <<holder, lockQ, spc, wire, callOrder>>

-----------------------------------------------------------------------------
(* Before only grows when a call is appended to callOrder, and every call  *)
(* already logged comes before the new one.                                *)
LEMMA BeforeAppend ==
    ASSUME LockTypeOK, NEW x \in Msgs, callOrder' = Append(callOrder, x)
    PROVE  /\ \A a, b : Before(a, b) => Before(a, b)'
           /\ \A i \in DOMAIN callOrder : Before(callOrder[i], x)'
<1>1. /\ Len(callOrder') = Len(callOrder) + 1
      /\ \A i \in 1..Len(callOrder) : callOrder'[i] = callOrder[i]
      /\ callOrder'[Len(callOrder) + 1] = x
      /\ DOMAIN callOrder' = 1..Len(callOrder) + 1
      /\ DOMAIN callOrder = 1..Len(callOrder)
  BY AppendProperties, LenProperties DEF LockTypeOK
<1>. QED
  BY <1>1 DEF Before

(* A step that leaves the lock, the senders' states, the wire and the call *)
(* log alone keeps the invariant.                                          *)
LEMMA FrameLockInv ==
    ASSUME LockInv, UNCHANGED LockVars
    PROVE  LockInv'
BY DEF LockInv, LockTypeOK, CallsInv, QueueInv, WireInv, FifoSends, Before, LockVars

(* The reader or close() asks for the stream lock.                        *)
LEMMA LockOtherLockInv ==
    ASSUME LockInv, NEW t \in {"reader", "closer"}, Lock(t),
           UNCHANGED <<spc, wire, callOrder>>
    PROVE  LockInv'
<1>1. t \notin Msgs /\ t \in Tasks /\ t # NoTask
  BY ConstAssumption DEF Tasks, NoTask
<1>2. CASE holder = NoTask
  <2>1. holder' = t /\ lockQ' = lockQ /\ lockQ = <<>>
    BY <1>2 DEF Lock, LockInv, QueueInv
  <2>. QED
    BY <1>1, <1>2, <2>1, ConstAssumption
    DEF LockInv, LockTypeOK, CallsInv, QueueInv, WireInv, FifoSends, Before, NoTask
<1>3. CASE holder # NoTask
  <2>1. holder' = holder /\ lockQ' = Append(lockQ, t)
    BY <1>3 DEF Lock
  <2>2. /\ lockQ' \in Seq(Tasks)
        /\ Len(lockQ') = Len(lockQ) + 1
        /\ \A i \in 1..Len(lockQ) : lockQ'[i] = lockQ[i]
        /\ lockQ'[Len(lockQ) + 1] = t
        /\ DOMAIN lockQ' = 1..Len(lockQ) + 1
        /\ DOMAIN lockQ = 1..Len(lockQ)
    BY <1>1, <2>1, AppendProperties, LenProperties DEF LockInv, LockTypeOK
  <2>3. \A i \in DOMAIN lockQ' : lockQ'[i] \in Msgs => i \in DOMAIN lockQ /\ lockQ'[i] = lockQ[i]
    BY <1>1, <2>2
  <2>. QED
    BY <1>1, <1>3, <2>1, <2>2, <2>3, ConstAssumption
    DEF LockInv, LockTypeOK, CallsInv, QueueInv, WireInv, FifoSends, Before, NoTask
<1>. QED
  BY <1>2, <1>3

(* The holder drops the guard and the lock passes to the oldest waiter.   *)
(* The holder's own call, if any, leaves "write" in the same step.        *)
LEMMA UnlockQueueInv ==
    ASSUME LockTypeOK, QueueInv, Unlock, UNCHANGED callOrder,
           spc' \in [Msgs -> {"idle", "write", "done", "err"}],
           \A m \in Msgs : spc'[m] = "write" <=> (spc[m] = "write" /\ m # holder)
    PROVE  /\ QueueInv'
           /\ holder' \in Tasks \cup {NoTask}
           /\ lockQ' \in Seq(Tasks)
<1>1. NoTask \notin Msgs
  BY ConstAssumption DEF NoTask
<1>2. CASE lockQ = <<>>
  <2>1. holder' = NoTask /\ lockQ' = <<>>
    BY <1>2 DEF Unlock
  <2>2. DOMAIN lockQ' = {}
    BY <2>1
  <2>3. \A m \in Msgs : spc'[m] # "write"
    BY <1>2 DEF QueueInv
  <2>. QED
    BY <1>1, <2>1, <2>2, <2>3, EmptySeq DEF QueueInv
<1>3. CASE lockQ # <<>>
  <2>1. holder' = Head(lockQ) /\ lockQ' = Tail(lockQ)
    BY <1>3 DEF Unlock
  <2>2. /\ Head(lockQ) = lockQ[1]
        /\ Head(lockQ) \in Tasks
        /\ lockQ' \in Seq(Tasks)
        /\ Len(lockQ') = Len(lockQ) - 1
        /\ \A i \in 1..Len(lockQ') : lockQ'[i] = lockQ[i + 1]
        /\ DOMAIN lockQ' = 1..Len(lockQ')
        /\ DOMAIN lockQ = 1..Len(lockQ)
        /\ Len(lockQ) \in Nat \ {0}
    BY <1>3, <2>1, HeadTailProperties, LenProperties, EmptySeq DEF LockTypeOK
  <2>9. \A i \in DOMAIN lockQ' : i \in Nat /\ i + 1 \in DOMAIN lockQ /\ lockQ'[i] = lockQ[i + 1]
    BY <2>2
  <2>10. 1 \in DOMAIN lockQ
    BY <2>2
  <2>11. \A a, b : Before(a, b)' <=> Before(a, b)
    BY DEF Before
  <2>3. holder' # NoTask
    BY <2>1, <2>2, ConstAssumption DEF Tasks, NoTask
  <2>4. ASSUME NEW m \in Msgs
        PROVE  spc'[m] = "write" <=> (holder' = m \/ \E i \in DOMAIN lockQ' : lockQ'[i] = m)
    <3>1. (holder = m \/ \E i \in DOMAIN lockQ : lockQ[i] = m) /\ m # holder
          <=> (lockQ[1] = m \/ \E i \in DOMAIN lockQ' : lockQ'[i] = m)
      <4>1. ASSUME NEW i \in DOMAIN lockQ, lockQ[i] = m, m # holder
            PROVE  lockQ[1] = m \/ \E k \in DOMAIN lockQ' : lockQ'[k] = m
        <5>1. CASE i = 1
          BY <4>1, <5>1
        <5>2. CASE i # 1
          <6>1. i - 1 \in DOMAIN lockQ' /\ lockQ'[i - 1] = lockQ[i]
            BY <5>2, <2>2
          <6>. QED
            BY <4>1, <6>1
        <5>. QED
          BY <5>1, <5>2
      <4>2. ASSUME lockQ[1] = m PROVE m # holder
        BY <4>2, <2>10 DEF QueueInv
      <4>3. ASSUME NEW k \in DOMAIN lockQ', lockQ'[k] = m
            PROVE  m # holder /\ \E i \in DOMAIN lockQ : lockQ[i] = m
        BY <4>3, <2>9 DEF QueueInv
      <4>. QED
        BY <4>1, <4>2, <4>3, <2>2
    <3>. QED
      BY <3>1, <2>1, <2>2 DEF QueueInv
  <2>5. \A i, j \in DOMAIN lockQ' : lockQ'[i] \in Msgs /\ lockQ'[i] = lockQ'[j] => i = j
    BY <2>9 DEF QueueInv
  <2>6. \A i \in DOMAIN lockQ' : lockQ'[i] \in Msgs => lockQ'[i] # holder'
    BY <2>1, <2>2, <2>9, <2>10 DEF QueueInv
  <2>7. \A i, j \in DOMAIN lockQ' :
          i < j /\ lockQ'[i] \in Msgs /\ lockQ'[j] \in Msgs => Before(lockQ[i], lockQ[j])'
    <3>1. SUFFICES ASSUME NEW i \in DOMAIN lockQ', NEW j \in DOMAIN lockQ',
                        i < j, lockQ'[i] \in Msgs, lockQ'[j] \in Msgs
                 PROVE  Before(lockQ[i], lockQ[j])'
      OBVIOUS
    <3>2. i + 1 \in DOMAIN lockQ /\ j + 1 \in DOMAIN lockQ /\ i + 1 < j + 1
          /\ lockQ'[i] = lockQ[i + 1] /\ lockQ'[j] = lockQ[j + 1]
      BY <2>9, <3>1
    <3>3. Before(lockQ[i + 1], lockQ[j + 1])
      BY <3>1, <3>2 DEF QueueInv
    <3>. QED
      BY <3>2, <3>3 DEF Before
  <2>8. holder' \in Msgs =>
          \A i \in DOMAIN lockQ' : lockQ'[i] \in Msgs => Before(holder, lockQ[i])'
    <3>1. SUFFICES ASSUME holder' \in Msgs, NEW i \in DOMAIN lockQ', lockQ'[i] \in Msgs
                 PROVE  Before(holder, lockQ[i])'
      OBVIOUS
    <3>2. holder' = lockQ[1] /\ i + 1 \in DOMAIN lockQ /\ 1 < i + 1 /\ lockQ'[i] = lockQ[i + 1]
      BY <2>1, <2>2, <2>9, <3>1
    <3>3. Before(lockQ[1], lockQ[i + 1])
      BY <3>1, <3>2, <2>10 DEF QueueInv
    <3>. QED
      BY <3>2, <3>3 DEF Before
  <2>12. QueueInv'
    BY <2>3, <2>4, <2>5, <2>6, <2>7, <2>8 DEF QueueInv
  <2>. QED
    BY <2>12, <2>2, <2>1
<1>. QED
  BY <1>1, <1>2, <1>3, EmptySeq DEF LockTypeOK, QueueInv, Unlock

(* WireInv for a wire w, with the senders, the holder and the call log as  *)
(* they are now.                                                           *)
WireInvOf(w) ==
    /\ \A a \in DOMAIN w : spc[w[a]] # "idle"
    /\ \A a \in DOMAIN w, m \in Msgs : spc[m] = "write" /\ w[a] # m => Before(w[a], m)
    /\ \A a \in DOMAIN w : spc[w[a]] = "write" => w[a] = holder
    /\ \A a, b \in DOMAIN w : a < b => w[a] = w[b] \/ Before(w[a], w[b])

(* The holder drops the guard, its call (if any) leaving "write" but not   *)
(* returning to "idle", with the wire after the step already consistent   *)
(* with the calls as they were.                                            *)
LEMMA UnlockLockInv ==
    ASSUME LockTypeOK, CallsInv, QueueInv, Unlock, UNCHANGED callOrder,
           wire' \in Seq(Msgs), WireInvOf(wire'),
           spc' \in [Msgs -> {"idle", "write", "done", "err"}],
           \A m \in Msgs : spc'[m] = "write" <=> (spc[m] = "write" /\ m # holder),
           \A m \in Msgs : spc'[m] = "idle" <=> spc[m] = "idle"
    PROVE  LockInv'
<1>1. /\ QueueInv'
      /\ holder' \in Tasks \cup {NoTask}
      /\ lockQ' \in Seq(Tasks)
  BY UnlockQueueInv
<1>2. \A a, b : Before(a, b)' <=> Before(a, b)
  BY DEF Before
<1>3. LockTypeOK'
  BY <1>1 DEF LockTypeOK
<1>4. CallsInv'
  BY DEF CallsInv
<1>5. WireInv'
  <2>1. \A a \in DOMAIN wire' : spc'[wire'[a]] # "idle"
    BY DEF WireInvOf
  <2>2. \A a \in DOMAIN wire', m \in Msgs :
          spc'[m] = "write" /\ wire'[a] # m => Before(wire[a], m)'
    BY DEF WireInvOf, Before
  <2>3. \A a \in DOMAIN wire' : spc'[wire'[a]] = "write" => wire'[a] = holder'
    BY DEF WireInvOf
  <2>4. FifoSends'
    BY DEF WireInvOf, Before, FifoSends
  <2>. QED
    BY <2>1, <2>2, <2>3, <2>4 DEF WireInv
<1>. QED
  BY <1>1, <1>3, <1>4, <1>5 DEF LockInv

(* The reader's read_packet or close() drops the guard.                    *)
LEMMA UnlockOtherLockInv ==
    ASSUME LockInv, holder \in {"reader", "closer"}, Unlock,
           UNCHANGED <<spc, wire, callOrder>>
    PROVE  LockInv'
<1>1. holder \notin Msgs
  BY ConstAssumption
<1>2. WireInvOf(wire')
  BY DEF LockInv, WireInv, FifoSends, WireInvOf
<1>. QED
  BY <1>1, <1>2, UnlockLockInv DEF LockInv, LockTypeOK
(* A chunk written by the holder of the lock keeps the wire consistent:    *)
(* every call still writing asked after the holder.                        *)
LEMMA WireAppend ==
    ASSUME LockInv, NEW m \in Msgs, holder = m, spc[m] = "write"
    PROVE  WireInvOf(Append(wire, m))
<1>0. DEFINE w == Append(wire, m)
<1>1. /\ w \in Seq(Msgs)
      /\ Len(w) = Len(wire) + 1
      /\ \A i \in 1..Len(wire) : w[i] = wire[i]
      /\ w[Len(wire) + 1] = m
      /\ DOMAIN w = 1..Len(wire) + 1
      /\ DOMAIN wire = 1..Len(wire)
  BY AppendProperties, LenProperties DEF LockInv, LockTypeOK
<1>2. ASSUME NEW m2 \in Msgs, spc[m2] = "write", m2 # m PROVE Before(m, m2)
  <2>1. PICK i \in DOMAIN lockQ : lockQ[i] = m2
    BY <1>2 DEF LockInv, QueueInv
  <2>. QED
    BY <2>1 DEF LockInv, QueueInv
<1>3. \A a \in DOMAIN wire : wire[a] = m \/ Before(wire[a], m)
  BY DEF LockInv, WireInv
<1>. QED
  BY <1>1, <1>2, <1>3 DEF WireInvOf, LockInv, WireInv, FifoSends

(* One write of write_all, or its error, in send_bytes.                    *)
LEMMA SendWriteLockInv ==
    ASSUME LockInv, NEW m \in Msgs, SendWrite(m)
    PROVE  LockInv'
<1>1. holder = m /\ spc[m] = "write" /\ UNCHANGED callOrder
  BY DEF SendWrite
<1>2. WireInvOf(Append(wire, m))
  BY <1>1, WireAppend
<1>3. Append(wire, m) \in Seq(Msgs)
  BY AppendProperties DEF LockInv, LockTypeOK
<1>4. CASE ~shut /\ \E k \in 1..(MsgLen[m] - written[m]) :
               /\ written' = [written EXCEPT ![m] = @ + k]
               /\ wire' = Append(wire, m)
               /\ IF written[m] + k = MsgLen[m]
                  THEN /\ spc' = [spc EXCEPT ![m] = "done"]
                       /\ bytesOut' = bytesOut + MsgLen[m]
                       /\ Unlock
                  ELSE UNCHANGED <<spc, bytesOut, holder, lockQ>>
  <2>1. PICK k \in 1..(MsgLen[m] - written[m]) :
               /\ wire' = Append(wire, m)
               /\ IF written[m] + k = MsgLen[m]
                  THEN /\ spc' = [spc EXCEPT ![m] = "done"]
                       /\ Unlock
                  ELSE UNCHANGED <<spc, holder, lockQ>>
    BY <1>4
  <2>2. CASE written[m] + k = MsgLen[m]
    <3>1. spc' = [spc EXCEPT ![m] = "done"] /\ Unlock /\ wire' = Append(wire, m)
      BY <2>1, <2>2
    <3>. QED
      BY <3>1, <1>1, <1>2, <1>3, UnlockLockInv DEF LockInv, LockTypeOK
  <2>3. CASE written[m] + k # MsgLen[m]
    <3>1. UNCHANGED <<spc, holder, lockQ, callOrder>> /\ wire' = Append(wire, m)
      BY <2>1, <2>3, <1>1
    <3>2. \A a \in DOMAIN wire' : spc'[wire'[a]] # "idle"
      BY <3>1, <1>2 DEF WireInvOf
    <3>3. \A a \in DOMAIN wire', m2 \in Msgs :
            spc'[m2] = "write" /\ wire'[a] # m2 => Before(wire[a], m2)'
      BY <3>1, <1>2 DEF WireInvOf, Before
    <3>4. \A a \in DOMAIN wire' : spc'[wire'[a]] = "write" => wire'[a] = holder'
      BY <3>1, <1>2 DEF WireInvOf
    <3>5. FifoSends'
      BY <3>1, <1>2 DEF WireInvOf, FifoSends, Before
    <3>6. (LockTypeOK /\ CallsInv /\ QueueInv)'
      BY <3>1, <1>3 DEF LockInv, LockTypeOK, CallsInv, QueueInv, Before
    <3>. QED
      BY <3>2, <3>3, <3>4, <3>5, <3>6 DEF LockInv, WireInv
  <2>. QED
    BY <2>2, <2>3
<1>5. CASE (shut \/ eof) /\ spc' = [spc EXCEPT ![m] = "err"] /\ Unlock
           /\ UNCHANGED <<written, wire, bytesOut>>
  <2>1. WireInvOf(wire')
    BY <1>5 DEF LockInv, WireInv, FifoSends, WireInvOf
  <2>. QED
    BY <1>1, <1>5, <2>1, UnlockLockInv DEF LockInv, LockTypeOK
<1>. QED
  BY <1>4, <1>5 DEF SendWrite

(* send_bytes logs its call and asks for the stream lock.                  *)
LEMMA SendLockLockInv ==
    ASSUME LockInv, NEW m \in Msgs, SendLock(m)
    PROVE  LockInv'
<1>1. /\ spc[m] = "idle" /\ spc' = [spc EXCEPT ![m] = "write"]
      /\ callOrder' = Append(callOrder, m) /\ UNCHANGED wire /\ Lock(m)
  BY DEF SendLock
<1>2. /\ \A a, b : Before(a, b) => Before(a, b)'
      /\ \A i \in DOMAIN callOrder : Before(callOrder[i], m)'
  BY <1>1, BeforeAppend DEF LockInv
<1>3. /\ callOrder' \in Seq(Msgs)
      /\ \A i \in DOMAIN callOrder' :
           \/ i \in DOMAIN callOrder /\ callOrder'[i] = callOrder[i]
           \/ i = Len(callOrder) + 1 /\ callOrder'[i] = m
      /\ Len(callOrder) + 1 \in DOMAIN callOrder'
      /\ callOrder'[Len(callOrder) + 1] = m
      /\ \A i \in DOMAIN callOrder : i \in DOMAIN callOrder' /\ i < Len(callOrder) + 1
  BY <1>1, AppendProperties, LenProperties DEF LockInv, LockTypeOK
<1>4. \A i \in DOMAIN callOrder : callOrder[i] # m
  BY <1>1 DEF LockInv, CallsInv
<1>5. \A x \in Msgs : spc[x] # "idle" => Before(x, m)'
  BY <1>1, <1>2 DEF LockInv, CallsInv
<1>6. /\ spc' \in [Msgs -> {"idle", "write", "done", "err"}]
      /\ \A x \in Msgs : spc'[x] = IF x = m THEN "write" ELSE spc[x]
  BY <1>1 DEF LockInv, LockTypeOK
<1>7. m # holder /\ \A i \in DOMAIN lockQ : lockQ[i] # m
  BY <1>1 DEF LockInv, QueueInv
<1>8. CallsInv'
  <2>1. \A i, j \in DOMAIN callOrder' : callOrder'[i] = callOrder'[j] => i = j
    BY <1>3, <1>4 DEF LockInv, CallsInv
  <2>2. \A x \in Msgs : spc'[x] # "idle" <=> \E i \in DOMAIN callOrder' : callOrder'[i] = x
    BY <1>3, <1>6 DEF LockInv, CallsInv
  <2>. QED
    BY <2>1, <2>2 DEF CallsInv
<1>9. WireInv'
  <2>1. \A a \in DOMAIN wire : wire[a] # m /\ spc[wire[a]] # "idle"
    BY <1>1 DEF LockInv, WireInv
  <2>2. \A a \in DOMAIN wire' : spc'[wire'[a]] # "idle"
    BY <1>1, <1>6, <2>1
  <2>3. \A a \in DOMAIN wire', x \in Msgs :
          spc'[x] = "write" /\ wire'[a] # x => Before(wire[a], x)'
    BY <1>1, <1>2, <1>5, <1>6, <2>1 DEF LockInv, LockTypeOK, WireInv
  <2>4. \A a \in DOMAIN wire' : spc'[wire'[a]] = "write" => wire'[a] = holder'
    <3>1. SUFFICES ASSUME NEW a \in DOMAIN wire, spc[wire[a]] = "write"
                   PROVE  wire[a] = holder'
      BY <1>1, <1>6, <2>1
    <3>2. wire[a] = holder /\ holder \in Msgs
      BY <3>1 DEF LockInv, WireInv, LockTypeOK
    <3>3. holder # NoTask
      BY <3>2, ConstAssumption DEF NoTask
    <3>. QED
      BY <1>1, <3>2, <3>3 DEF Lock
  <2>5. FifoSends'
    BY <1>1, <1>2 DEF LockInv, WireInv, FifoSends
  <2>. QED
    BY <2>2, <2>3, <2>4, <2>5 DEF WireInv
<1>10. QueueInv' /\ holder' \in Tasks \cup {NoTask} /\ lockQ' \in Seq(Tasks)
  <2>1. m \in Tasks /\ m # NoTask
    BY ConstAssumption DEF Tasks, NoTask
  <2>2. CASE holder = NoTask
    <3>1. holder' = m /\ lockQ' = <<>> /\ lockQ = <<>>
      BY <1>1, <2>2 DEF Lock, LockInv, QueueInv
    <3>2. \A x \in Msgs : x # m => spc[x] # "write"
      BY <2>2, <3>1, ConstAssumption DEF LockInv, QueueInv, NoTask
    <3>. QED
      BY <1>6, <2>1, <3>1, <3>2 DEF QueueInv
  <2>3. CASE holder # NoTask
    <3>1. holder' = holder /\ lockQ' = Append(lockQ, m)
      BY <1>1, <2>3 DEF Lock
    <3>2. /\ lockQ' \in Seq(Tasks)
          /\ \A i \in DOMAIN lockQ' :
               \/ i \in DOMAIN lockQ /\ lockQ'[i] = lockQ[i]
               \/ i = Len(lockQ) + 1 /\ lockQ'[i] = m
          /\ Len(lockQ) + 1 \in DOMAIN lockQ'
          /\ lockQ'[Len(lockQ) + 1] = m
          /\ \A i \in DOMAIN lockQ : i \in DOMAIN lockQ' /\ i < Len(lockQ) + 1
      BY <2>1, <3>1, AppendProperties, LenProperties DEF LockInv, LockTypeOK
    <3>3. \A x \in Msgs : spc'[x] = "write" <=> (holder' = x \/ \E i \in DOMAIN lockQ' : lockQ'[i] = x)
      BY <1>6, <1>7, <3>1, <3>2 DEF LockInv, QueueInv
    <3>4. \A i, j \in DOMAIN lockQ' : lockQ'[i] \in Msgs /\ lockQ'[i] = lockQ'[j] => i = j
      BY <1>7, <3>2 DEF LockInv, QueueInv
    <3>5. \A i \in DOMAIN lockQ' : lockQ'[i] \in Msgs => lockQ'[i] # holder'
      BY <1>7, <3>1, <3>2 DEF LockInv, QueueInv
    <3>6. \A i \in DOMAIN lockQ : lockQ[i] \in Msgs => spc[lockQ[i]] # "idle"
      BY DEF LockInv, QueueInv
    <3>7. \A i, j \in DOMAIN lockQ' :
            i < j /\ lockQ'[i] \in Msgs /\ lockQ'[j] \in Msgs => Before(lockQ[i], lockQ[j])'
      BY <1>2, <1>5, <3>2, <3>6 DEF LockInv, QueueInv
    <3>8. holder' \in Msgs =>
            \A i \in DOMAIN lockQ' : lockQ'[i] \in Msgs => Before(holder, lockQ[i])'
      <4>1. holder \in Msgs => spc[holder] # "idle"
        BY DEF LockInv, QueueInv
      <4>. QED
        BY <1>2, <1>5, <3>1, <3>2, <4>1 DEF LockInv, QueueInv
    <3>. QED
      BY <2>3, <3>1, <3>2, <3>3, <3>4, <3>5, <3>7, <3>8 DEF QueueInv, LockInv, LockTypeOK
  <2>. QED
    BY <2>2, <2>3
<1>. QED
  BY <1>1, <1>3, <1>6, <1>8, <1>9, <1>10 DEF LockInv, LockTypeOK

(* read_packet takes the lock, reads, and drops it when it returns or     *)
(* fails, or when the reader takes Exit; it never touches the senders'    *)
(* state.                                                                  *)
LEMMA ReaderLockInv ==
    ASSUME LockInv, Reader
    PROVE  LockInv'
<1>1. CASE ReaderLock
  BY <1>1, LockOtherLockInv DEF ReaderLock, senderVars
<1>2. CASE ReaderSize \/ ReaderBody
  <2>1. holder = "reader" /\ UNCHANGED <<spc, wire, callOrder>>
    BY <1>2 DEF ReaderSize, ReaderBody, senderVars
  <2>2. UNCHANGED <<holder, lockQ>> \/ Unlock
    BY <1>2 DEF ReaderSize, ReaderBody, ReaderFails
  <2>3. CASE UNCHANGED <<holder, lockQ>>
    BY <2>1, <2>3, FrameLockInv DEF LockVars
  <2>4. CASE Unlock
    BY <2>1, <2>4, UnlockOtherLockInv
  <2>. QED
    BY <2>2, <2>3, <2>4
<1>3. CASE ReaderExit
  <2>1. UNCHANGED <<spc, wire, callOrder>>
    BY <1>3 DEF ReaderExit, senderVars
  <2>2. CASE UNCHANGED <<holder, lockQ>>
    BY <2>1, <2>2, FrameLockInv DEF LockVars
  <2>3. CASE holder = "reader" /\ Unlock
    BY <2>1, <2>3, UnlockOtherLockInv
  <2>. QED
    BY <1>3, <2>2, <2>3 DEF ReaderExit
<1>. QED
  BY <1>1, <1>2, <1>3 DEF Reader

(* close() sets closed, queues Exit and takes the lock, shuts down and     *)
(* drops it; the remote's steps touch neither the lock nor the senders.   *)
LEMMA CloserRemoteLockInv ==
    ASSUME LockInv, Closer \/ Remote
    PROVE  LockInv'
<1>1. CASE CloseFlag \/ Remote
  BY <1>1, FrameLockInv DEF CloseFlag, Remote, Deliver, RemoteClose, LockVars, senderVars
<1>2. CASE CloseExit
  BY <1>2, LockOtherLockInv DEF CloseExit, senderVars
<1>3. CASE CloseShutdown
  BY <1>3, UnlockOtherLockInv DEF CloseShutdown, senderVars
<1>. QED
  BY <1>1, <1>2, <1>3 DEF Closer

(* The lock invariant holds initially: no holder, no call, an empty wire. *)
LEMMA InitLockInv ==
    Init => LockInv
BY ConstAssumption
DEF Init, LockInv, LockTypeOK, CallsInv, QueueInv, WireInv, FifoSends, Tasks, NoTask

(* Every step of the connection keeps the lock invariant.                 *)
LEMMA NextLockInv ==
    LockInv /\ [Next]_vars => LockInv'
<1> SUFFICES ASSUME LockInv, [Next]_vars PROVE LockInv'
  OBVIOUS
<1>1. CASE Reader
  BY <1>1, ReaderLockInv
<1>2. CASE \E m \in Msgs : Sender(m)
  BY <1>2, SendLockLockInv, SendWriteLockInv DEF Sender
<1>3. CASE Closer \/ Remote
  BY <1>3, CloserRemoteLockInv
<1>4. CASE UNCHANGED vars
  BY <1>4, FrameLockInv DEF vars, LockVars
<1>. QED
  BY <1>1, <1>2, <1>3, <1>4 DEF Next

(* FifoSends: concurrent send_bytes calls (connection.rs lines 68-74) put  *)
(* their bytes on the socket in the order they called lock() on the      *)
(* stream, each call's bytes contiguous, for any number of calls, any    *)
(* message lengths and any frames read meanwhile.                          *)
THEOREM FifoSendsHolds == Spec => []FifoSends
<1>1. Spec => []LockInv
  BY InitLockInv, NextLockInv, PTL DEF Spec
<1>2. LockInv => FifoSends
  BY DEF LockInv, WireInv
<1>. QED
  BY <1>1, <1>2, PTL

-----------------------------------------------------------------------------
(* The refinement of SerialSends.                                          *)

(* A call that has not locked the stream has written nothing.              *)
WrittenInv ==
    /\ written \in [Msgs -> Nat]
    /\ \A m \in Msgs : spc[m] = "idle" => written[m] = 0

LEMMA InitWrittenInv ==
    Init => WrittenInv
BY DEF Init, WrittenInv

(* Only write_all adds to written, and only for a call holding the lock.  *)
LEMMA NextWrittenInv ==
    LockTypeOK /\ WrittenInv /\ [Next]_vars => WrittenInv'
<1> SUFFICES ASSUME LockTypeOK, WrittenInv, [Next]_vars PROVE WrittenInv'
  OBVIOUS
<1>1. CASE \E m \in Msgs : SendLock(m)
  BY <1>1 DEF SendLock, WrittenInv, LockTypeOK
<1>2. ASSUME NEW m \in Msgs, SendWrite(m) PROVE WrittenInv'
  <2>1. spc[m] = "write" /\ spc'[m] # "idle"
        /\ \A x \in Msgs \ {m} : spc'[x] = spc[x]
    BY <1>2 DEF SendWrite, LockTypeOK
  <2>2. written' = written
        \/ \E k \in 1..(MsgLen[m] - written[m]) : written' = [written EXCEPT ![m] = @ + k]
    BY <1>2 DEF SendWrite
  <2>3. MsgLen[m] \in Nat
    BY ConstAssumption
  <2>. QED
    BY <2>1, <2>2, <2>3 DEF WrittenInv
<1>3. CASE Reader \/ Closer \/ Remote \/ UNCHANGED vars
  BY <1>3 DEF Reader, ReaderLock, ReaderSize, ReaderBody, ReaderExit, Closer, CloseFlag,
              CloseExit, CloseShutdown, Remote, Deliver, RemoteClose,
              senderVars, vars, WrittenInv
<1>. QED
  BY <1>1, <1>2, <1>3 DEF Next, Sender

(* The holder of the stream lock is in its turn: every call that locked   *)
(* before it has returned.  A call still writing is the holder itself or  *)
(* waits behind it, so it asked after the holder, and the log lists each  *)
(* call once.                                                              *)
LEMMA HolderTurn ==
    ASSUME LockInv, NEW m \in Msgs, holder = m,
           NEW i \in DOMAIN callOrder, NEW j \in DOMAIN callOrder,
           i < j, callOrder[j] = m
    PROVE  spc[callOrder[i]] \in {"done", "err"}
<1> DEFINE c == callOrder[i]
<1>1. c \in Msgs /\ i \in Nat /\ j \in Nat
  BY DEF LockInv, LockTypeOK
<1>2. spc[c] # "idle"
  BY <1>1 DEF LockInv, CallsInv
<1>3. spc[c] # "write"
  <2> SUFFICES ASSUME spc[c] = "write" PROVE FALSE
    OBVIOUS
  <2>1. c # m
    BY <1>1 DEF LockInv, CallsInv
  <2>2. PICK k \in DOMAIN lockQ : lockQ[k] = c
    BY <1>1, <2>1 DEF LockInv, QueueInv
  <2>3. Before(m, c)
    BY <1>1, <2>2 DEF LockInv, QueueInv
  <2>4. PICK i2, j2 \in DOMAIN callOrder :
          i2 < j2 /\ callOrder[i2] = m /\ callOrder[j2] = c
    BY <2>3 DEF Before
  <2>5. i2 = j /\ j2 = i
    BY <2>4 DEF LockInv, CallsInv
  <2>. QED
    BY <2>4, <2>5, <1>1 DEF LockInv, LockTypeOK
<1>. QED
  BY <1>1, <1>2, <1>3 DEF LockInv, LockTypeOK

(* send_bytes implements SerialSends: the lock hand-over gives each call  *)
(* its turn in call order, and every step of the reader, close() or the    *)
(* remote leaves the calls alone.                                          *)
THEOREM SerialRefinement == Spec => SerialSendsRefined
<1>1. Init => Serial!Init
  BY DEF Init, Serial!Init, SendState
<1>2. ASSUME LockInv, WrittenInv, [Next]_vars
      PROVE  [Serial!Next]_Serial!vars
  <2>1. CASE UNCHANGED <<spc, written, callOrder>>
    BY <2>1 DEF Serial!vars, SendState
  <2>2. ASSUME NEW m \in Msgs, SendLock(m) PROVE Serial!Call(m)
    <3>1. spc[m] = "idle" /\ written[m] = 0 /\ UNCHANGED written
      BY <2>2, <1>2 DEF SendLock, WrittenInv
    <3>2. SendState[m] = "idle"
      BY <3>1 DEF SendState
    <3>3. SendState' = [SendState EXCEPT ![m] = "waiting"]
      BY <1>2, <2>2, <3>1 DEF SendLock, SendState, LockInv, LockTypeOK
    <3>. QED
      BY <2>2, <3>2, <3>3 DEF SendLock, Serial!Call
  <2>3. ASSUME NEW m \in Msgs, SendWrite(m) PROVE Serial!Write(m) \/ Serial!Fail(m)
    <3>1. holder = m /\ spc[m] = "write" /\ UNCHANGED callOrder
      BY <2>3 DEF SendWrite
    <3>2. SendState[m] \in {"waiting", "writing"}
      BY <3>1 DEF SendState
    <3>3. Serial!Turn(m)
      <4>1. \A i, j \in DOMAIN callOrder :
              i < j /\ callOrder[j] = m => spc[callOrder[i]] \in {"done", "err"}
        BY <3>1, <1>2, HolderTurn
      <4>2. \A i \in DOMAIN callOrder : callOrder[i] \in Msgs
        BY <1>2 DEF LockInv, LockTypeOK
      <4>. QED
        BY <4>1, <4>2 DEF Serial!Turn, Serial!Finished, SendState
    <3>4. written \in [Msgs -> Nat] /\ MsgLen[m] \in Nat
      BY <1>2, ConstAssumption DEF WrittenInv
    <3>5. CASE ~shut /\ \E k \in 1..(MsgLen[m] - written[m]) :
               /\ written' = [written EXCEPT ![m] = @ + k]
               /\ wire' = Append(wire, m)
               /\ IF written[m] + k = MsgLen[m]
                  THEN /\ spc' = [spc EXCEPT ![m] = "done"]
                       /\ bytesOut' = bytesOut + MsgLen[m]
                       /\ Unlock
                  ELSE UNCHANGED <<spc, bytesOut, holder, lockQ>>
      <4>1. PICK k \in 1..(MsgLen[m] - written[m]) :
               /\ written' = [written EXCEPT ![m] = @ + k]
               /\ IF written[m] + k = MsgLen[m]
                  THEN spc' = [spc EXCEPT ![m] = "done"]
                  ELSE UNCHANGED spc
        BY <3>5
      <4>2. SendState' \in {[SendState EXCEPT ![m] = s] : s \in {"writing", "done"}}
        <5>1. CASE written[m] + k = MsgLen[m]
          <6>1. SendState' = [SendState EXCEPT ![m] = "done"]
            BY <3>1, <3>4, <4>1, <5>1, <1>2 DEF SendState, LockInv, LockTypeOK
          <6>. QED
            BY <6>1
        <5>2. CASE written[m] + k # MsgLen[m]
          <6>0. /\ written'[m] # 0 /\ spc' = spc
                /\ \A x \in Msgs \ {m} : written'[x] = written[x]
            BY <3>4, <4>1, <5>2
          <6>1. SendState' = [SendState EXCEPT ![m] = "writing"]
            BY <3>1, <6>0, <1>2 DEF SendState, LockInv, LockTypeOK
          <6>. QED
            BY <6>1
        <5>. QED
          BY <5>1, <5>2
      <4>. QED
        BY <3>1, <3>2, <3>3, <4>2 DEF Serial!Write
    <3>6. CASE (shut \/ eof) /\ spc' = [spc EXCEPT ![m] = "err"] /\ Unlock
               /\ UNCHANGED <<written, wire, bytesOut>>
      <4>1. SendState' = [SendState EXCEPT ![m] = "err"]
        BY <3>6, <1>2 DEF SendState, LockInv, LockTypeOK
      <4>. QED
        BY <3>1, <3>2, <3>3, <4>1 DEF Serial!Fail
    <3>. QED
      BY <3>5, <3>6, <2>3 DEF SendWrite
  <2>4. CASE Reader \/ Closer \/ Remote \/ UNCHANGED vars
    BY <2>4, <2>1 DEF Reader, ReaderLock, ReaderSize, ReaderBody, ReaderExit, Closer, CloseFlag,
                      CloseExit, CloseShutdown, Remote, Deliver, RemoteClose,
                      senderVars, vars
  <2>. QED
    BY <2>2, <2>3, <2>4, <1>2 DEF Next, Sender, Serial!Next
<1>3. Spec => [](LockInv /\ WrittenInv)
  <2>1. Init => LockInv /\ WrittenInv
    BY InitLockInv, InitWrittenInv
  <2>2. LockInv /\ WrittenInv /\ [Next]_vars => (LockInv /\ WrittenInv)'
    BY NextLockInv, NextWrittenInv DEF LockInv
  <2>. QED
    BY <2>1, <2>2, PTL DEF Spec
<1>. QED
  BY <1>1, <1>2, <1>3, PTL DEF Spec, SerialSendsRefined, Serial!Spec
=============================================================================
