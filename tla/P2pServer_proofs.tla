-------------------------- MODULE P2pServer_proofs --------------------------
(***************************************************************************)
(* Proofs about the peer registry of P2pServer, for every value of the     *)
(* constants allowed by ConstAssumption: the model is well typed, the      *)
(* server never registers itself, and the panic of add_connection on a    *)
(* duplicate peer id is unreachable. The argument is the inductive        *)
(* invariant IInv of P2pServer: while the main thread holds a verified    *)
(* handshake, the peer id it carries stays unregistered, because every    *)
(* other thread only removes from the registry.                           *)
(***************************************************************************)
EXTENDS P2pServer, FiniteSetTheorems, SequenceTheorems, TLAPS

-----------------------------------------------------------------------------
(* Finiteness of the peer ids, hence of the registry and of the messages  *)
(* broadcast_bytes queues: their cardinalities are natural numbers.       *)

LEMMA PeerIdsFinite == IsFiniteSet(PeerIds)
<1>1. PeerIdOf \in Surjection(Nodes, {PeerIdOf[n] : n \in Nodes})
  BY ConstAssumption DEF Surjection
<1>2. IsFiniteSet({PeerIdOf[n] : n \in Nodes})
  BY <1>1, ConstAssumption, FS_Surjection
<1>. QED
  BY <1>2, FS_AddElement DEF PeerIds

LEMMA RegistryFinite ==
    ASSUME TypeOK
    PROVE  /\ IsFiniteSet(DOMAIN registry)
           /\ PeerCount \in Nat
<1>1. IsFiniteSet(DOMAIN registry)
  BY PeerIdsFinite, FS_Subset DEF TypeOK
<1>. QED
  BY <1>1, FS_CardinalityType DEF PeerCount

(* The SendBytes messages broadcast_bytes queues in single mode, one per  *)
(* registered peer, form a finite set of channel messages.                *)
LEMMA BroadcastMsgsFinite ==
    ASSUME TypeOK
    PROVE  LET msgs == {[kind |-> "send", pid |-> p, conn |-> 0] : p \in DOMAIN registry}
           IN  /\ IsFiniteSet(msgs)
               /\ Cardinality(msgs) \in Nat
               /\ msgs \subseteq InboxMsg
<1> DEFINE msgs == {[kind |-> "send", pid |-> p, conn |-> 0] : p \in DOMAIN registry}
           f == [p \in DOMAIN registry |-> [kind |-> "send", pid |-> p, conn |-> 0]]
<1>1. f \in Surjection(DOMAIN registry, msgs)
  BY DEF Surjection
<1>2. IsFiniteSet(msgs)
  BY <1>1, RegistryFinite, FS_Surjection
<1>3. msgs \subseteq InboxMsg
  BY DEF TypeOK, InboxMsg
<1>. QED
  BY <1>2, <1>3, FS_CardinalityType

-----------------------------------------------------------------------------
(* Sequence facts the actions rely on. *)

(* A gossip list left by the is_connected_to_addr filter is a list of     *)
(* addresses, and so is its prefix taken by Iterator::take.               *)
LEMMA UnknownIsSeq ==
    ASSUME NEW g \in Unknown, NEW k \in Int
    PROVE  /\ g \in Seq(Nodes)
           /\ k >= 0 => Take(g, k) \in Seq(Nodes)
<1>1. g \in Seq(Nodes)
  <2>1. PICK m \in 0..MaxGossip : g \in [1..m -> Nodes]
    BY DEF Unknown, GossipLists
  <2>. QED
    BY <2>1, ConstAssumption, IsASeq
<1>2. ASSUME k >= 0 PROVE Take(g, k) \in Seq(Nodes)
  <2>1. MinOf(k, Len(g)) \in Int /\ MinOf(k, Len(g)) <= Len(g)
    BY <1>1, LenProperties DEF MinOf
  <2>2. \A i \in 1..MinOf(k, Len(g)) : g[i] \in Nodes
    BY <1>1, <2>1, ElementOfSeq
  <2>. QED
    BY <2>1, <2>2, SubSeqProperties DEF Take
<1>. QED
  BY <1>1, <1>2

-----------------------------------------------------------------------------
(* Initially the invariant holds. *)
LEMMA InitIInv == Init => IInv
<1> SUFFICES ASSUME Init PROVE IInv
  OBVIOUS
<1>1. Seeds \in Seq(Nodes) /\ <<Seeds>> \in Seq(Seq(Nodes))
  BY ConstAssumption, IsASeq
<1>2. NoPending \in Verified
  BY ConstAssumption DEF NoPending, Verified, ConnIds
<1>3. MaxConns \in Nat
  BY ConstAssumption
<1>4. /\ <<>> \in Seq(InboxMsg) /\ <<>> \in Seq(ConnIds)
      /\ mbox \in [ConnIds -> Seq({"send", "exit"})]
  BY EmptySeq DEF Init
<1>5. /\ DOMAIN registry = {} /\ DOMAIN local = {}
      /\ DOMAIN info = 1..(nextConn - 1)
  BY DEF Init
<1>6. registry \in [DOMAIN registry -> ConnIds] /\ local \in [DOMAIN local -> ConnIds]
  BY <1>5 DEF Init
<1>7. info \in [DOMAIN info -> [node : Nodes, out : BOOLEAN]]
  BY <1>5 DEF Init
<1>8. nextConn \in 1..(MaxConns + 1) /\ stack \in Seq(Seq(Nodes)) /\ pending \in Verified
  BY <1>1, <1>2, <1>3 DEF Init
<1>9. /\ inbox \in Seq(InboxMsg) /\ jobs \in Seq(ConnIds)
      /\ gone \subseteq ConnIds /\ closed \subseteq ConnIds
      /\ lsnTodo \subseteq ConnIds /\ workers \subseteq ConnIds
  BY <1>4 DEF Init
<1>. QED
  BY <1>4, <1>5, <1>6, <1>7, <1>8, <1>9 DEF Init, IInv, TypeOK, Panics

(* verify_handshake, from the main thread's dial or accept: a refused    *)
(* peer id panics nothing, a slot underflow stops the main thread, and a *)
(* verified handshake names a fresh connection and an unregistered peer. *)
LEMMA VerifyHandshakeIInv ==
    ASSUME IInv, NEW n \in Nodes, NEW out \in BOOLEAN,
           VerifyHandshake(n, out),
           stack' \in Seq(Seq(Nodes)),
           UNCHANGED <<registry, gone, closed, started, inbox, local, lsnPc,
                       lsnTodo, mbox, jobs, workers>>
    PROVE  IInv'
<1>1. PICK peers \in Unknown :
         IF SlotsAvailable < 0 /\ OverflowChecks
         THEN /\ mainPc' = "slot_panic"
              /\ UNCHANGED <<pending, info, nextConn>>
         ELSE /\ mainPc' = "reg"
              /\ info' = Put(info, nextConn, [node |-> n, out |-> out])
              /\ nextConn' = nextConn + 1
              /\ pending' = [conn |-> nextConn, node |-> n, out |-> out,
                             peers |-> IF SlotsAvailable < 0 THEN peers
                                       ELSE Take(peers, SlotsAvailable)]
  BY DEF VerifyHandshake, CreateConnection
<1>2. nextConn \in ConnIds /\ ~IsConnectedTo(PeerIdOf[n])
  BY DEF VerifyHandshake, CreateConnection, IInv, TypeOK, ConnIds
<1>3. SlotsAvailable \in Int
  BY RegistryFinite, ConstAssumption DEF IInv, SlotsAvailable
<1>4. CASE SlotsAvailable < 0 /\ OverflowChecks
  BY <1>1, <1>4 DEF IInv, TypeOK, Panics
<1>5. CASE ~(SlotsAvailable < 0 /\ OverflowChecks)
  <2>1. /\ mainPc' = "reg"
        /\ info' = Put(info, nextConn, [node |-> n, out |-> out])
        /\ nextConn' = nextConn + 1
        /\ pending' = [conn |-> nextConn, node |-> n, out |-> out,
                       peers |-> IF SlotsAvailable < 0 THEN peers
                                 ELSE Take(peers, SlotsAvailable)]
    BY <1>1, <1>5
  <2>2. (IF SlotsAvailable < 0 THEN peers ELSE Take(peers, SlotsAvailable)) \in Seq(Nodes)
    BY <1>3, UnknownIsSeq
  <2>3. pending' \in Verified /\ pending'.conn \in ConnIds
    BY <1>2, <2>1, <2>2 DEF Verified
  <2>4. PeerIdOf[pending'.node] \notin DOMAIN registry' \cup {SelfId}
    BY <1>2, <2>1 DEF IsConnectedTo
  <2>5. DOMAIN info' = 1..(nextConn' - 1)
        /\ info' \in [DOMAIN info' -> [node : Nodes, out : BOOLEAN]]
    BY <1>2, <2>1 DEF IInv, TypeOK, Put, ConnIds
  <2>6. TypeOK'
    <3>1. nextConn' \in 1..(MaxConns + 1)
      BY <1>2, <2>1, ConstAssumption DEF ConnIds
    <3>2. mainPc' \in {"run", "reg"} \cup Panics
      BY <2>1
    <3>3. /\ DOMAIN registry' \subseteq PeerIds
          /\ registry' \in [DOMAIN registry' -> ConnIds]
          /\ gone' \subseteq ConnIds /\ closed' \subseteq ConnIds
          /\ started' \in BOOLEAN
          /\ inbox' \in Seq(InboxMsg)
          /\ DOMAIN local' \subseteq PeerIds /\ local' \in [DOMAIN local' -> ConnIds]
          /\ lsnPc' \in {"off", "drain", "poll"}
          /\ lsnTodo' \subseteq ConnIds
          /\ mbox' \in [ConnIds -> Seq({"send", "exit"})]
          /\ jobs' \in Seq(ConnIds)
          /\ workers' \subseteq ConnIds
      BY DEF IInv, TypeOK
    <3>. QED
      BY <3>1, <3>2, <3>3, <2>3, <2>5 DEF TypeOK
  <2>. QED
    BY <2>1, <2>3, <2>4, <2>6 DEF IInv
<1>. QED
  BY <1>4, <1>5

(* A step of a thread other than the main one leaves the main thread's    *)
(* state alone and can only shrink the registry: it keeps the invariant    *)
(* as soon as it keeps the types.                                          *)
LEMMA OtherThreadIInv ==
    ASSUME IInv, TypeOK',
           DOMAIN registry' \subseteq DOMAIN registry,
           UNCHANGED <<info, nextConn, mainPc, stack, pending>>
    PROVE  IInv'
BY DEF IInv

(* The dial of the next address of the innermost loop. *)
LEMMA MainDialIInv == IInv /\ MainDial => IInv'
<1> SUFFICES ASSUME IInv, MainDial PROVE IInv'
  OBVIOUS
<1>1. /\ Len(stack) \in 1..Len(stack)
      /\ Top \in Seq(Nodes) /\ Top # <<>>
  BY ElementOfSeq, LenProperties, EmptySeq DEF MainDial, IInv, TypeOK, Top
<1>2. Head(Top) \in Nodes /\ Tail(Top) \in Seq(Nodes)
  BY <1>1, HeadTailProperties
<1>3. stack' \in Seq(Seq(Nodes))
  BY <1>1, <1>2, ExceptSeq DEF MainDial, IInv, TypeOK
<1>4. CASE UNCHANGED <<mainPc, pending, info, nextConn>>
  BY <1>3, <1>4 DEF MainDial, IInv, TypeOK
<1>5. CASE VerifyHandshake(Head(Top), TRUE)
  BY <1>2, <1>3, <1>5, VerifyHandshakeIInv DEF MainDial
<1>. QED
  BY <1>4, <1>5 DEF MainDial

(* The innermost loop returns. *)
LEMMA MainReturnIInv == IInv /\ MainReturn => IInv'
<1> SUFFICES ASSUME IInv, MainReturn PROVE IInv'
  OBVIOUS
<1>1. Len(stack) \in Nat /\ \A i \in 1..(Len(stack) - 1) : stack[i] \in Seq(Nodes)
  BY ElementOfSeq, LenProperties DEF IInv, TypeOK
<1>2. stack' \in Seq(Seq(Nodes))
  BY <1>1, SubSeqProperties DEF MainReturn
<1>. QED
  BY <1>2 DEF MainReturn, IInv, TypeOK

(* One iteration of the accept loop. *)
LEMMA MainAcceptIInv ==
    ASSUME NEW n \in Nodes
    PROVE  IInv /\ MainAccept(n) => IInv'
<1> SUFFICES ASSUME IInv, MainAccept(n) PROVE IInv'
  OBVIOUS
<1>1. CASE UNCHANGED <<mainPc, pending, info, nextConn>>
  BY <1>1 DEF MainAccept, IInv, TypeOK
<1>2. CASE VerifyHandshake(n, FALSE)
  BY <1>2, VerifyHandshakeIInv DEF MainAccept, IInv, TypeOK
<1>. QED
  BY <1>1, <1>2 DEF MainAccept

(* add_connection and the hand-off: the peer id of the verified handshake *)
(* is not registered yet, so the panic branch is never taken, and the     *)
(* registry gains a peer that is not the server itself.                   *)
LEMMA MainRegisterIInv == IInv /\ MainRegister => IInv'
<1> SUFFICES ASSUME IInv, MainRegister PROVE IInv'
  OBVIOUS
<1> DEFINE c == pending.conn
           p == PeerIdOf[pending.node]
<1>1. /\ mainPc = "reg"
      /\ c \in ConnIds
      /\ p \in PeerIds
      /\ p \notin DOMAIN registry \cup {SelfId}
      /\ pending.peers \in Seq(Nodes)
  BY ConstAssumption DEF MainRegister, IInv, TypeOK, Verified
<1>2. pending' \in Verified /\ mainPc' # "reg"
  BY ConstAssumption DEF MainRegister, NoPending, Verified, ConnIds
<1>3. Append(stack, pending.peers) \in Seq(Seq(Nodes))
  BY <1>1 DEF IInv, TypeOK
<1>4. CASE /\ ~pending.out
           /\ mainPc' = "run"
           /\ UNCHANGED <<registry, stack, inbox, jobs>>
  BY <1>2, <1>4 DEF MainRegister, IInv, TypeOK, Panics
<1>5. CASE /\ mainPc' = "run"
           /\ stack' = Append(stack, pending.peers)
           /\ UNCHANGED <<registry, inbox, jobs>>
  BY <1>2, <1>3, <1>5 DEF MainRegister, IInv, TypeOK, Panics
<1>6. CASE /\ registry' = Put(registry, p, c)
           /\ IF p \in DOMAIN registry
              THEN /\ mainPc' = "dup_panic"
                   /\ UNCHANGED <<stack, inbox, jobs>>
              ELSE \/ /\ HandOff(p, c)
                      /\ mainPc' = "run"
                      /\ stack' = Append(stack, pending.peers)
                   \/ /\ ~MultiThreaded /\ ~started
                      /\ mainPc' = "chan_panic"
                      /\ UNCHANGED <<stack, inbox, jobs>>
  <2>1. /\ DOMAIN registry' = DOMAIN registry \cup {p}
        /\ registry' \in [DOMAIN registry' -> ConnIds]
        /\ SelfId \notin DOMAIN registry'
    BY <1>1, <1>6 DEF IInv, TypeOK, Put
  <2>2. CASE /\ HandOff(p, c)
             /\ mainPc' = "run"
             /\ stack' = Append(stack, pending.peers)
    <3>1. jobs' \in Seq(ConnIds) /\ inbox' \in Seq(InboxMsg)
      <4>1. CASE MultiThreaded /\ jobs' = Append(jobs, c) /\ UNCHANGED inbox
        BY <1>1, <4>1 DEF IInv, TypeOK
      <4>2. CASE inbox' = Append(inbox, [kind |-> "add", pid |-> p, conn |-> c])
                 /\ UNCHANGED jobs
        <5>1. [kind |-> "add", pid |-> p, conn |-> c] \in InboxMsg
          BY <1>1 DEF InboxMsg
        <5>. QED
          BY <4>2, <5>1 DEF IInv, TypeOK
      <4>. QED
        BY <2>2, <4>1, <4>2 DEF HandOff
    <3>. QED
      BY <1>1, <1>2, <1>3, <2>1, <2>2, <3>1 DEF MainRegister, IInv, TypeOK, Panics
  <2>3. CASE /\ mainPc' = "chan_panic"
             /\ UNCHANGED <<stack, inbox, jobs>>
    BY <1>1, <1>2, <2>1, <2>3 DEF MainRegister, IInv, TypeOK, Panics
  <2>. QED
    BY <1>1, <1>6, <2>2, <2>3
<1>. QED
  BY <1>4, <1>5, <1>6 DEF MainRegister

(* start()'s listening block. *)
LEMMA StartListenerIInv == IInv /\ StartListener => IInv'
BY DEF StartListener, IInv, TypeOK

-----------------------------------------------------------------------------
(* The helpers the listener and the peer jobs share. *)

(* remove_connection only removes, and queues well-formed messages. *)
LEMMA RemoveConnectionType ==
    ASSUME TypeOK, NEW p, RemoveConnection(p)
    PROVE  /\ DOMAIN registry' \subseteq DOMAIN registry
           /\ registry' \in [DOMAIN registry' -> ConnIds]
           /\ closed' \subseteq ConnIds
           /\ inbox' \in Seq(InboxMsg)
           /\ mbox' \in [ConnIds -> Seq({"send", "exit"})]
<1>1. CASE p \in DOMAIN registry
  <2>1. registry[p] \in ConnIds /\ p \in PeerIds
    BY <1>1 DEF TypeOK
  <2>2. [kind |-> "remove", pid |-> p, conn |-> 0] \in InboxMsg
    BY <2>1 DEF InboxMsg
  <2>3. /\ DOMAIN registry' \subseteq DOMAIN registry
        /\ registry' \in [DOMAIN registry' -> ConnIds]
        /\ closed' \subseteq ConnIds
    BY <1>1, <2>1 DEF RemoveConnection, TypeOK, Without
  <2>4. CASE MultiThreaded
    <3>1. Append(mbox[registry[p]], "exit") \in Seq({"send", "exit"})
      BY <2>1 DEF TypeOK
    <3>2. /\ \/ mbox' = mbox
             \/ mbox' = [mbox EXCEPT ![registry[p]] = Append(mbox[registry[p]], "exit")]
          /\ inbox' = inbox
      BY <1>1, <2>4 DEF RemoveConnection
    <3>3. mbox' \in [ConnIds -> Seq({"send", "exit"})]
      BY <2>1, <3>1, <3>2 DEF TypeOK
    <3>. QED
      BY <2>3, <3>2, <3>3 DEF TypeOK
  <2>5. CASE ~MultiThreaded
    <3>1. /\ inbox' = Append(inbox, [kind |-> "remove", pid |-> p, conn |-> 0])
          /\ mbox' = mbox
      BY <1>1, <2>5 DEF RemoveConnection
    <3>. QED
      BY <2>2, <2>3, <3>1 DEF TypeOK
  <2>. QED
    BY <2>3, <2>4, <2>5
<1>2. CASE p \notin DOMAIN registry
  BY <1>2 DEF RemoveConnection, TypeOK
<1>. QED
  BY <1>1, <1>2

(* broadcast_bytes only queues well-formed messages. *)
LEMMA BroadcastBytesType ==
    ASSUME TypeOK, BroadcastBytes
    PROVE  /\ inbox' \in Seq(InboxMsg)
           /\ mbox' \in [ConnIds -> Seq({"send", "exit"})]
<1>1. CASE MultiThreaded
  <2>1. \A x \in ConnIds : Append(mbox[x], "send") \in Seq({"send", "exit"})
    BY DEF TypeOK
  <2>2. PICK T : /\ mbox' = [x \in ConnIds |-> IF x \in T THEN Append(mbox[x], "send")
                                                         ELSE mbox[x]]
                 /\ inbox' = inbox
    BY <1>1 DEF BroadcastBytes
  <2>. QED
    BY <2>1, <2>2 DEF TypeOK
<1>2. CASE ~MultiThreaded
  <2> DEFINE msgs == {[kind |-> "send", pid |-> p, conn |-> 0] : p \in DOMAIN registry}
  <2>1. PICK order \in [1..Cardinality(msgs) -> msgs] : inbox' = inbox \o order
    BY <1>2 DEF BroadcastBytes
  <2>2. Cardinality(msgs) \in Nat /\ msgs \subseteq InboxMsg
    BY BroadcastMsgsFinite
  <2>3. order \in Seq(InboxMsg)
    <3>1. order \in [1..Cardinality(msgs) -> InboxMsg]
      BY <2>2
    <3>2. order \in UNION {[1..n -> InboxMsg] : n \in Nat}
      BY <2>2, <3>1
    <3>. QED
      BY <3>2, SeqDef
  <2>. QED
    BY <1>2, <2>1, <2>3, ConcatProperties DEF BroadcastBytes, TypeOK
<1>. QED
  BY <1>1, <1>2

(* listen_connection on one socket. *)
LEMMA ListenConnectionType ==
    ASSUME TypeOK, NEW c, ListenConnection(c)
    PROVE  /\ DOMAIN registry' \subseteq DOMAIN registry
           /\ registry' \in [DOMAIN registry' -> ConnIds]
           /\ closed' \subseteq ConnIds
           /\ inbox' \in Seq(InboxMsg)
           /\ mbox' \in [ConnIds -> Seq({"send", "exit"})]
<1>1. CASE RemoveConnection(Pid(c))
  BY <1>1, RemoveConnectionType
<1>2. CASE BroadcastBytes /\ UNCHANGED <<registry, closed>>
  BY <1>2, BroadcastBytesType DEF TypeOK
<1>3. CASE UNCHANGED <<registry, closed, inbox, mbox>>
  BY <1>3 DEF TypeOK
<1>. QED
  BY <1>1, <1>2, <1>3 DEF ListenConnection

-----------------------------------------------------------------------------
(* The single-mode listener. *)

LEMMA LsnAddIInv == IInv /\ LsnAdd => IInv'
<1> SUFFICES ASSUME IInv, LsnAdd PROVE IInv'
  OBVIOUS
<1>1. Head(inbox) \in InboxMsg /\ Tail(inbox) \in Seq(InboxMsg)
  BY HeadTailProperties DEF LsnAdd, IInv, TypeOK
<1>2. Head(inbox).pid \in PeerIds /\ Head(inbox).conn \in ConnIds
  BY <1>1 DEF LsnAdd, InboxMsg
<1>3. /\ DOMAIN local' \subseteq PeerIds
      /\ local' \in [DOMAIN local' -> ConnIds]
  BY <1>2 DEF LsnAdd, Put, IInv, TypeOK
<1>4. TypeOK'
  BY <1>1, <1>3 DEF LsnAdd, IInv, TypeOK
<1>. QED
  BY <1>4, OtherThreadIInv DEF LsnAdd

LEMMA LsnRemoveIInv == IInv /\ LsnRemove => IInv'
<1> SUFFICES ASSUME IInv, LsnRemove PROVE IInv'
  OBVIOUS
<1>1. Tail(inbox) \in Seq(InboxMsg)
  BY HeadTailProperties DEF LsnRemove, IInv, TypeOK
<1>2. TypeOK'
  BY <1>1 DEF LsnRemove, Without, IInv, TypeOK
<1>. QED
  BY <1>2, OtherThreadIInv DEF LsnRemove

LEMMA LsnSendIInv == IInv /\ LsnSend => IInv'
<1> SUFFICES ASSUME IInv, LsnSend PROVE IInv'
  OBVIOUS
<1>1. Tail(inbox) \in Seq(InboxMsg)
  BY HeadTailProperties DEF LsnSend, IInv, TypeOK
<1>2. TypeOK'
  BY <1>1 DEF LsnSend, Without, IInv, TypeOK
<1>. QED
  BY <1>2, OtherThreadIInv DEF LsnSend

LEMMA LsnRoundIInv == IInv /\ LsnRound => IInv'
<1> SUFFICES ASSUME IInv, LsnRound PROVE IInv'
  OBVIOUS
<1>1. TypeOK'
  BY DEF LsnRound, IInv, TypeOK
<1>. QED
  BY <1>1, OtherThreadIInv DEF LsnRound

LEMMA LsnRoundEndIInv == IInv /\ LsnRoundEnd => IInv'
BY DEF LsnRoundEnd, IInv, TypeOK

LEMMA LsnPollIInv ==
    ASSUME NEW c \in ConnIds
    PROVE  IInv /\ LsnPoll(c) => IInv'
<1> SUFFICES ASSUME IInv, LsnPoll(c) PROVE IInv'
  OBVIOUS
<1>1. /\ DOMAIN registry' \subseteq DOMAIN registry
      /\ registry' \in [DOMAIN registry' -> ConnIds]
      /\ closed' \subseteq ConnIds
      /\ inbox' \in Seq(InboxMsg)
      /\ mbox' \in [ConnIds -> Seq({"send", "exit"})]
  BY ListenConnectionType DEF LsnPoll, IInv
<1>2. TypeOK'
  BY <1>1 DEF LsnPoll, IInv, TypeOK
<1>. QED
  BY <1>1, <1>2, OtherThreadIInv DEF LsnPoll

-----------------------------------------------------------------------------
(* The multi-mode pool and peer jobs. *)

LEMMA StartJobIInv == IInv /\ StartJob => IInv'
<1> SUFFICES ASSUME IInv, StartJob PROVE IInv'
  OBVIOUS
<1>1. Head(jobs) \in ConnIds /\ Tail(jobs) \in Seq(ConnIds)
  BY HeadTailProperties DEF StartJob, IInv, TypeOK
<1>. QED
  BY <1>1 DEF StartJob, IInv, TypeOK

LEMMA WkClosedIInv ==
    ASSUME NEW c \in ConnIds
    PROVE  IInv /\ WkClosed(c) => IInv'
BY EmptySeq DEF WkClosed, WkReturn, IInv, TypeOK

LEMMA WkRecvIInv ==
    ASSUME NEW c \in ConnIds
    PROVE  IInv /\ WkRecv(c) => IInv'
<1> SUFFICES ASSUME IInv, WkRecv(c) PROVE IInv'
  OBVIOUS
<1>1. Tail(mbox[c]) \in Seq({"send", "exit"}) /\ <<>> \in Seq({"send", "exit"})
  BY HeadTailProperties, EmptySeq DEF WkRecv, IInv, TypeOK
<1>2. CASE Head(mbox[c]) = "exit" \/ c \in gone
  <2>1. mbox' = [mbox EXCEPT ![c] = <<>>] /\ workers' = workers \ {c}
    BY <1>2 DEF WkRecv, WkReturn
  <2>. QED
    BY <1>1, <2>1 DEF WkRecv, IInv, TypeOK
<1>3. CASE ~(Head(mbox[c]) = "exit" \/ c \in gone)
  <2>1. mbox' = [mbox EXCEPT ![c] = Tail(mbox[c])] /\ workers' = workers
    BY <1>3 DEF WkRecv
  <2>. QED
    BY <1>1, <2>1 DEF WkRecv, IInv, TypeOK
<1>. QED
  BY <1>2, <1>3

LEMMA WkPollIInv ==
    ASSUME NEW c \in ConnIds
    PROVE  IInv /\ WkPoll(c) => IInv'
<1> SUFFICES ASSUME IInv, WkPoll(c) PROVE IInv'
  OBVIOUS
<1>1. /\ DOMAIN registry' \subseteq DOMAIN registry
      /\ registry' \in [DOMAIN registry' -> ConnIds]
      /\ closed' \subseteq ConnIds
      /\ inbox' \in Seq(InboxMsg)
      /\ mbox' \in [ConnIds -> Seq({"send", "exit"})]
  BY ListenConnectionType DEF WkPoll, IInv
<1>2. TypeOK'
  BY <1>1 DEF WkPoll, IInv, TypeOK
<1>. QED
  BY <1>1, <1>2, OtherThreadIInv DEF WkPoll

(* A remote daemon closes its socket. *)
LEMMA RemoteCloseIInv ==
    ASSUME NEW c \in ConnIds
    PROVE  IInv /\ RemoteClose(c) => IInv'
BY DEF RemoteClose, IInv, TypeOK

-----------------------------------------------------------------------------
(* Every step of the server keeps the invariant. *)
LEMMA NextIInv == IInv /\ [Next]_vars => IInv'
<1> SUFFICES ASSUME IInv, [Next]_vars PROVE IInv'
  OBVIOUS
<1>1. CASE MainThread
  BY <1>1, MainDialIInv, MainReturnIInv, MainRegisterIInv, MainAcceptIInv
  DEF MainThread
<1>2. CASE StartListener
  BY <1>2, StartListenerIInv
<1>3. CASE Listener
  BY <1>3, LsnAddIInv, LsnRemoveIInv, LsnSendIInv, LsnRoundIInv,
     LsnRoundEndIInv, LsnPollIInv
  DEF Listener
<1>4. CASE StartJob
  BY <1>4, StartJobIInv
<1>5. CASE \E c \in ConnIds : Worker(c)
  BY <1>5, WkClosedIInv, WkRecvIInv, WkPollIInv DEF Worker
<1>6. CASE \E c \in ConnIds : RemoteClose(c)
  BY <1>6, RemoteCloseIInv
<1>7. CASE UNCHANGED vars
  BY <1>7 DEF vars, IInv, TypeOK
<1>. QED
  BY <1>1, <1>2, <1>3, <1>4, <1>5, <1>6, <1>7 DEF Next

(* The invariant holds in every reachable state. *)
THEOREM IInvHolds == Spec => []IInv
BY InitIInv, NextIInv, PTL DEF Spec

(* The model is well typed: every variable keeps the type TypeOK gives it, *)
(* whatever the number of peers, connections and the mode.                 *)
THEOREM TypeCorrect == Spec => []TypeOK
<1>1. IInv => TypeOK
  BY DEF IInv
<1>. QED
  BY IInvHolds, <1>1, PTL

(* add_connection's panic on an already used peer id is unreachable, for  *)
(* every max_peers, seed list and mode: the only inserting thread checked *)
(* is_connected_to, and the others can only remove meanwhile.             *)
THEOREM NoDuplicateRegistrationHolds == Spec => []NoDuplicateRegistration
<1>1. IInv => NoDuplicateRegistration
  BY DEF IInv, NoDuplicateRegistration
<1>. QED
  BY IInvHolds, <1>1, PTL

(* The server never registers its own peer id, even when its own address  *)
(* is gossiped back to it.                                                 *)
THEOREM SelfNeverRegisteredHolds == Spec => []SelfNeverRegistered
<1>1. IInv => SelfNeverRegistered
  BY DEF IInv, SelfNeverRegistered
<1>. QED
  BY IInvHolds, <1>1, PTL

=============================================================================
