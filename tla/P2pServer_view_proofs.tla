------------------------ MODULE P2pServer_view_proofs ------------------------
(***************************************************************************)
(* Proof that the single-mode listener never acts on a stale connection:  *)
(* ListenerViewConsistent holds for every value of the constants. The     *)
(* argument is the inductive invariant LInv of P2pServer: the listener's  *)
(* map, updated by the AddConnection / RemoveConnection messages still     *)
(* queued on the single channel, agrees with the registry, because        *)
(* add_connection and remove_connection queue their message in the same   *)
(* critical section in which they change the registry, and the channel   *)
(* delivers in order.                                                      *)
(***************************************************************************)
EXTENDS P2pServer_proofs

-----------------------------------------------------------------------------
(* MsgsAbout and InView, over any channel contents s. *)

About(s, p) == {i \in DOMAIN s : s[i].kind \in {"add", "remove"} /\ s[i].pid = p}
LastAdd(s, p, c) ==
    \E i \in About(s, p) : /\ \A j \in About(s, p) : j <= i
                           /\ s[i].kind = "add"
                           /\ s[i].conn = c

(* InView in terms of About and LastAdd, now and after a step. *)
LEMMA InViewAbout ==
    ASSUME NEW p, NEW c
    PROVE  /\ InView(p, c) <=>
                \/ LastAdd(inbox, p, c)
                \/ About(inbox, p) = {} /\ p \in DOMAIN local /\ local[p] = c
           /\ InView(p, c)' <=>
                \/ LastAdd(inbox', p, c)
                \/ About(inbox', p) = {} /\ p \in DOMAIN local' /\ local'[p] = c
BY DEF InView, MsgsAbout, About, LastAdd

(* Appending a message about p makes it the last word on p; appending any *)
(* other message changes nothing about p.                                  *)
LEMMA AppendAbout ==
    ASSUME NEW s \in Seq(InboxMsg), NEW m \in InboxMsg, NEW p, NEW c
    PROVE  /\ m.kind \in {"add", "remove"} /\ m.pid = p =>
                /\ About(Append(s, m), p) # {}
                /\ LastAdd(Append(s, m), p, c) <=> m.kind = "add" /\ m.conn = c
           /\ ~(m.kind \in {"add", "remove"} /\ m.pid = p) =>
                /\ About(Append(s, m), p) = About(s, p)
                /\ LastAdd(Append(s, m), p, c) <=> LastAdd(s, p, c)
<1> DEFINE t == Append(s, m)
           n == Len(s)
<1>1. /\ n \in Nat
      /\ DOMAIN s = 1..n
      /\ DOMAIN t = 1..(n + 1)
      /\ \A i \in 1..n : t[i] = s[i]
      /\ t[n + 1] = m
  BY AppendProperties, LenProperties
<1>2. ASSUME m.kind \in {"add", "remove"} /\ m.pid = p
      PROVE  /\ About(t, p) # {}
             /\ LastAdd(t, p, c) <=> m.kind = "add" /\ m.conn = c
  <2>1. n + 1 \in About(t, p)
    BY <1>1, <1>2 DEF About
  <2>2. \A j \in About(t, p) : j <= n + 1
    BY <1>1 DEF About
  <2>3. ASSUME NEW i \in About(t, p), \A j \in About(t, p) : j <= i
        PROVE  i = n + 1
    BY <1>1, <2>1, <2>2, <2>3 DEF About
  <2>. QED
    BY <1>1, <2>1, <2>2, <2>3 DEF LastAdd
<1>3. ASSUME ~(m.kind \in {"add", "remove"} /\ m.pid = p)
      PROVE  /\ About(t, p) = About(s, p)
             /\ LastAdd(t, p, c) <=> LastAdd(s, p, c)
  <2>1. About(t, p) = About(s, p)
    BY <1>1, <1>3 DEF About
  <2>2. \A i \in About(s, p) : t[i] = s[i]
    BY <1>1 DEF About
  <2>. QED
    BY <2>1, <2>2 DEF LastAdd
<1>. QED
  BY <1>2, <1>3

(* Appending SendBytes messages changes nothing about any peer. *)
LEMMA ConcatSendsAbout ==
    ASSUME NEW s \in Seq(InboxMsg), NEW o \in Seq(InboxMsg),
           \A i \in DOMAIN o : o[i].kind = "send",
           NEW p, NEW c
    PROVE  /\ About(s \o o, p) = About(s, p)
           /\ LastAdd(s \o o, p, c) <=> LastAdd(s, p, c)
<1>1. /\ Len(s) \in Nat /\ Len(o) \in Nat
      /\ DOMAIN s = 1..Len(s) /\ DOMAIN o = 1..Len(o)
      /\ DOMAIN (s \o o) = 1..(Len(s) + Len(o))
      /\ \A i \in 1..(Len(s) + Len(o)) :
            (s \o o)[i] = IF i <= Len(s) THEN s[i] ELSE o[i - Len(s)]
  BY ConcatProperties, LenProperties
<1>2. \A i \in 1..(Len(s) + Len(o)) : i > Len(s) => (s \o o)[i].kind = "send"
  BY <1>1
<1>3. About(s \o o, p) = About(s, p)
  BY <1>1, <1>2 DEF About
<1>4. \A i \in About(s, p) : (s \o o)[i] = s[i]
  BY <1>1 DEF About
<1>. QED
  BY <1>3, <1>4 DEF LastAdd

(* Receiving the head of the channel: the last word on a peer that is     *)
(* still queued was already the last word before; when nothing about p is *)
(* left, nothing but possibly the head was about p.                        *)
LEMMA TailAbout ==
    ASSUME NEW s \in Seq(InboxMsg), s # <<>>, NEW p, NEW c
    PROVE  /\ LastAdd(Tail(s), p, c) => LastAdd(s, p, c)
           /\ About(Tail(s), p) = {} => About(s, p) \subseteq {1}
<1> DEFINE t == Tail(s)
<1>1. /\ Len(s) \in Nat \ {0}
      /\ DOMAIN s = 1..Len(s)
      /\ DOMAIN t = 1..(Len(s) - 1)
      /\ \A i \in 1..(Len(s) - 1) : t[i] = s[i + 1]
  BY HeadTailProperties, LenProperties, EmptySeq
<1>2. \A j \in About(s, p) : j # 1 => j - 1 \in About(t, p)
  BY <1>1 DEF About
<1>3. ASSUME LastAdd(t, p, c) PROVE LastAdd(s, p, c)
  <2>1. PICK i \in About(t, p) : /\ \A j \in About(t, p) : j <= i
                                 /\ t[i].kind = "add"
                                 /\ t[i].conn = c
    BY <1>3 DEF LastAdd
  <2>2. i + 1 \in About(s, p) /\ s[i + 1] = t[i] /\ i \in Nat \ {0}
    BY <1>1 DEF About
  <2>3. ASSUME NEW j \in About(s, p) PROVE j <= i + 1
    <3>1. j \in 1..Len(s)
      BY <1>1 DEF About
    <3>2. CASE j = 1
      BY <2>2, <3>2
    <3>3. CASE j # 1
      <4>1. j - 1 \in About(t, p)
        BY <1>2, <3>3
      <4>2. j - 1 <= i
        BY <2>1, <4>1
      <4>. QED
        BY <3>1, <2>2, <4>2
    <3>. QED
      BY <3>2, <3>3
  <2>. QED
    BY <2>1, <2>2, <2>3 DEF LastAdd
<1>4. ASSUME About(t, p) = {} PROVE About(s, p) \subseteq {1}
  BY <1>2, <1>4
<1>. QED
  BY <1>3, <1>4

-----------------------------------------------------------------------------
(* How the view moves when the channel or the listener's map changes. *)

(* Nothing queued and nothing in the map: the view is empty. *)
LEMMA ViewEmpty ==
    ASSUME inbox = <<>>, local = <<>>, NEW q, NEW x
    PROVE  ~InView(q, x)
BY DEF InView, MsgsAbout

(* The channel and the map unchanged: so is the view. *)
LEMMA ViewSame ==
    ASSUME inbox' = inbox, local' = local, NEW q, NEW x
    PROVE  InView(q, x)' <=> InView(q, x)
BY DEF InView, MsgsAbout

(* AddConnection or RemoveConnection queued for m.pid: the view of m.pid *)
(* is what the message says, the view of every other peer is unchanged.  *)
LEMMA ViewAppend ==
    ASSUME inbox \in Seq(InboxMsg), NEW m \in InboxMsg, m.kind \in {"add", "remove"},
           inbox' = Append(inbox, m), local' = local, NEW q, NEW x
    PROVE  InView(q, x)' <=> IF q = m.pid THEN m.kind = "add" /\ m.conn = x
                                          ELSE InView(q, x)
<1>1. CASE q = m.pid
  <2>1. /\ About(inbox', q) # {}
        /\ LastAdd(inbox', q, x) <=> m.kind = "add" /\ m.conn = x
    BY <1>1, AppendAbout
  <2>. QED
    BY <1>1, <2>1, InViewAbout
<1>2. CASE q # m.pid
  <2>1. /\ About(inbox', q) = About(inbox, q)
        /\ LastAdd(inbox', q, x) <=> LastAdd(inbox, q, x)
    BY <1>2, AppendAbout
  <2>. QED
    BY <1>2, <2>1, InViewAbout
<1>. QED
  BY <1>1, <1>2

(* SendBytes messages queued: the view is unchanged. *)
LEMMA ViewSends ==
    ASSUME inbox \in Seq(InboxMsg), NEW o \in Seq(InboxMsg),
           \A i \in DOMAIN o : o[i].kind = "send",
           inbox' = inbox \o o, local' = local, NEW q, NEW x
    PROVE  InView(q, x)' <=> InView(q, x)
<1>1. /\ About(inbox', q) = About(inbox, q)
      /\ LastAdd(inbox', q, x) <=> LastAdd(inbox, q, x)
  BY ConcatSendsAbout
<1>. QED
  BY <1>1, InViewAbout

(* The head of the channel received: a peer in the new view was in the   *)
(* old one, or nothing about it was queued but possibly the head, and    *)
(* the listener's new map gives its entry.                                *)
LEMMA ViewTail ==
    ASSUME inbox \in Seq(InboxMsg), inbox # <<>>, inbox' = Tail(inbox),
           NEW q, NEW x, InView(q, x)'
    PROVE  \/ InView(q, x)
           \/ About(inbox, q) \subseteq {1} /\ q \in DOMAIN local' /\ local'[q] = x
<1>1. CASE LastAdd(inbox', q, x)
  BY <1>1, TailAbout, InViewAbout
<1>2. CASE About(inbox', q) = {} /\ q \in DOMAIN local' /\ local'[q] = x
  BY <1>2, TailAbout
<1>. QED
  BY <1>1, <1>2, InViewAbout

-----------------------------------------------------------------------------
(* What remove_connection and broadcast_bytes do to the registry and to   *)
(* the single channel.                                                     *)

LEMMA RemoveConnectionEffect ==
    ASSUME TypeOK, NEW q, RemoveConnection(q)
    PROVE  /\ DOMAIN registry' \subseteq DOMAIN registry
           /\ \A r \in DOMAIN registry' : registry'[r] = registry[r]
           /\ ~MultiThreaded /\ q \in DOMAIN registry =>
                /\ DOMAIN registry' = DOMAIN registry \ {q}
                /\ inbox' = Append(inbox, [kind |-> "remove", pid |-> q, conn |-> 0])
           /\ MultiThreaded \/ q \notin DOMAIN registry => inbox' = inbox
<1>1. CASE q \in DOMAIN registry
  BY <1>1 DEF RemoveConnection, Without
<1>2. CASE q \notin DOMAIN registry
  BY <1>2 DEF RemoveConnection
<1>. QED
  BY <1>1, <1>2

LEMMA BroadcastBytesSends ==
    ASSUME TypeOK, BroadcastBytes
    PROVE  \E o \in Seq(InboxMsg) : /\ \A i \in DOMAIN o : o[i].kind = "send"
                                    /\ inbox' = inbox \o o
<1>1. CASE MultiThreaded
  <2>1. inbox' = inbox
    BY <1>1 DEF BroadcastBytes
  <2>2. <<>> \in Seq(InboxMsg) /\ inbox \o <<>> = inbox
    BY EmptySeq, ConcatEmptySeq DEF TypeOK
  <2>3. \A i \in DOMAIN <<>> : <<>>[i].kind = "send"
    OBVIOUS
  <2>. QED
    BY <2>1, <2>2, <2>3
<1>2. CASE ~MultiThreaded
  <2> DEFINE msgs == {[kind |-> "send", pid |-> p, conn |-> 0] : p \in DOMAIN registry}
  <2>1. PICK order \in [1..Cardinality(msgs) -> msgs] : inbox' = inbox \o order
    BY <1>2 DEF BroadcastBytes
  <2>2. Cardinality(msgs) \in Nat /\ msgs \subseteq InboxMsg
    BY BroadcastMsgsFinite
  <2>3. order \in Seq(InboxMsg)
    <3>1. order \in [1..Cardinality(msgs) -> InboxMsg]
      BY <2>2
    <3>2. order \in UNION {[1..n -> InboxMsg] : n \in Nat}
      BY <2>2, <3>1
    <3>. QED
      BY <3>2, SeqDef
  <2>4. \A i \in DOMAIN order : order[i].kind = "send"
    OBVIOUS
  <2>. QED
    BY <2>1, <2>3, <2>4
<1>. QED
  BY <1>1, <1>2

-----------------------------------------------------------------------------
(* Initially the invariant holds. *)
LEMMA InitLInv == Init => LInv
<1> SUFFICES ASSUME Init PROVE LInv
  OBVIOUS
<1>1. IInv
  BY InitIInv
<1>2. \A q, x : ~InView(q, x)
  BY ViewEmpty DEF Init
<1>. QED
  BY <1>1, <1>2 DEF Init, LInv, RegistryOwned, PendingOwned, SingleOnly, MultiOnly,
                    TodoRegistered, ViewRegistered

(* A step that touches neither the registry, the connections' peers, the *)
(* handshake awaiting registration, the single channel nor the listener. *)
LEMMA FrameLInv ==
    ASSUME LInv, IInv', MultiOnly',
           UNCHANGED <<registry, info, mainPc, pending, inbox, local, lsnPc, lsnTodo>>
    PROVE  LInv'
<1>1. \A q, x : InView(q, x)' <=> InView(q, x)
  BY ViewSame
<1>. QED
  BY <1>1 DEF LInv, RegistryOwned, PendingOwned, SingleOnly, MultiOnly, TodoRegistered,
              ViewRegistered, Pid

(* verify_handshake creates a fresh connection for the peer it verified; *)
(* the connections already known keep their peers.                       *)
LEMMA VerifyHandshakeLInv ==
    ASSUME LInv, IInv', NEW n \in Nodes, NEW out \in BOOLEAN,
           VerifyHandshake(n, out),
           UNCHANGED <<registry, inbox, local, lsnPc, lsnTodo, jobs, workers>>
    PROVE  LInv'
<1>1. PICK peers \in Unknown :
         IF SlotsAvailable < 0 /\ OverflowChecks
         THEN /\ mainPc' = "slot_panic"
              /\ UNCHANGED <<pending, info, nextConn>>
         ELSE /\ mainPc' = "reg"
              /\ info' = Put(info, nextConn, [node |-> n, out |-> out])
              /\ nextConn' = nextConn + 1
              /\ pending' = [conn |-> nextConn, node |-> n, out |-> out,
                             peers |-> IF SlotsAvailable < 0 THEN peers
                                       ELSE Take(peers, SlotsAvailable)]
  BY DEF VerifyHandshake, CreateConnection
<1>2. \A q, x : InView(q, x)' <=> InView(q, x)
  BY ViewSame
<1>3. CASE SlotsAvailable < 0 /\ OverflowChecks
  <2>1. mainPc' = "slot_panic" /\ info' = info
    BY <1>1, <1>3
  <2>. QED
    BY <1>2, <2>1 DEF LInv, RegistryOwned, PendingOwned, SingleOnly, MultiOnly,
                      TodoRegistered, ViewRegistered, Pid
<1>4. CASE ~(SlotsAvailable < 0 /\ OverflowChecks)
  <2>1. /\ info' = Put(info, nextConn, [node |-> n, out |-> out])
        /\ pending'.conn = nextConn /\ pending'.node = n
    BY <1>1, <1>4
  <2>2. /\ nextConn \notin DOMAIN info
        /\ DOMAIN info' = DOMAIN info \cup {nextConn}
        /\ \A y \in DOMAIN info : info'[y] = info[y]
        /\ info'[nextConn].node = n
    BY <2>1 DEF LInv, IInv, TypeOK, Put
  <2>3. \A y \in DOMAIN info : Pid(y)' = Pid(y)
    BY <2>2 DEF Pid
  <2>4. RegistryOwned'
    BY <2>2, <2>3 DEF LInv, RegistryOwned
  <2>5. PendingOwned'
    BY <2>1, <2>2 DEF PendingOwned
  <2>6. TodoRegistered'
    BY <2>3 DEF LInv, RegistryOwned, TodoRegistered
  <2>. QED
    BY <1>2, <2>4, <2>5, <2>6 DEF LInv, SingleOnly, MultiOnly, ViewRegistered
<1>. QED
  BY <1>3, <1>4

LEMMA MainDialLInv == LInv /\ MainDial => LInv'
<1> SUFFICES ASSUME LInv, MainDial PROVE LInv'
  OBVIOUS
<1>1. IInv'
  BY MainDialIInv DEF LInv
<1>2. Head(Top) \in Nodes
  BY ElementOfSeq, LenProperties, EmptySeq, HeadTailProperties
  DEF MainDial, LInv, IInv, TypeOK, Top
<1>3. CASE UNCHANGED <<mainPc, pending, info, nextConn>>
  <2>1. MultiOnly'
    BY DEF MainDial, LInv, MultiOnly
  <2>. QED
    BY <1>1, <1>3, <2>1, FrameLInv DEF MainDial
<1>4. CASE VerifyHandshake(Head(Top), TRUE)
  BY <1>1, <1>2, <1>4, VerifyHandshakeLInv DEF MainDial
<1>. QED
  BY <1>3, <1>4 DEF MainDial

LEMMA MainReturnLInv == LInv /\ MainReturn => LInv'
<1> SUFFICES ASSUME LInv, MainReturn PROVE LInv'
  OBVIOUS
<1>1. IInv' /\ MultiOnly'
  BY MainReturnIInv DEF LInv, MainReturn, MultiOnly
<1>. QED
  BY <1>1, FrameLInv DEF MainReturn

LEMMA MainAcceptLInv ==
    ASSUME NEW n \in Nodes
    PROVE  LInv /\ MainAccept(n) => LInv'
<1> SUFFICES ASSUME LInv, MainAccept(n) PROVE LInv'
  OBVIOUS
<1>1. IInv'
  BY MainAcceptIInv DEF LInv
<1>2. CASE UNCHANGED <<mainPc, pending, info, nextConn>>
  <2>1. MultiOnly'
    BY DEF MainAccept, LInv, MultiOnly
  <2>. QED
    BY <1>1, <1>2, <2>1, FrameLInv DEF MainAccept
<1>3. CASE VerifyHandshake(n, FALSE)
  BY <1>1, <1>3, VerifyHandshakeLInv DEF MainAccept
<1>. QED
  BY <1>2, <1>3 DEF MainAccept

(* start() sets the listener going in single mode only. *)
LEMMA StartListenerLInv == LInv /\ StartListener => LInv'
<1> SUFFICES ASSUME LInv, StartListener PROVE LInv'
  OBVIOUS
<1>1. IInv'
  BY StartListenerIInv DEF LInv
<1>2. \A q, x : InView(q, x)' <=> InView(q, x)
  BY ViewSame DEF StartListener
<1>. QED
  BY <1>1, <1>2 DEF StartListener, LInv, RegistryOwned, PendingOwned, SingleOnly, MultiOnly,
                    TodoRegistered, ViewRegistered, Pid

LEMMA LsnRoundEndLInv == LInv /\ LsnRoundEnd => LInv'
<1> SUFFICES ASSUME LInv, LsnRoundEnd PROVE LInv'
  OBVIOUS
<1>1. IInv'
  BY LsnRoundEndIInv DEF LInv
<1>2. \A q, x : InView(q, x)' <=> InView(q, x)
  BY ViewSame DEF LsnRoundEnd
<1>. QED
  BY <1>1, <1>2 DEF LsnRoundEnd, LInv, RegistryOwned, PendingOwned, SingleOnly, MultiOnly,
                    TodoRegistered, ViewRegistered, Pid

(* Pool jobs exist in multi mode only. *)
LEMMA StartJobLInv == LInv /\ StartJob => LInv'
<1> SUFFICES ASSUME LInv, StartJob PROVE LInv'
  OBVIOUS
<1>1. IInv'
  BY StartJobIInv DEF LInv
<1>2. MultiThreaded
  BY DEF StartJob, LInv, MultiOnly
<1>3. MultiOnly'
  BY <1>2 DEF MultiOnly
<1>. QED
  BY <1>1, <1>3, FrameLInv DEF StartJob

LEMMA WkClosedLInv ==
    ASSUME NEW c \in ConnIds
    PROVE  LInv /\ WkClosed(c) => LInv'
<1> SUFFICES ASSUME LInv, WkClosed(c) PROVE LInv'
  OBVIOUS
<1>1. IInv'
  BY WkClosedIInv DEF LInv
<1>2. MultiThreaded
  BY DEF WkClosed, LInv, MultiOnly
<1>3. MultiOnly'
  BY <1>2 DEF MultiOnly
<1>. QED
  BY <1>1, <1>3, FrameLInv DEF WkClosed, WkReturn

LEMMA WkRecvLInv ==
    ASSUME NEW c \in ConnIds
    PROVE  LInv /\ WkRecv(c) => LInv'
<1> SUFFICES ASSUME LInv, WkRecv(c) PROVE LInv'
  OBVIOUS
<1>1. IInv'
  BY WkRecvIInv DEF LInv
<1>2. MultiThreaded
  BY DEF WkRecv, LInv, MultiOnly
<1>3. MultiOnly'
  BY <1>2 DEF MultiOnly
<1>. QED
  BY <1>1, <1>3, FrameLInv DEF WkRecv, WkReturn

LEMMA RemoteCloseLInv ==
    ASSUME NEW c \in ConnIds
    PROVE  LInv /\ RemoteClose(c) => LInv'
<1> SUFFICES ASSUME LInv, RemoteClose(c) PROVE LInv'
  OBVIOUS
<1>1. IInv' /\ MultiOnly'
  BY RemoteCloseIInv DEF LInv, RemoteClose, MultiOnly
<1>. QED
  BY <1>1, FrameLInv DEF RemoteClose

-----------------------------------------------------------------------------
(* The single-mode listener. *)

(* try_recv took the head of the channel: the invariant is kept as soon  *)
(* as every entry of the listener's new map about which nothing but the *)
(* head was queued was already in the view.                              *)
LEMMA DrainLInv ==
    ASSUME LInv, IInv', lsnPc = "drain", inbox # <<>>, inbox' = Tail(inbox),
           UNCHANGED <<registry, info, mainPc, pending, lsnPc, lsnTodo, jobs, workers>>,
           \A q \in PeerIds, x \in ConnIds :
              About(inbox, q) \subseteq {1} /\ q \in DOMAIN local' /\ local'[q] = x
                => InView(q, x)
    PROVE  LInv'
<1>1. inbox \in Seq(InboxMsg)
  BY DEF LInv, IInv, TypeOK
<1>2. ASSUME NEW q \in PeerIds, NEW x \in ConnIds, InView(q, x)'
      PROVE  q \in DOMAIN registry' /\ registry'[q] = x
  <2>1. InView(q, x)
    BY <1>1, <1>2, ViewTail
  <2>. QED
    BY <2>1 DEF LInv, ViewRegistered
<1>3. ViewRegistered'
  BY <1>2 DEF ViewRegistered
<1>4. ~MultiThreaded
  BY DEF LInv, SingleOnly
<1>. QED
  BY <1>3, <1>4 DEF LInv, RegistryOwned, PendingOwned, SingleOnly, MultiOnly, TodoRegistered, Pid

(* The head of the channel and what the provers need to know of it. *)
LEMMA HeadFacts ==
    ASSUME LInv, inbox # <<>>, NEW q
    PROVE  /\ inbox \in Seq(InboxMsg)
           /\ Head(inbox) \in InboxMsg
           /\ Head(inbox) = inbox[1]
           /\ Head(inbox).kind \in {"add", "remove"} /\ Head(inbox).pid = q
                <=> 1 \in About(inbox, q)
<1>1. inbox \in Seq(InboxMsg)
  BY DEF LInv, IInv, TypeOK
<1>2. 1 \in DOMAIN inbox /\ Head(inbox) = inbox[1] /\ Head(inbox) \in InboxMsg
  BY <1>1, HeadTailProperties, LenProperties, EmptySeq
<1>. QED
  BY <1>1, <1>2 DEF About

LEMMA LsnAddLInv == LInv /\ LsnAdd => LInv'
<1> SUFFICES ASSUME LInv, LsnAdd PROVE LInv'
  OBVIOUS
<1> DEFINE h == Head(inbox)
<1>1. IInv'
  BY LsnAddIInv DEF LInv
<1>2. ASSUME NEW q \in PeerIds, NEW x \in ConnIds,
             About(inbox, q) \subseteq {1}, q \in DOMAIN local', local'[q] = x
      PROVE  InView(q, x)
  <2>1. /\ Head(inbox) = inbox[1]
        /\ h.kind = "add"
        /\ h.pid = q <=> 1 \in About(inbox, q)
    BY HeadFacts DEF LsnAdd
  <2>2. CASE h.pid = q
    <3>1. About(inbox, q) = {1} /\ x = h.conn
      BY <1>2, <2>1, <2>2 DEF LsnAdd, Put
    <3>2. LastAdd(inbox, q, x)
      BY <2>1, <3>1 DEF LastAdd
    <3>. QED
      BY <3>2, InViewAbout
  <2>3. CASE h.pid # q
    <3>1. About(inbox, q) = {} /\ q \in DOMAIN local /\ local[q] = x
      BY <1>2, <2>1, <2>3 DEF LsnAdd, Put
    <3>. QED
      BY <3>1, InViewAbout
  <2>. QED
    BY <2>2, <2>3
<1>. QED
  BY <1>1, <1>2, DrainLInv DEF LsnAdd

LEMMA LsnRemoveLInv == LInv /\ LsnRemove => LInv'
<1> SUFFICES ASSUME LInv, LsnRemove PROVE LInv'
  OBVIOUS
<1> DEFINE h == Head(inbox)
<1>1. IInv'
  BY LsnRemoveIInv DEF LInv
<1>2. ASSUME NEW q \in PeerIds, NEW x \in ConnIds,
             About(inbox, q) \subseteq {1}, q \in DOMAIN local', local'[q] = x
      PROVE  InView(q, x)
  <2>1. /\ h.kind = "remove"
        /\ h.pid = q <=> 1 \in About(inbox, q)
    BY HeadFacts DEF LsnRemove
  <2>2. h.pid # q
    BY <1>2 DEF LsnRemove, Without
  <2>3. About(inbox, q) = {} /\ q \in DOMAIN local /\ local[q] = x
    BY <1>2, <2>1, <2>2 DEF LsnRemove, Without
  <2>. QED
    BY <2>3, InViewAbout
<1>. QED
  BY <1>1, <1>2, DrainLInv DEF LsnRemove

LEMMA LsnSendLInv == LInv /\ LsnSend => LInv'
<1> SUFFICES ASSUME LInv, LsnSend PROVE LInv'
  OBVIOUS
<1>1. IInv'
  BY LsnSendIInv DEF LInv
<1>2. ASSUME NEW q \in PeerIds, NEW x \in ConnIds,
             About(inbox, q) \subseteq {1}, q \in DOMAIN local', local'[q] = x
      PROVE  InView(q, x)
  <2>1. 1 \notin About(inbox, q)
    BY HeadFacts DEF LsnSend
  <2>2. q \in DOMAIN local /\ local[q] = x
    BY <1>2 DEF LsnSend, Without
  <2>. QED
    BY <1>2, <2>1, <2>2, InViewAbout
<1>. QED
  BY <1>1, <1>2, DrainLInv DEF LsnSend

(* The channel is empty, so the view is the listener's map: every        *)
(* connection it will poll is its peer's registered one.                 *)
LEMMA LsnRoundLInv == LInv /\ LsnRound => LInv'
<1> SUFFICES ASSUME LInv, LsnRound PROVE LInv'
  OBVIOUS
<1>1. IInv'
  BY LsnRoundIInv DEF LInv
<1>2. ASSUME NEW y \in lsnTodo' PROVE Pid(y) \in DOMAIN registry /\ registry[Pid(y)] = y
  <2>1. PICK q \in DOMAIN local : y = local[q]
    BY <1>2 DEF LsnRound
  <2>2. q \in PeerIds /\ y \in ConnIds
    BY <2>1 DEF LInv, IInv, TypeOK
  <2>3. About(inbox, q) = {}
    BY DEF LsnRound, About
  <2>4. InView(q, y)
    BY <2>1, <2>3, InViewAbout
  <2>5. q \in DOMAIN registry /\ registry[q] = y
    BY <2>2, <2>4 DEF LInv, ViewRegistered
  <2>. QED
    BY <2>5 DEF LInv, RegistryOwned
<1>3. \A q, x : InView(q, x)' <=> InView(q, x)
  BY ViewSame DEF LsnRound
<1>4. ~MultiThreaded
  BY DEF LsnRound, LInv, SingleOnly
<1>. QED
  BY <1>1, <1>2, <1>3, <1>4 DEF LsnRound, LInv, RegistryOwned, PendingOwned, SingleOnly, MultiOnly,
                              TodoRegistered, ViewRegistered, Pid

-----------------------------------------------------------------------------
(* add_connection: the registry gains the verified peer with its fresh   *)
(* connection, and in single mode the same critical section queues its   *)
(* AddConnection, which becomes the last word on that peer.               *)
LEMMA MainRegisterLInv == LInv /\ MainRegister => LInv'
<1> SUFFICES ASSUME LInv, MainRegister PROVE LInv'
  OBVIOUS
<1> DEFINE c == pending.conn
           p == PeerIdOf[pending.node]
<1>1. /\ mainPc = "reg"
      /\ c \in ConnIds /\ c \in DOMAIN info /\ Pid(c) = p
      /\ p \in PeerIds /\ p \notin DOMAIN registry
  BY ConstAssumption DEF MainRegister, LInv, IInv, TypeOK, PendingOwned, Pid, Verified
<1>2. IInv' /\ mainPc' # "reg"
  BY MainRegisterIInv, ConstAssumption
  DEF MainRegister, LInv, NoPending, Verified, ConnIds
<1>3. PendingOwned'
  BY <1>2 DEF PendingOwned
<1>4. UNCHANGED <<info, local, lsnPc, lsnTodo>>
  BY DEF MainRegister
<1>5. MultiOnly'
  <2>1. ~MultiThreaded => UNCHANGED <<jobs, workers>>
    BY DEF MainRegister, HandOff
  <2>. QED
    BY <2>1 DEF LInv, MultiOnly
<1>6. CASE UNCHANGED <<registry, inbox>>
  <2>1. \A q, x : InView(q, x)' <=> InView(q, x)
    BY <1>4, <1>6, ViewSame
  <2>. QED
    BY <1>2, <1>3, <1>4, <1>5, <1>6, <2>1 DEF LInv, RegistryOwned, SingleOnly, MultiOnly, TodoRegistered,
                                  ViewRegistered, Pid
<1>7. CASE /\ registry' = Put(registry, p, c)
           /\ \/ HandOff(p, c)
              \/ UNCHANGED inbox
  <2>1. /\ DOMAIN registry' = DOMAIN registry \cup {p}
        /\ registry'[p] = c
        /\ \A q \in DOMAIN registry : registry'[q] = registry[q]
    BY <1>1, <1>7 DEF Put
  <2>2. RegistryOwned'
    BY <1>1, <1>4, <2>1 DEF LInv, RegistryOwned, Pid
  <2>3. TodoRegistered'
    <3>1. \A y \in lsnTodo : Pid(y) # p
      BY <1>1 DEF LInv, TodoRegistered
    <3>. QED
      BY <1>4, <2>1, <3>1 DEF LInv, TodoRegistered, Pid
  <2>4. MultiThreaded => inbox' = inbox
    BY <1>7 DEF HandOff
  <2>5. SingleOnly'
    BY <1>4, <2>4 DEF LInv, SingleOnly
  <2>6. ASSUME NEW q \in PeerIds, NEW x \in ConnIds, InView(q, x)'
        PROVE  q \in DOMAIN registry' /\ registry'[q] = x
    <3>1. CASE inbox' = inbox
      <4>1. InView(q, x)
        BY <1>4, <2>6, <3>1, ViewSame
      <4>2. q \in DOMAIN registry /\ registry[q] = x
        BY <4>1 DEF LInv, ViewRegistered
      <4>. QED
        BY <2>1, <4>2
    <3>2. CASE inbox' = Append(inbox, [kind |-> "add", pid |-> p, conn |-> c])
      <4> DEFINE m == [kind |-> "add", pid |-> p, conn |-> c]
      <4>1. inbox \in Seq(InboxMsg) /\ m \in InboxMsg
        BY <1>1 DEF LInv, IInv, TypeOK, InboxMsg
      <4>2. InView(q, x)' <=> IF q = p THEN x = c ELSE InView(q, x)
        BY <1>4, <3>2, <4>1, ViewAppend
      <4>3. CASE q = p
        BY <2>1, <2>6, <4>2, <4>3
      <4>4. CASE q # p
        BY <2>1, <2>6, <4>2, <4>4 DEF LInv, ViewRegistered
      <4>. QED
        BY <4>3, <4>4
    <3>. QED
      BY <1>7, <3>1, <3>2 DEF HandOff
  <2>. QED
    BY <1>2, <1>3, <1>5, <2>2, <2>3, <2>5, <2>6 DEF LInv, ViewRegistered
<1>8. CASE registry' = Put(registry, p, c) /\ mainPc' = "dup_panic"
  BY <1>2, <1>8 DEF LInv, IInv
<1>. QED
  BY <1>1, <1>6, <1>7, <1>8 DEF MainRegister

-----------------------------------------------------------------------------
(* listen_connection on a connection the listener was asked to poll (it  *)
(* is its peer's registered one) or on a pool job's connection (multi    *)
(* mode, where the single channel and the listener are unused).           *)
LEMMA ListenConnectionLInv ==
    ASSUME LInv, IInv', NEW c \in ConnIds, ListenConnection(c),
           c \in lsnTodo \/ MultiThreaded,
           lsnTodo' = lsnTodo \ {c},
           UNCHANGED <<info, local, lsnPc, mainPc, pending, jobs, workers>>
    PROVE  LInv'
<1>1. TypeOK /\ PendingOwned'
  BY DEF LInv, IInv, PendingOwned
<1>2. CASE MultiThreaded
  <2>1. inbox = <<>> /\ local = <<>> /\ lsnTodo = {}
    BY <1>2 DEF LInv, SingleOnly
  <2>2. /\ DOMAIN registry' \subseteq DOMAIN registry
        /\ \A r \in DOMAIN registry' : registry'[r] = registry[r]
        /\ inbox' = inbox
    <3>1. CASE RemoveConnection(Pid(c))
      BY <1>1, <1>2, <3>1, RemoveConnectionEffect
    <3>2. CASE BroadcastBytes /\ UNCHANGED <<registry, closed>>
      BY <1>2, <3>2 DEF BroadcastBytes
    <3>3. CASE UNCHANGED <<registry, closed, inbox, mbox>>
      BY <3>3
    <3>. QED
      BY <3>1, <3>2, <3>3 DEF ListenConnection
  <2>3. \A q, x : ~InView(q, x)'
    BY <2>1, <2>2, ViewSame, ViewEmpty
  <2>. QED
    BY <1>1, <2>1, <2>2, <2>3
    DEF LInv, RegistryOwned, SingleOnly, MultiOnly, TodoRegistered, ViewRegistered, Pid
<1>3. CASE ~MultiThreaded
  <2> DEFINE q0 == Pid(c)
  <2>1. c \in lsnTodo /\ q0 \in DOMAIN registry /\ registry[q0] = c
    BY <1>3 DEF LInv, TodoRegistered
  <2>2. \A y \in lsnTodo' : Pid(y) # q0 /\ Pid(y) \in DOMAIN registry
                              /\ registry[Pid(y)] = y
    BY <2>1 DEF LInv, TodoRegistered
  <2>3. inbox \in Seq(InboxMsg) /\ q0 \in PeerIds
    BY <1>1, <2>1 DEF TypeOK
  <2>4. CASE RemoveConnection(q0)
    <3> DEFINE m == [kind |-> "remove", pid |-> q0, conn |-> 0]
    <3>1. /\ DOMAIN registry' = DOMAIN registry \ {q0}
          /\ \A r \in DOMAIN registry' : registry'[r] = registry[r]
          /\ inbox' = Append(inbox, m)
      BY <1>1, <1>3, <2>1, <2>4, RemoveConnectionEffect
    <3>2. m \in InboxMsg
      BY <2>3 DEF InboxMsg
    <3>3. ASSUME NEW q \in PeerIds, NEW x \in ConnIds, InView(q, x)'
          PROVE  q \in DOMAIN registry' /\ registry'[q] = x
      <4>1. InView(q, x)' <=> IF q = q0 THEN FALSE ELSE InView(q, x)
        BY <2>3, <3>1, <3>2, ViewAppend
      <4>2. q # q0 /\ InView(q, x)
        BY <3>3, <4>1
      <4>. QED
        BY <3>1, <4>2 DEF LInv, ViewRegistered
    <3>. QED
      BY <1>1, <1>3, <2>2, <3>1, <3>3
      DEF LInv, RegistryOwned, SingleOnly, MultiOnly, TodoRegistered, ViewRegistered, Pid
  <2>5. CASE BroadcastBytes /\ UNCHANGED <<registry, closed>>
    <3>1. PICK o \in Seq(InboxMsg) : /\ \A i \in DOMAIN o : o[i].kind = "send"
                                     /\ inbox' = inbox \o o
      BY <1>1, <2>5, BroadcastBytesSends
    <3>2. \A q, x : InView(q, x)' <=> InView(q, x)
      BY <2>3, <3>1, ViewSends
    <3>. QED
      BY <1>1, <1>3, <2>2, <2>5, <3>2
      DEF LInv, RegistryOwned, SingleOnly, MultiOnly, TodoRegistered, ViewRegistered, Pid
  <2>6. CASE UNCHANGED <<registry, closed, inbox, mbox>>
    <3>1. \A q, x : InView(q, x)' <=> InView(q, x)
      BY <2>6, ViewSame
    <3>. QED
      BY <1>1, <1>3, <2>2, <2>6, <3>1
      DEF LInv, RegistryOwned, SingleOnly, MultiOnly, TodoRegistered, ViewRegistered, Pid
  <2>. QED
    BY <2>4, <2>5, <2>6 DEF ListenConnection
<1>. QED
  BY <1>2, <1>3

LEMMA LsnPollLInv ==
    ASSUME NEW c \in ConnIds
    PROVE  LInv /\ LsnPoll(c) => LInv'
<1> SUFFICES ASSUME LInv, LsnPoll(c) PROVE LInv'
  OBVIOUS
<1>1. IInv'
  BY LsnPollIInv DEF LInv
<1>. QED
  BY <1>1, ListenConnectionLInv DEF LsnPoll

LEMMA WkPollLInv ==
    ASSUME NEW c \in ConnIds
    PROVE  LInv /\ WkPoll(c) => LInv'
<1> SUFFICES ASSUME LInv, WkPoll(c) PROVE LInv'
  OBVIOUS
<1>1. IInv'
  BY WkPollIInv DEF LInv
<1>2. MultiThreaded
  BY DEF WkPoll, LInv, MultiOnly
<1>3. lsnTodo = {}
  BY <1>2 DEF LInv, SingleOnly
<1>. QED
  BY <1>1, <1>2, <1>3, ListenConnectionLInv DEF WkPoll

-----------------------------------------------------------------------------
(* Every step of the server keeps the invariant. *)
LEMMA NextLInv == LInv /\ [Next]_vars => LInv'
<1> SUFFICES ASSUME LInv, [Next]_vars PROVE LInv'
  OBVIOUS
<1>1. CASE MainThread
  BY <1>1, MainDialLInv, MainReturnLInv, MainRegisterLInv, MainAcceptLInv
  DEF MainThread
<1>2. CASE StartListener
  BY <1>2, StartListenerLInv
<1>3. CASE Listener
  BY <1>3, LsnAddLInv, LsnRemoveLInv, LsnSendLInv, LsnRoundLInv,
     LsnRoundEndLInv, LsnPollLInv
  DEF Listener
<1>4. CASE StartJob
  BY <1>4, StartJobLInv
<1>5. CASE \E c \in ConnIds : Worker(c)
  BY <1>5, WkClosedLInv, WkRecvLInv, WkPollLInv DEF Worker
<1>6. CASE \E c \in ConnIds : RemoteClose(c)
  BY <1>6, RemoteCloseLInv
<1>7. CASE UNCHANGED vars
  <2>1. IInv' /\ MultiOnly'
    BY <1>7, NextIInv DEF LInv, vars, MultiOnly
  <2>. QED
    BY <1>7, <2>1, FrameLInv DEF vars
<1>. QED
  BY <1>1, <1>2, <1>3, <1>4, <1>5, <1>6, <1>7 DEF Next

(* The listener's invariant holds in every reachable state. *)
THEOREM LInvHolds == Spec => []LInv
BY InitLInv, NextLInv, PTL DEF Spec

(* Single mode: the listener's map, once the queued AddConnection and     *)
(* RemoveConnection messages are applied, agrees with the registry, and  *)
(* every connection the listener is about to poll is still its peer's     *)
(* registered one, so the remove_connection(peer_id) of a failed read     *)
(* never removes a newer connection of the same peer; for every number of *)
(* peers, connections and queued messages.                                *)
THEOREM ListenerViewConsistentHolds == Spec => []ListenerViewConsistent
<1>1. LInv => ListenerViewConsistent
  <2> SUFFICES ASSUME LInv PROVE ListenerViewConsistent
    OBVIOUS
  <2>1. ASSUME NEW p \in DOMAIN ListenerView
        PROVE  p \in DOMAIN registry /\ registry[p] = ListenerView[p]
    <3>1. p \in PeerIds /\ \E c \in ConnIds : InView(p, c)
      BY <2>1 DEF ListenerView
    <3>2. ListenerView[p] \in ConnIds /\ InView(p, ListenerView[p])
      BY <3>1 DEF ListenerView
    <3>. QED
      BY <3>1, <3>2 DEF LInv, ViewRegistered
  <2>2. \A c \in lsnTodo : Pid(c) \in DOMAIN registry => registry[Pid(c)] = c
    BY DEF LInv, TodoRegistered
  <2>. QED
    BY <2>1, <2>2 DEF ListenerViewConsistent
<1>. QED
  BY <1>1, LInvHolds, PTL

=============================================================================
