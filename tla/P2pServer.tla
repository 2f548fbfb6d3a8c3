----------------------------- MODULE P2pServer -----------------------------
(***************************************************************************)
(* The peer registry and dispatch of the P2P server (src/p2p/server.rs).   *)
(*                                                                         *)
(* Threads of one P2pServer:                                               *)
(*   - the main thread: dials the seed nodes, then runs the accept loop;   *)
(*     handle_new_connection reads and verifies a Handshake, registers the *)
(*     peer and dials, depth first, the peers its handshake gossiped;      *)
(*   - the thread running start()'s 'listening connections' block;         *)
(*   - single-thread mode: one listener thread owning its own map of the   *)
(*     connections, fed by the single channel (AddConnection,              *)
(*     RemoveConnection, SendBytes);                                       *)
(*   - multi-thread mode: one pool job per peer draining that peer's       *)
(*     channel (SendBytes, Exit) and polling its socket.                   *)
(* The registry 'connections' is guarded by the RwLock around the server;  *)
(* every step below that touches it is one critical section of the code.  *)
(* Remote daemons are the environment: an endpoint of Nodes answers or     *)
(* not, announces PeerIdOf[n], gossips a short list of endpoints, sends    *)
(* data and closes its socket whenever it likes.                           *)
(***************************************************************************)
EXTENDS Integers, Sequences, FiniteSets

CONSTANTS
    Nodes,          \* listen addresses of remote daemons (and our own, when gossiped back)
    PeerIdOf,       \* the peer_id the daemon at each address announces in its Handshake
    SelfId,         \* P2pServer.peer_id
    Seeds,          \* config::SEED_NODES, in order
    MaxPeers,       \* P2pServer.max_peers
    MultiThreaded,  \* P2pServer.multi_threaded
    OverflowChecks, \* TRUE: usize underflow panics (debug build); FALSE: it wraps (release)
    MaxConns,       \* bound: connections registered in one behaviour
    MaxQueue,       \* bound: messages waiting in one channel
    MaxGossip       \* bound: length of a gossiped peer list (Handshake::MAX_LEN is 16)

PeerIds == {PeerIdOf[n] : n \in Nodes} \cup {SelfId}
ConnIds == 1..MaxConns

ASSUME ConstAssumption ==
    /\ IsFiniteSet(Nodes) /\ Nodes # {}
    /\ PeerIdOf \in [Nodes -> PeerIds]
    /\ Seeds \in Seq(Nodes)
    /\ MaxPeers \in Nat
    /\ MultiThreaded \in BOOLEAN
    /\ OverflowChecks \in BOOLEAN
    /\ MaxConns \in Nat
    /\ MaxQueue \in Nat \ {0}
    /\ MaxGossip \in 0..16

VARIABLES
    registry,  \* P2pServer.connections: peer_id -> connection
    info,      \* connection -> its peer address and whether we dialed it (out)
    nextConn,  \* the next fresh connection
    gone,      \* connections whose remote end has closed the socket
    closed,    \* connections on which Connection::close() was called
    mainPc,    \* main thread: "run", "reg" (handshake verified) or the panic it died of
    stack,     \* peer lists the main thread is still iterating (seed loop, gossip loops)
    pending,   \* the verified handshake awaiting registration
    started,   \* start() has run its 'listening connections thread' block
    inbox,     \* single mode: the single channel
    local,     \* single mode: the listener thread's own connections map
    lsnPc,     \* single mode: listener "off", "drain" (try_recv loop) or "poll"
    lsnTodo,   \* single mode: connections left to poll in this round
    mbox,      \* multi mode: each connection's channel
    jobs,      \* multi mode: peer jobs waiting for a pool thread
    workers    \* multi mode: connections whose job runs on a pool thread

vars == <<registry, info, nextConn, gone, closed, mainPc, stack, pending, started,
          inbox, local, lsnPc, lsnTodo, mbox, jobs, workers>>

-----------------------------------------------------------------------------
(* Values *)

GossipLists == UNION {[1..k -> Nodes] : k \in 0..MaxGossip}
Verified == [conn : ConnIds \cup {0}, node : Nodes, out : BOOLEAN, peers : Seq(Nodes)]
NoPending == [conn |-> 0, node |-> CHOOSE n \in Nodes : TRUE, out |-> FALSE, peers |-> <<>>]
InboxMsg == [kind : {"add"}, pid : PeerIds, conn : ConnIds]
            \cup [kind : {"remove", "send"}, pid : PeerIds, conn : {0}]
Panics == {"dup_panic", "slot_panic", "chan_panic"}

Pid(c) == PeerIdOf[info[c].node]
Registered == {registry[p] : p \in DOMAIN registry}
PeerCount == Cardinality(DOMAIN registry)
Top == stack[Len(stack)]
MinOf(a, b) == IF a < b THEN a ELSE b
Without(f, k) == [x \in DOMAIN f \ {k} |-> f[x]]
Put(f, k, v) == [x \in DOMAIN f \cup {k} |-> IF x = k THEN v ELSE f[x]]
\* a panic while the RwLock is write-locked poisons it: every thread then
\* panics at its next lock().unwrap()
Poisoned == mainPc \in {"dup_panic", "chan_panic"}

(* accept_new_connections *)
AcceptNewConnections == PeerCount < MaxPeers

(* get_slots_available: usize subtraction, negative here when it underflows *)
SlotsAvailable == MaxPeers - PeerCount

(* mutant: is_connected_to forgets the server's own peer id *)
IsConnectedToNoSelf(p) == p \in DOMAIN registry

(* is_connected_to *)
IsConnectedTo(p) == p = SelfId \/ p \in DOMAIN registry

(* is_connected_to_addr: the address of an inbound connection is its       *)
(* ephemeral source address, so only a connection we dialed can equal a   *)
(* gossiped listen address.                                                *)
IsConnectedToAddr(n) == \E c \in Registered : info[c].node = n /\ info[c].out

(* The gossiped addresses left after the is_connected_to_addr filter. The *)
(* remote side chooses the list freely, so the filtered lists are exactly *)
(* the gossip lists none of whose addresses is already dialed.            *)
Unknown == {g \in GossipLists : \A i \in DOMAIN g : ~IsConnectedToAddr(g[i])}

(* Iterator::take *)
Take(s, k) == SubSeq(s, 1, MinOf(k, Len(s)))

-----------------------------------------------------------------------------
Init ==
    /\ registry = <<>>
    /\ info = <<>>
    /\ nextConn = 1
    /\ gone = {}
    /\ closed = {}
    /\ mainPc = "run"
    /\ stack = <<Seeds>>
    /\ pending = NoPending
    /\ started = FALSE
    /\ inbox = <<>>
    /\ local = <<>>
    /\ lsnPc = "off"
    /\ lsnTodo = {}
    /\ mbox = [c \in ConnIds |-> <<>>]
    /\ jobs = <<>>
    /\ workers = {}

(* verify_handshake past its id checks: create the Connection, keep the   *)
(* gossiped addresses we have not dialed, limit them to the free slots.    *)
(* An underflow of the slot count panics (debug) or wraps and takes all.   *)
CreateConnection(n, out) ==
    /\ nextConn <= MaxConns
    /\ \E peers \in Unknown :
         IF SlotsAvailable < 0 /\ OverflowChecks
         THEN /\ mainPc' = "slot_panic"
              /\ UNCHANGED <<pending, info, nextConn>>
         ELSE /\ mainPc' = "reg"
              /\ info' = Put(info, nextConn, [node |-> n, out |-> out])
              /\ nextConn' = nextConn + 1
              /\ pending' = [conn |-> nextConn, node |-> n, out |-> out,
                             peers |-> IF SlotsAvailable < 0 THEN peers
                                       ELSE Take(peers, SlotsAvailable)]

(* mutant: verify_handshake without the is_connected_to check *)
VerifyHandshakeNoIdCheck(n, out) == CreateConnection(n, out)

(* verify_handshake, past the network id check: reject a known peer id,   *)
(* then create the connection.                                             *)
VerifyHandshake(n, out) ==
    /\ ~IsConnectedTo(PeerIdOf[n])
    /\ CreateConnection(n, out)

(* connect_to_peer for the next address of the innermost loop (seed list  *)
(* or gossiped list). Refused connect, failed write or read, undecodable  *)
(* handshake, wrong network id, known peer id, unparsable gossip: logged, *)
(* the loop goes on.                                                       *)
MainDial ==
    /\ mainPc = "run"
    /\ stack # <<>> /\ Top # <<>>
    /\ stack' = [stack EXCEPT ![Len(stack)] = Tail(Top)]
    /\ \/ UNCHANGED <<mainPc, pending, info, nextConn>>
       \/ VerifyHandshake(Head(Top), TRUE)
    /\ UNCHANGED <<registry, gone, closed, started, inbox, local,
                   lsnPc, lsnTodo, mbox, jobs, workers>>

(* the innermost loop is exhausted: return from handle_new_connection, or  *)
(* leave the seed loop for the accept loop                                *)
MainReturn ==
    /\ mainPc = "run"
    /\ stack # <<>> /\ Top = <<>>
    /\ stack' = SubSeq(stack, 1, Len(stack) - 1)
    /\ UNCHANGED <<registry, info, nextConn, gone, closed, mainPc, pending, started,
                   inbox, local, lsnPc, lsnTodo, mbox, jobs, workers>>

(* one iteration of the accept loop: over the limit the stream is shut     *)
(* down, otherwise handle_new_connection(out = false)                      *)
MainAccept(n) ==
    /\ mainPc = "run"
    /\ stack = <<>>
    /\ \/ UNCHANGED <<mainPc, pending, info, nextConn>>
       \/ AcceptNewConnections /\ VerifyHandshake(n, FALSE)
    /\ UNCHANGED <<registry, gone, closed, stack, started, inbox,
                   local, lsnPc, lsnTodo, mbox, jobs, workers>>

(* mutant: the peer id is handed over where the connection is expected *)
HandOffWrongId(p, c) ==
    \/ /\ MultiThreaded
       /\ jobs' = Append(jobs, p)
       /\ UNCHANGED inbox
    \/ /\ ~MultiThreaded /\ started
       /\ inbox' = Append(inbox, [kind |-> "add", pid |-> p, conn |-> p])
       /\ UNCHANGED jobs

(* hand a registered connection to the thread that will serve it: a new  *)
(* pool job with its own channel (multi mode, add_connection), or         *)
(* AddConnection on the single channel (single mode, once start() has     *)
(* inserted it)                                                            *)
HandOff(p, c) ==
    \/ /\ MultiThreaded
       /\ jobs' = Append(jobs, c)
       /\ UNCHANGED inbox
    \/ /\ ~MultiThreaded /\ started
       /\ inbox' = Append(inbox, [kind |-> "add", pid |-> p, conn |-> c])
       /\ UNCHANGED jobs

(* the rest of handle_new_connection: reply with our handshake (inbound),  *)
(* set_blocking(false), then under the write lock add_connection and hand  *)
(* the connection to its thread; then dial the gossiped peers.             *)
MainRegister ==
    LET c == pending.conn
        p == PeerIdOf[pending.node]
    IN
    /\ mainPc = "reg"
    /\ pending' = NoPending
    /\ \/ \* send_bytes of the reply failed: return Err before the gossip loop
          /\ ~pending.out
          /\ mainPc' = "run"
          /\ UNCHANGED <<registry, stack, inbox, jobs>>
       \/ \* set_blocking failed: not registered, gossip still dialed
          /\ mainPc' = "run"
          /\ stack' = Append(stack, pending.peers)
          /\ UNCHANGED <<registry, inbox, jobs>>
       \/ \* add_connection: HashMap::insert, then panic! if the id was taken
          /\ registry' = Put(registry, p, c)
          /\ IF p \in DOMAIN registry
             THEN /\ mainPc' = "dup_panic"
                  /\ UNCHANGED <<stack, inbox, jobs>>
             ELSE \/ /\ HandOff(p, c)
                     /\ mainPc' = "run"
                     /\ stack' = Append(stack, pending.peers)
                  \/ \* no channel for single thread yet: panic!
                     /\ ~MultiThreaded /\ ~started
                     /\ mainPc' = "chan_panic"
                     /\ UNCHANGED <<stack, inbox, jobs>>
    /\ UNCHANGED <<info, nextConn, gone, closed, started, local, lsnPc, lsnTodo, mbox, workers>>

(* start(): the 'listening connections thread' block, run after the main   *)
(* job was submitted; in single mode it inserts the single channel and     *)
(* submits the listener job                                               *)
StartListener ==
    /\ ~started /\ ~Poisoned
    /\ started' = TRUE
    /\ lsnPc' = IF MultiThreaded THEN "off" ELSE "drain"
    /\ UNCHANGED <<registry, info, nextConn, gone, closed, mainPc, stack, pending,
                   inbox, local, lsnTodo, mbox, jobs, workers>>

-----------------------------------------------------------------------------
(* mutant: remove_connection does not tell the single-mode listener *)
RemoveConnectionSilent(p) ==
    IF p \in DOMAIN registry
    THEN LET c == registry[p] IN
         /\ registry' = Without(registry, p)
         /\ closed' = closed \cup {c}
         /\ IF MultiThreaded
            THEN /\ mbox' = IF c \in workers \cup {jobs[i] : i \in DOMAIN jobs}
                            THEN [mbox EXCEPT ![c] = Append(@, "exit")]
                            ELSE mbox
                 /\ UNCHANGED inbox
            ELSE UNCHANGED <<inbox, mbox>>
    ELSE UNCHANGED <<registry, closed, inbox, mbox>>

(* remove_connection(peer_id): under the write lock, drop the entry, close *)
(* the connection, and stop its thread (Exit on its own channel) or tell   *)
(* the listener (RemoveConnection on the single channel). Returns false   *)
(* and does nothing when the peer id is not registered.                    *)
RemoveConnection(p) ==
    IF p \in DOMAIN registry
    THEN LET c == registry[p] IN
         /\ registry' = Without(registry, p)
         /\ closed' = closed \cup {c}
         /\ IF MultiThreaded
            THEN /\ mbox' = IF c \in workers \cup {jobs[i] : i \in DOMAIN jobs}
                            THEN [mbox EXCEPT ![c] = Append(@, "exit")]
                            ELSE mbox
                 /\ UNCHANGED inbox
            ELSE /\ inbox' = Append(inbox, [kind |-> "remove", pid |-> p, conn |-> 0])
                 /\ UNCHANGED mbox
    ELSE UNCHANGED <<registry, closed, inbox, mbox>>

(* broadcast_bytes: under the read lock, send_to_peer for every registered *)
(* peer. Multi mode: onto the peer's own channel (the send fails, logged,  *)
(* when its job has returned). Single mode: onto the single channel, in    *)
(* the unspecified iteration order of the HashMap.                         *)
BroadcastBytes ==
    IF MultiThreaded
    THEN LET targets == Registered \cap (workers \cup {jobs[i] : i \in DOMAIN jobs}) IN
         /\ \A c \in targets : Len(mbox[c]) < MaxQueue
         /\ mbox' = [c \in ConnIds |-> IF c \in targets THEN Append(mbox[c], "send")
                                                       ELSE mbox[c]]
         /\ UNCHANGED inbox
    ELSE LET msgs == {[kind |-> "send", pid |-> p, conn |-> 0] : p \in DOMAIN registry} IN
         /\ Len(inbox) < MaxQueue
         /\ \E order \in [1..Cardinality(msgs) -> msgs] :
              /\ {order[i] : i \in DOMAIN order} = msgs
              /\ inbox' = inbox \o order
         /\ UNCHANGED mbox

(* listen_connection: read from the non-blocking socket. Ok(0) or an error *)
(* removes the peer; Ok(n) broadcasts the bytes; WouldBlock does nothing.  *)
ListenConnection(c) ==
    \/ /\ c \in gone \cup closed
       /\ ~Poisoned
       /\ RemoveConnection(Pid(c))
    \/ /\ c \notin gone \cup closed
       /\ ~Poisoned
       /\ BroadcastBytes
       /\ UNCHANGED <<registry, closed>>
    \/ /\ c \notin gone \cup closed
       /\ UNCHANGED <<registry, closed, inbox, mbox>>

-----------------------------------------------------------------------------
(* Single-thread mode: the listener job of start(). *)

(* try_recv gave AddConnection: insert into the listener's own map *)
LsnAdd ==
    /\ lsnPc = "drain" /\ inbox # <<>> /\ Head(inbox).kind = "add"
    /\ inbox' = Tail(inbox)
    /\ local' = Put(local, Head(inbox).pid, Head(inbox).conn)
    /\ UNCHANGED <<registry, info, nextConn, gone, closed, mainPc, stack, pending,
                   started, lsnPc, lsnTodo, mbox, jobs, workers>>

(* try_recv gave RemoveConnection: remove from the listener's own map *)
LsnRemove ==
    /\ lsnPc = "drain" /\ inbox # <<>> /\ Head(inbox).kind = "remove"
    /\ inbox' = Tail(inbox)
    /\ local' = Without(local, Head(inbox).pid)
    /\ UNCHANGED <<registry, info, nextConn, gone, closed, mainPc, stack, pending,
                   started, lsnPc, lsnTodo, mbox, jobs, workers>>

(* try_recv gave SendBytes: write to the connection of the listener's map; *)
(* when the write fails the peer leaves that map only                      *)
LsnSend ==
    LET p == Head(inbox).pid IN
    /\ lsnPc = "drain" /\ inbox # <<>> /\ Head(inbox).kind = "send"
    /\ inbox' = Tail(inbox)
    /\ local' = IF p \in DOMAIN local /\ local[p] \in gone \cup closed
                THEN Without(local, p)
                ELSE local
    /\ UNCHANGED <<registry, info, nextConn, gone, closed, mainPc, stack, pending,
                   started, lsnPc, lsnTodo, mbox, jobs, workers>>

(* try_recv found the channel empty: poll every connection of the map *)
LsnRound ==
    /\ lsnPc = "drain" /\ inbox = <<>>
    /\ lsnPc' = "poll"
    /\ lsnTodo' = {local[p] : p \in DOMAIN local}
    /\ UNCHANGED <<registry, info, nextConn, gone, closed, mainPc, stack, pending,
                   started, inbox, local, mbox, jobs, workers>>

LsnPoll(c) ==
    /\ lsnPc = "poll" /\ c \in lsnTodo
    /\ lsnTodo' = lsnTodo \ {c}
    /\ ListenConnection(c)
    /\ UNCHANGED <<info, nextConn, gone, mainPc, stack, pending, started, local,
                   lsnPc, jobs, workers>>

LsnRoundEnd ==
    /\ lsnPc = "poll" /\ lsnTodo = {}
    /\ lsnPc' = "drain"
    /\ UNCHANGED <<registry, info, nextConn, gone, closed, mainPc, stack, pending,
                   started, inbox, local, lsnTodo, mbox, jobs, workers>>

-----------------------------------------------------------------------------
(* Multi-thread mode: the pool (max_peers + 1 threads, one of them held by *)
(* the main job for ever) and one job per peer.                            *)

StartJob ==
    /\ jobs # <<>> /\ Cardinality(workers) < MaxPeers
    /\ workers' = workers \cup {Head(jobs)}
    /\ jobs' = Tail(jobs)
    /\ UNCHANGED <<registry, info, nextConn, gone, closed, mainPc, stack, pending,
                   started, inbox, local, lsnPc, lsnTodo, mbox>>

(* the job returns, dropping its channel's receiver *)
WkReturn(c) ==
    /\ workers' = workers \ {c}
    /\ mbox' = [mbox EXCEPT ![c] = <<>>]

(* while !arc_connection.is_closed() fails *)
WkClosed(c) ==
    /\ c \in workers /\ c \in closed
    /\ WkReturn(c)
    /\ UNCHANGED <<registry, info, nextConn, gone, closed, mainPc, stack, pending,
                   started, inbox, local, lsnPc, lsnTodo, jobs>>

(* try_recv gave a message. Exit: the job returns. SendBytes: the write   *)
(* succeeds, or fails (remote gone) and the job returns without removing  *)
(* the peer from the registry. Exit is only ever queued by the job itself *)
(* after it has closed its connection, so it is never read in practice.   *)
WkRecv(c) ==
    /\ c \in workers /\ c \notin closed /\ mbox[c] # <<>>
    /\ IF Head(mbox[c]) = "exit" \/ c \in gone
       THEN WkReturn(c)
       ELSE /\ mbox' = [mbox EXCEPT ![c] = Tail(@)]
            /\ UNCHANGED workers
    /\ UNCHANGED <<registry, info, nextConn, gone, closed, mainPc, stack, pending,
                   started, inbox, local, lsnPc, lsnTodo, jobs>>

(* the channel is empty: listen_connection *)
WkPoll(c) ==
    /\ c \in workers /\ c \notin closed /\ mbox[c] = <<>>
    /\ ListenConnection(c)
    /\ UNCHANGED <<info, nextConn, gone, mainPc, stack, pending, started, local,
                   lsnPc, lsnTodo, jobs, workers>>

-----------------------------------------------------------------------------
(* The remote daemon closes its socket. *)
RemoteClose(c) ==
    /\ c \in Registered \cup {local[p] : p \in DOMAIN local} \cup workers
    /\ c \notin gone \cup closed
    /\ gone' = gone \cup {c}
    /\ UNCHANGED <<registry, info, nextConn, closed, mainPc, stack, pending, started,
                   inbox, local, lsnPc, lsnTodo, mbox, jobs, workers>>

MainThread == MainDial \/ MainReturn \/ MainRegister \/ \E n \in Nodes : MainAccept(n)
Listener == LsnAdd \/ LsnRemove \/ LsnSend \/ LsnRound \/ LsnRoundEnd
            \/ \E c \in ConnIds : LsnPoll(c)
Worker(c) == WkClosed(c) \/ WkRecv(c) \/ WkPoll(c)

Next ==
    \/ MainThread
    \/ StartListener
    \/ Listener
    \/ StartJob
    \/ \E c \in ConnIds : Worker(c)
    \/ \E c \in ConnIds : RemoteClose(c)

Spec == Init /\ [][Next]_vars

(* Threads are OS threads of the pool: each one that can run keeps running. *)
FairSpec ==
    /\ Spec
    /\ WF_vars(Listener)
    /\ WF_vars(StartJob)
    /\ \A c \in ConnIds : WF_vars(Worker(c))

-----------------------------------------------------------------------------
(* Properties *)

TypeOK ==
    /\ DOMAIN registry \subseteq PeerIds
    /\ registry \in [DOMAIN registry -> ConnIds]
    /\ DOMAIN info = 1..(nextConn - 1)
    /\ info \in [DOMAIN info -> [node : Nodes, out : BOOLEAN]]
    /\ nextConn \in 1..(MaxConns + 1)
    /\ gone \subseteq ConnIds /\ closed \subseteq ConnIds
    /\ mainPc \in {"run", "reg"} \cup Panics
    /\ stack \in Seq(Seq(Nodes))
    /\ pending \in Verified
    /\ started \in BOOLEAN
    /\ inbox \in Seq(InboxMsg)
    /\ DOMAIN local \subseteq PeerIds /\ local \in [DOMAIN local -> ConnIds]
    /\ lsnPc \in {"off", "drain", "poll"}
    /\ lsnTodo \subseteq ConnIds
    /\ mbox \in [ConnIds -> Seq({"send", "exit"})]
    /\ jobs \in Seq(ConnIds)
    /\ workers \subseteq ConnIds

(* add_connection never finds the peer id already registered: its         *)
(* panic!("Peer ID '{}' is already used!") is unreachable, because the     *)
(* main thread is the only one that inserts and it checked is_connected_to *)
(* before, while other threads can only remove in between.                 *)
NoDuplicateRegistration == mainPc # "dup_panic"

(* The server never registers itself, even when its own listen address is  *)
(* gossiped back to it (is_connected_to covers self.peer_id).             *)
SelfNeverRegistered == SelfId \notin DOMAIN registry

(* Single mode: the listener's map, once the messages still queued on the  *)
(* single channel are applied, is a part of the registry; and every        *)
(* connection left to poll in this round is still the registered one for  *)
(* its peer id, so the remove_connection(peer_id) a failed read triggers   *)
(* can never remove a newer connection of the same peer.                   *)
(* The queued AddConnection / RemoveConnection messages about peer p. The *)
(* listener applies the channel in order, so the last of them decides p's *)
(* entry once the channel is drained; with none queued, its map does.     *)
MsgsAbout(p) ==
    {i \in DOMAIN inbox : inbox[i].kind \in {"add", "remove"} /\ inbox[i].pid = p}
InView(p, c) ==
    \/ \E i \in MsgsAbout(p) : /\ \A j \in MsgsAbout(p) : j <= i
                               /\ inbox[i].kind = "add"
                               /\ inbox[i].conn = c
    \/ MsgsAbout(p) = {} /\ p \in DOMAIN local /\ local[p] = c
ListenerView ==
    [p \in {q \in PeerIds : \E c \in ConnIds : InView(q, c)} |->
        CHOOSE c \in ConnIds : InView(p, c)]
ListenerViewConsistent ==
    /\ \A p \in DOMAIN ListenerView : p \in DOMAIN registry /\ registry[p] = ListenerView[p]
    /\ \A c \in lsnTodo : Pid(c) \in DOMAIN registry => registry[Pid(c)] = c

(* The spec (3(c), 8): the registry never holds more than max_peers peers. *)
PeerLimit == PeerCount <= MaxPeers

(* handle_new_connection never hits panic!("Something is wrong: no channel *)
(* for single thread??").                                                  *)
NoStartupPanic == mainPc # "chan_panic"

(* The spec (3, 4.6): a peer leaves the registry when its socket closes;   *)
(* a connection whose remote end has closed is eventually removed (unless  *)
(* a panic has poisoned the server's lock).                                *)
DisconnectedPeerRemoved ==
    \A c \in ConnIds : (c \in gone /\ c \in Registered) ~> (c \notin Registered \/ Poisoned)

-----------------------------------------------------------------------------
(* The inductive invariant behind NoDuplicateRegistration and            *)
(* SelfNeverRegistered (proved in P2pServer_proofs): while a verified      *)
(* handshake awaits add_connection, its connection is a fresh one and its *)
(* peer id is neither ours nor registered, because only the main thread   *)
(* inserts and the other threads can only remove meanwhile.               *)
IInv ==
    /\ TypeOK
    /\ SelfId \notin DOMAIN registry
    /\ mainPc # "dup_panic"
    /\ mainPc = "reg" =>
         /\ pending.conn \in ConnIds
         /\ PeerIdOf[pending.node] \notin DOMAIN registry \cup {SelfId}


(* The inductive invariant behind ListenerViewConsistent (proved in       *)
(* P2pServer_view_proofs). A registered connection belongs to the peer id *)
(* it is registered under, and so does the one awaiting add_connection;   *)
(* multi mode never uses the single channel or the listener's map, and    *)
(* single mode has no pool jobs; every connection left to poll is its     *)
(* peer's registered one; and the view of the listener after the queued   *)
(* messages is a part of the registry.                                    *)
RegistryOwned ==
    \A p \in DOMAIN registry : registry[p] \in DOMAIN info /\ Pid(registry[p]) = p
PendingOwned ==
    mainPc = "reg" => pending.conn \in DOMAIN info /\ info[pending.conn].node = pending.node
SingleOnly ==
    MultiThreaded => inbox = <<>> /\ local = <<>> /\ lsnPc = "off" /\ lsnTodo = {}
MultiOnly ==
    ~MultiThreaded => jobs = <<>> /\ workers = {}
TodoRegistered ==
    \A c \in lsnTodo : Pid(c) \in DOMAIN registry /\ registry[Pid(c)] = c
ViewRegistered ==
    \A p \in PeerIds, c \in ConnIds : InView(p, c) => p \in DOMAIN registry /\ registry[p] = c
LInv ==
    /\ IInv
    /\ RegistryOwned
    /\ PendingOwned
    /\ SingleOnly
    /\ MultiOnly
    /\ TodoRegistered
    /\ ViewRegistered

=============================================================================
