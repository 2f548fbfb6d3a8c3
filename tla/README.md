# TLA+ models of the xelis P2P layer

This directory holds TLA+ models of the peer-to-peer layer under `src/src/p2p/` and the `Reader` of `src/src/core/`, the TLC configurations that check them, and TLAPS proofs about them.

## The system

The layer has the parts that `spec.md` names. Each is listed with its source and with its state in the model.

| Part | Source | State and operations | Model |
|---|---|---|---|
| P2P server and peer registry | `p2p/server.rs` | The registry `connections` (peer id → Connection) behind an `RwLock`. Per-peer channels (multi mode) or one channel (single mode). A thread pool. Threads: the main thread (seed dials, accept loop, handshake, gossip dialing), `start()`'s listening block, the single-mode listener, one pool job per peer (multi mode). | `P2pServer` |
| Connection (tokio) | `p2p/connection.rs` | A stream mutex, a send mailbox, a `closed` flag, byte counters. Operations: `send_bytes`, `read_packet`, `close`. | `Connection` |
| Handshake codec | `p2p/handshake.rs` | The hand-written `to_bytes`/`from_bytes` that `server.rs` uses. | `HandshakeCodec` |
| Packet codecs | `p2p/packet/handshake.rs`, `p2p/packet/object.rs` | Reader-based `Handshake`, `ObjectRequest` and `ObjectResponse` codecs. | `PacketCodec` (partly: block and transaction payloads are outside this tree) |
| Reader | `core/reader.rs` | A cursor over a byte slice. | `PacketCodec` (partly: the readers the codecs use) |
| Hash, keys | `crypto/*.rs` | SHA-256 and Ed25519 wrappers. | no: cryptography, no state |
| Errors | `p2p/error.rs` | An error enum. | no: no state |

`server.rs` calls a blocking `Connection` API: `set_blocking`, `read_bytes`, `is_out`, `get_peer_id`. `connection.rs` in this tree is a later, async version that has none of these. `P2pServer` therefore models a connection only as `server.rs` uses it:
- its peer address, and whether we dialed it (`info`);
- whether `close()` was called (`closed`);
- whether the remote end closed its socket (`gone`).

### How the threads interact

- **Main thread.**
  - It dials every seed.
  - For each connection (dialed or accepted), `handle_new_connection` reads a Handshake. `verify_handshake` then refuses a known peer id (ours included). It filters the gossiped addresses through `is_connected_to_addr` and keeps `take(get_slots_available())` of them.
  - Inbound connections get our handshake back.
  - Then, under the write lock, `add_connection` registers the peer and hands the connection to its thread.
  - Then the main thread dials the kept gossiped addresses, depth first.
  - After the seeds, it runs the accept loop. The loop refuses a stream once `accept_new_connections()` is false.
- **Single mode.** `start()` inserts one channel under the write lock, then submits the listener job.
  - The listener drains the channel into its own `HashMap`: `AddConnection`, `RemoveConnection`, and `SendBytes` (a write).
  - It then polls every connection of that map with `listen_connection`.
- **Multi mode.** `add_connection` creates a channel per peer, and a pool job drains it (`SendBytes`, `Exit`) and polls the socket while the connection is not closed.
- **`listen_connection`.** `Ok(0)` or an error calls `remove_connection(peer_id)` under the write lock. That closes the connection and sends `Exit` or `RemoveConnection`. `Ok(n)` broadcasts the bytes to every registered peer under the read lock.
- **Panics.** A panic under the write lock poisons the `RwLock`. Every other thread then panics at its next `lock().unwrap()`.

## The module `P2pServer`

**Variables.**

| Variable | What it models |
|---|---|
| `registry` | the registry |
| `info` | the connections created so far |
| `gone`, `closed` | the state of each connection's socket |
| `mainPc`, `stack`, `pending` | the main thread |
| `stack` | the lists the nested dial loops are iterating (the seed loop at the bottom, one gossip loop per level of recursion) |
| `started` | whether `start()` has run its listening block |
| `inbox`, `local`, `lsnPc`, `lsnTodo` | the single-mode channel and listener |
| `mbox`, `jobs`, `workers` | the multi-mode channels and pool |

**Actions.** One action per step of a thread. Each critical section of the code is one step.

| Action | Code |
|---|---|
| `MainDial` | `connect_to_peer` for the next address of the innermost loop, through `verify_handshake`. Every error path of the code is the "nothing happens" disjunct. |
| `MainReturn` | the end of a loop |
| `MainAccept(n)` | one iteration of the accept loop |
| `VerifyHandshake`, `CreateConnection` | `verify_handshake` |
| `MainRegister` | the rest of `handle_new_connection`: reply failure, `set_blocking` failure, `add_connection` with its duplicate panic, the hand-off, the single-channel panic |
| `StartListener` | the listening block of `start()` |
| `LsnAdd`, `LsnRemove`, `LsnSend`, `LsnRound`, `LsnPoll`, `LsnRoundEnd` | the single listener |
| `StartJob`, `WkClosed`, `WkRecv`, `WkPoll` | the per-peer job |
| `RemoteClose` | the environment: a remote daemon closing its socket |

**Data abstractions.**
- A remote daemon is an address in `Nodes` that always announces `PeerIdOf[n]`.
- Our own address can be in `Nodes`, with `PeerIdOf[s] = SelfId`, to model self-dialing through gossip.
- A handshake is reduced to that peer id and a gossiped list of at most `MaxGossip` addresses.
- Bytes are not modelled.
- Iteration order of a `HashMap` (`broadcast_bytes` in single mode) is a nondeterministic order.
- `usize` underflow is either a panic (`OverflowChecks`, debug build) or a wrap that keeps everything (release build).

**The Exit arm.** `WkRecv` folds the `Exit` arm into the receive step. In the code, that arm is unreachable in multi mode. Only the job itself calls `remove_connection` on its own connection, and `close()` sets `closed` first. So the job's loop test stops it before it reads `Exit`.

## Runs

All runs use `MC_P2pServer`. It has two remote daemons `a`, `b` plus our own address `s`, and `MaxQueue = 2`.

| Run | Mode | Checks | Result |
|---|---|---|---|
| `single` | single, `MaxPeers = 2`, `MaxConns = 4` | `TypeOK`, `NoDuplicateRegistration`, `SelfNeverRegistered`, `ListenerViewConsistent` | pass, about 1.6M states |
| `multi` | multi, same bounds | `TypeOK`, `NoDuplicateRegistration`, `SelfNeverRegistered` | pass, about 2.1M states |
| `peer_limit` | multi | `PeerLimit` | violated: gossip dialing goes past `max_peers`. From that state the next `verify_handshake` underflows `max_peers - connections.len()` (line 159); the model's `OverflowChecks` makes that a panic in a debug build. |
| `startup_race` | single | `NoStartupPanic` | violated |
| `stale_peer_multi` | multi, under `FairSpec` | `DisconnectedPeerRemoved` | violated (`server.rs:402`). The single listener has the same defect at `server.rs:134`: a failed write drops the peer from its own map only. |

**`ListenerViewConsistent`.** In single mode the listener's private map, after applying the messages still queued on the channel, is a sub-map of the registry. Every connection left to poll in the current round is still the registered one for its peer id. This is what makes the listener's `remove_connection(peer_id)` safe: it can never remove a newer connection of the same peer. It holds because every change to the registry queues its message in the same critical section, and because the channel is FIFO. It is proved in `P2pServer_view_proofs`.

**Deadlock.** The single runs do not check deadlock (`CHECK_DEADLOCK FALSE`), and this is real. After the start-up panic the `RwLock` is poisoned and every thread stops. The multi run does check deadlock.

**Bounds.**
- Two peer slots and four connections give two concurrent peers, a registration over the limit, and a re-registration after removal.
- One gossiped address per handshake is enough to reach self-dialing and recursion two levels deep.
- Queues of two let a broadcast be pending while a removal is queued.

**Fairness (`FairSpec`).** Weak fairness of the listener, of each per-peer job and of starting a job. These are OS threads of the pool, and each loops without blocking (`try_recv`, non-blocking reads). The main thread gets no fairness: it blocks in `accept` for as long as nobody connects.

## Proofs (`P2pServer_proofs`)

TLAPS proves `Spec => []IInv` for every value of the constants allowed by `ConstAssumption`. From it follow `TypeCorrect` (`[]TypeOK`), `NoDuplicateRegistrationHolds` and `SelfNeverRegisteredHolds`.

**The invariant.** `IInv` strengthens `TypeOK` with three facts:
- the registry never holds `SelfId`;
- `mainPc` is never `"dup_panic"`;
- while the main thread holds a verified handshake (`mainPc = "reg"`), its connection is a real one and its peer id is neither ours nor registered.

That last fact is the reason the duplicate panic is unreachable. `verify_handshake` establishes it under a read lock. Between that lock and the write lock of `add_connection`, every other thread can only remove from the registry (`OtherThreadIInv`).

**Layout.**
- One lemma per action.
- Lemmas for the shared helpers `RemoveConnection`, `BroadcastBytes` and `ListenConnection`.
- Finiteness lemmas: the registry is finite, so `PeerCount` and the broadcast message set have natural cardinalities.
- The library's sequence facts, cited per step.

The gossip filter is written as the set `Unknown` of gossip lists with no dialed address, not with `SelectSeq`. The two are equal, because the remote side chooses the list freely. The set form keeps the model free of recursion that the provers cannot unfold.

**What stays with TLC.** Liveness (`DisconnectedPeerRemoved`): the provers do not reason about fairness or `ENABLED`.

## Proofs (`P2pServer_view_proofs`)

TLAPS proves `ListenerViewConsistentHolds` (`Spec => []ListenerViewConsistent`) for every value of the constants. It follows from `LInvHolds` (`Spec => []LInv`).

**The view in closed form.** `ListenerView` is the listener's map after the queued messages are applied. The model states it without recursion:
- `MsgsAbout(p)` is the set of positions of queued `AddConnection` and `RemoveConnection` messages about peer `p`;
- `InView(p, c)` holds when the last of those messages adds `c`, or when none is queued and the listener's map has `p -> c`.

An earlier version defined `ListenerView` as a recursive fold of the messages over the map, which the provers cannot unfold. TLC checked that the two definitions are equal in every reachable state of the `single` configuration (1.6M states) before the fold was replaced.

**The invariant.** `LInv` strengthens `IInv` with:
- `RegistryOwned`: every registered connection belongs to the peer id it is registered under;
- `PendingOwned`: so does the connection awaiting `add_connection`;
- `SingleOnly`: multi mode never uses the single channel or the listener's map;
- `MultiOnly`: single mode has no pool jobs;
- `TodoRegistered`: every connection left to poll in this round is its peer's registered one;
- `ViewRegistered`: the view is part of the registry.

TLC checked `LInv` as an invariant of the `single` and `multi` configurations before the proof.

**The argument.** `add_connection` and `remove_connection` queue their message in the same critical section in which they change the registry. The queued message then becomes the last word on that peer (`ViewAppend`). Receiving the head of the channel leaves the view unchanged (`TailAbout`, `ViewTail`, `DrainLInv`). `SendBytes` messages never change it (`ViewSends`).

`LsnRound` starts a round on an empty channel. There the view is the listener's own map, so every connection it is about to poll is registered, and `RegistryOwned` names the peer it is registered under. A failed read then removes exactly that connection's entry. The other connections of the round belong to other peers, so they keep their entries.

## The module `Connection`

`Connection` models the tokio `Connection` of `connection.rs` as the tasks that share it. The loops that call it are not in this tree, so the callers are the simplest ones the spec describes (section 4.5):
- a reader task calls `read_packet` until it fails. It also selects on its mailbox, and on `Exit` it stops (`ReaderExit`, modelled from the spec, since the loop is not in this tree). Between packets it just leaves. Inside `read_packet` the awaiting read is dropped, and with it the stream guard. This is what the comment at line 141 expects of `Exit`: "to stop the current lock of stream";
- one task per message of `Msgs` calls `send_bytes` once;
- one task calls `close()`;
- the remote end is the environment. It delivers the bytes of its frames in chunks of any size, and it may close its socket at any time.

**Variables.**

| Variable | What it models |
|---|---|
| `holder`, `lockQ` | the stream `Mutex`. tokio's mutex is fair: a released lock goes to the oldest waiter. |
| `rpc`, `rStart`, `rSize`, `rLeft`, `packets` | the reader: where it is in `read_packet` (or `"exited"` after `Exit`), and the packets it returned |
| `arrived`, `bytesIn` | bytes in our receive buffer, and `bytes_in` (the bytes read so far) |
| `eof` | the remote closed |
| `spc`, `written`, `wire`, `callOrder`, `lateCall`, `bytesOut` | the senders, and what reached the socket |
| `closed`, `cpc`, `exits`, `shut` | `close()` |

**Data abstractions.**
- The remote's stream is the byte layout of `Frames`: a 4-byte length, then that many payload bytes.
- At a frame boundary, a 4-byte read decodes that frame's length. Anywhere else it decodes any value.
- `Packet::read` (not in this tree) accepts the payload of a real frame. A misaligned payload may or may not decode.

**Actions.**

| Action | Code |
|---|---|
| `ReaderLock` | line 77 |
| `ReaderSize` | `read_packet_size` and the size checks |
| `ReaderBody` | one iteration of `read_all_bytes`, with the decode after the last one |
| `ReaderExit` | the reader loop's `Exit` arm (spec-modelled): it leaves between packets, or drops the read it holds the lock for |
| `SendLock` | line 69 |
| `SendWrite` | one partial write of `write_all`; the last one also does the counter and flush |
| `CloseFlag`, `CloseExit`, `CloseShutdown` | the three awaits of `close()` |
| `Deliver`, `RemoteClose` | the remote |

A reader still queued for the lock is not given the `Exit` arm. It is ahead of `close()` in the FIFO queue, so it gets the lock first and can then take `Exit`. Leaving this out only delays `close()`.

A read returns what is buffered, at most the size asked for, and 0 once the remote has closed. It awaits while nothing is buffered. A write fails once our side is shut down, and may fail once the remote has closed.

## The module `HandshakeCodec`

`HandshakeCodec` models the old `handshake.rs` codec that `server.rs` calls:
- `ToBytes` is `to_bytes`.
- `from_bytes` is one action per block of code: `Start`, `ReadVersion`, `ReadTag`, `ReadFixed`, `ReadPeersLen`, one `ReadPeer` per peer, and `New`. Each action keeps the cursor `n` and `expected_size`.
- An out-of-range slice, an `unwrap` of invalid UTF-8 and a failed assert of `Handshake::new` each end in a panic state.

**Inputs.** The initial state is the input. `MC_HandshakeCodec` builds the inputs from 24 handshakes:
- versions, tags and peer strings of lengths 1 and 16 (`MAX_LEN`);
- a peer string of length 17;
- zero, one or two peers.

From each handshake it takes the encoding, every truncation of it, every one-byte overwrite with 0, 17 or 0xFF, and the encoding with a trailing byte. The initial state may also take any byte string of `Received` (the packet-format inputs below); `from_bytes` must not panic on those either.

The byte 0xFF stands for invalid UTF-8. ASCII stands for valid UTF-8. The 72 fixed bytes are kept as bytes, since a `u64` is the same as its 8 big-endian bytes.

## The modules `CodecBytes` and `PacketCodec`

`CodecBytes` holds what both codecs share: `Bytes`, `None` (an `Option` is a sequence of length 0 or 1) and `Utf8Valid` (ASCII is valid UTF-8, a byte of 128 or more stands for an invalid sequence).

`PacketCodec` models the `Reader` and the Reader-based codecs of `p2p/packet/`. Decoding has no concurrency, so they are operators, not actions:
- A `Reader` is a record `[bytes, total]`, as in `reader.rs`. Every `read_*` returns a result record `[ok, val, err, rd]`: the value or error, and the Reader after the call.
- Rust's `?` is `Then(res, F)`: on an error it returns the error, otherwise it calls `F` with the value and the advanced Reader.
- `ReadBytes` keeps the `n > size()` early return; `ReadU8` keeps `size() == 0`. A `u16` or `u64` is kept as its big-endian bytes, so no integer overflows in TLC.
- `HandshakeRead` is `Handshake::read` step by step, with its length checks, the peer loop `ReadPeers` and the final `Handshake::new`. A failed assert of `Handshake::new` is the error `"panic"`.
- `ObjectRequestRead` and `ObjectResponseRead` branch on the id byte. The `Block` and `Transaction` payloads of a response are read by code outside this tree, so ids 0 and 1 return a marker value; id 2 (`NotFound`) is modelled fully.
- `core/writer.rs` and `globals::ip_to_bytes`/`ip_from_bytes` are not in this tree. `WriteString`, `WriteOptionalString`, `IpToBytes` and `IpFromBytes` are modelled from the spec: a one-byte length then the bytes; a kind byte (0 for IPv4, 1 for IPv6), the address and a big-endian port.

**How the laws are checked.** `CodecLaws` extends both codec modules. It states the `PacketCodec` laws as predicates on `HandshakeCodec`'s variable `data`: the byte string the node received. `HandshakeCodec`'s `Init` takes `data` from its own old-format inputs or from the constant `Received`, other byte strings a remote may send. So one run feeds every input to both the old `from_bytes` and the Reader-based decoders.

**Inputs.** `MC_HandshakeCodec` gives the constants:
- `PacketSamples`: 18 handshakes that `Handshake::new` accepts. Versions have 1 or 16 characters, tags are none, 1 or 16 characters, and peer lists hold 0, 1 or 2 addresses of both kinds.
- `WireRecords`: the samples plus records that `Handshake::new` refuses (an empty version, a 17-byte version or tag, 17 peers). Their encodings are what a remote could send.
- `RequestSamples`: Block and Transaction requests, for the hash of zero bytes and the hash of 0xFF bytes.
- `Received` is `PacketInputs \cup ObjectInputs`. For every encoding of `WireRecords`, of a request and of its `NotFound` response, these sets hold the encoding, every truncation of it, and every one-byte overwrite with a value of `PacketMutValues` (0, 2, 17, 255).

## Runs of `Connection`, `HandshakeCodec` and `PacketCodec`

| Run | Checks | Result |
|---|---|---|
| `conn_safety` | `TypeOK`, `PacketsAreFrames`, `FifoSends`, `ReaderStopsAtEof`, `SerialSendsRefined`, under `FairSpec` | pass, 218,443 states |
| `conn_send_after_close` | `NoSendAfterClose` (spec section 8) | violated: `send_bytes` never reads `closed` |
| `conn_split_prefix` | `ReaderFailsOnlyAtEof` (spec 4.5(a)) | violated: a size prefix split over two segments is `InvalidPacketSize` |
| `conn_close` | `CloseCompletes`, under `FairSpec` | pass, 218,443 states: `close()` returns even when the peer stays silent |
| `codec_checks` | `TypeOK`, `NoCheckedPanic`, `DecodeCanonical`; `PacketRoundTrip`, `PacketDecodeCanonical`, `PacketNoPanic`, `ObjectRoundTrip`, `ObjectDecodeCanonical` | pass, 94,755 states |
| `codec_roundtrip` | `RoundTrip` (spec 4.1) | violated: a peer string of 17 bytes is written but refused |
| `codec_utf8_panic` | `NoUtf8Panic` | violated: `unwrap` at line 104 |

The `CodecLaws` properties of `codec_checks` hold in every state, i.e. for every byte string received:
- `PacketRoundTrip`: when the bytes are what `Handshake::write` made of a sample, `Handshake::read` gives the sample back and reads all of them (spec 4.1). The old codec breaks this law (`codec_roundtrip`); the Reader-based one keeps it on these samples.
- `PacketDecodeCanonical`: whatever `Handshake::read` accepts re-encodes to exactly the bytes it read.
- `PacketNoPanic`: no input reaches a failed assert of `Handshake::new`. This rests on the re-checks at lines 125 and 132, including `len() == 0`: `read_string` accepts an empty string.
- `ObjectRoundTrip` and `ObjectDecodeCanonical`: the same laws for `ObjectRequest` and the `NotFound` response. An unknown id is refused, and ids 0 and 1 are not swapped.

The samples reach both ends of every length check (1, 16 and 17), both address kinds and both `Option` cases. Each overwrite value lands on every length, id and kind byte.

**Instance and bounds for `Connection`.**
- Frames `<<5, 2>>` with a 4-byte buffer, so `read_all_bytes` loops and the second prefix follows a partial frame.
- Two messages of 2 bytes, so a write can be split and two senders can race.
- One `close()`.
- The remote's chunks take every size, so every split of a prefix and of a payload happens.

**Fairness for `Connection`.** Weak fairness of the reader, each sender, and the two later steps of `close()` (`CloseExit`, `CloseShutdown`). These are tokio tasks, and the runtime polls a task whenever its future can make progress. `CloseFlag` gets no fairness: whether `close()` is called at all is the caller's choice. The remote gets no fairness either: a peer may stay silent for ever. This is why the runs use `CHECK_DEADLOCK FALSE`: when `close()` is never called, a reader awaiting a silent peer really does stop everyone.

**What the `Connection` properties show.**
- `PacketsAreFrames`: whatever the chunking, the reader returns exactly the remote's frames, and it is at the boundary after the last one whenever it starts a call. This is what `min(buf_size, left)` at line 110 guarantees.
- `FifoSends`: concurrent sends reach the socket in the order they asked for the lock, each contiguous. This needs both the lock and tokio's FIFO hand-over: the mutant with an unfair hand-over breaks it.
- `ReaderStopsAtEof`: once the remote has closed, the reader stops, even if `close()` is never called. It gets the lock back and fails with `Disconnected`, or it takes `Exit`.
- `CloseCompletes`: a `close()` that was called returns, even when the peer sends nothing. `close()` needs the stream lock (line 142), which the reader holds across its awaiting read (line 126). Only the `Exit` queued first (line 141) frees it. So this holds only because the reader takes `Exit` in the middle of `read_packet`. The mutant `ReaderExitIdleOnly` stands for a caller that checks its mailbox only between packets. With it, `close()` hangs behind a silent peer, which is the deadlock spec section 9 warns about.
- `SerialSendsRefined`: `Connection` implements the abstract module `SerialSends`. That module promises what `send_bytes` calls do without mentioning the lock, the reader or `close()`: each call is logged when made, and it writes or fails only once every earlier call has finished. The refinement mapping takes `log` to `callOrder` and `state` to `SendState`, in which a call in `"write"` is `"waiting"` until its first byte is written and `"writing"` after.

## Proofs (`Connection_proofs`)

TLAPS proves `FifoSendsHolds`, i.e. `Spec => []FifoSends`. It holds for every frame layout, buffer size, set of calls and message lengths allowed by `ConstAssumption`. The only extra assumption is that the task names `"reader"`, `"closer"` and `"none"` are not message names.

**The invariant.** `FifoSends` is not inductive as it stands. A waiting call has not written yet, so nothing in `FifoSends` says it will write after the chunks already on the wire. `LockInv` (in `Connection.tla`) is the strengthening. It speaks only of the lock, the senders' states, the wire and the call log `callOrder`:
- `CallsInv`: every call that has left `"idle"` is logged exactly once.
- `QueueInv`: the calls in `"write"` are exactly the holder and the waiters, each once, and the waiters queue in call order behind the holder. This is the fairness of tokio's Mutex: the holder hands over to `Head(lockQ)`.
- `WireInv`: every chunk on the wire comes from a call that asked before every call still writing. Only the holder can be both writing and on the wire. `FifoSends` is included.

TLC checks `LockInv` on the `conn_safety` instance (161,806 states). Its proof has the following layout:
- One lemma per kind of step: the frame lemma, the reader's and the closer's `Lock` and `Unlock`, `SendLock`, `SendWrite`.
- A general `UnlockLockInv` for a holder that drops the guard. A sender's final write and its error path both reuse it.
- `WireAppend` for a chunk written by the holder.
- `InitLockInv` and `NextLockInv`.

TLAPS also proves `SerialRefinement`, i.e. `Spec => Serial!Spec`. An initial state maps to the initial state of `SerialSends`. A `SendLock` step maps to `Call`. A `SendWrite` maps to `Write` or `Fail`, or to a stutter. Every other step leaves the mapped state alone. The `Write` and `Fail` steps need `Turn(m)` for the holder. Lemma `HolderTurn` derives it from `LockInv`: every call logged before the holder has finished. `WrittenInv` (a call that has not locked has written nothing) maps `"idle"` calls correctly.

**What stays with TLC.** `PacketsAreFrames` needs the frame offsets `Start`, a recursive function. Reasoning about its values for every frame layout needs induction over the frames, which the provers cannot instantiate. For the same reason `Connection`'s `TypeOK` stays with TLC: it bounds `arrived` and `rStart` by `StreamLen = Start[Len(Frames) + 1]`, and even `StreamLen \in Nat` needs that induction. `ReaderStopsAtEof` is liveness.

## Proofs (`HandshakeCodec_proofs`)

TLAPS proves `NoCheckedPanicHolds`, i.e. `Spec => []NoCheckedPanic`, the property that `codec_checks` checks. It holds for every `MAX_LEN` and every byte string received, not only the sampled ones. `from_bytes` never indexes past its input, and it never calls `Handshake::new` with values its asserts refuse.

`NoCheckedPanic` is not inductive by itself. The proof rests on the invariant `IInv` (in `HandshakeCodec`, checked by TLC as an invariant of the `codec_checks` inputs before it was proved). It says that `expected_size` is always the cursor plus the fewest bytes the fields still to be read need:
- 75 before the version;
- 74 before the tag;
- 73 before the fixed fields;
- 1 before the peer count;
- one size byte per peer still to read.

The length checks of `from_bytes` keep `expected_size <= bytes.len()`. So every index and slice the code takes next lies inside the input. `IInv` also records that the version, the tag and the peer list already read satisfy the asserts of `Handshake::new`.

The proof has one lemma per action (`StartIInv` ... `NewIInv`), combined in `NextIInv`; `IInvHolds` follows by `PTL`.

TLAPS also proves `TypeCorrect`, i.e. `Spec => []TypeOK`, from the inductive invariant `TypeOK /\ IInv`. `TypeOK` alone is not inductive either: that the cursor stays within the input needs the `expected_size` bookkeeping of `IInv`. A peer is appended only while fewer than the peer count have been read (lemmas `StartTypeOK` ... `PeerTypeOK`, `NextTypeOK`). It adds one assumption to `ConstAssumption`: every sampled handshake encodes to a byte sequence. This holds because `to_bytes` returns a `Vec<u8>`.

**What stays with TLC.** `DecodeCanonical` and the `RoundTrip` violation. `DecodeCanonical` compares the input with `ToBytes` of the result. `ToBytes` encodes the peers with the recursive function `peerBytes`, so a proof for every input would need induction over the peer list.

## Proofs (`PacketCodec_proofs`)

TLAPS proves `ObjectRoundTripHolds`, i.e. `Spec => []ObjectRoundTrip`, the property that `codec_checks` checks. It holds for every set of requests that `PacketConstAssumption` allows, so for every 32-byte hash, not only the four sampled ones, and whatever bytes are received. The law holds of any byte string, so no inductive invariant is needed: the proof shows it for an arbitrary `data`, and `PTL` makes it hold always. The lemmas it rests on hold for any byte sequence and any position:
- `ReadU8Ok`, `ReadU8Short`, `ReadHashOk`, `ReadHashShort`: what `read_u8` and `read_bytes(32)` return with enough bytes left, or with none.
- `ConsBytes` and `ConsShift`: the bytes after a leading id byte are the encoding of the rest, shifted by one.
- `RequestReadAt`: at any position `t` where a request's 33 bytes start, `ObjectRequest::read` returns it and leaves the Reader at `t + 33`.
- `RequestRoundTrip` and `NotFoundRoundTrip` apply it at position 0, and at position 1 after the `NotFound` id.

TLAPS also proves `ObjectDecodeCanonicalHolds`, i.e. `Spec => []ObjectDecodeCanonical`, for every byte string a remote can send. Lemma `RequestDecodeCanonical` splits on the input:
- empty input;
- an id byte other than 0 or 1;
- fewer than 33 bytes;
- otherwise.

In the first three cases `ObjectRequest::read` fails. In the last it returns the request that `RequestReadAt` describes, and `ObjectRequest::write` gives back the first 33 bytes. The only fact about the state it needs is that `data` is a byte string. That fact is part of `HandshakeCodec`'s `IInv`, so `PacketCodec_proofs` extends `HandshakeCodec_proofs`.

**What stays with TLC.** The `Handshake` packet properties (`PacketRoundTrip`, `PacketDecodeCanonical`, `PacketNoPanic`). `Handshake::read` loops over the peers (`ReadPeers`, a recursive function of the peer count), and `Handshake::write` folds over them (`peerBytes`). Nothing is known of a recursive function's values without induction over its domain. This holds even for `PacketNoPanic`: the error a failed peer read returns is the loop's value. TLC checks these laws on all truncations and corruptions of the samples.

## Not modelled

- The Reader methods that the codecs do not call (`read_u128`, `read_bytes_64`, `total_size`, `total_read`), and the `Block` and `Transaction` payloads of `ObjectResponse`. `CompleteBlock`, `Transaction` and `packet/mod.rs` are not in this tree.
- `Connection`'s `State`, getters and `Display`. They share no state between tasks.
- Hash and key wrappers: cryptographic primitives.
