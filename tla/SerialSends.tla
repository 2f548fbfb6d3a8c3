---------------------------- MODULE SerialSends ----------------------------
(***************************************************************************)
(* What the send_bytes calls of one Connection promise, without the lock, *)
(* the reader or close(): each call is logged when it is made, and it      *)
(* writes (in one or several chunks) or fails only once every call made   *)
(* before it has finished.  This is the per-peer FIFO of spec section 5,  *)
(* stated over the calls rather than over the bytes.  Connection.tla       *)
(* implements it under the mapping SendState.                              *)
(***************************************************************************)
EXTENDS Naturals, Sequences

CONSTANT Msgs       \* the send_bytes calls

VARIABLES
    log,    \* the calls in the order they were made
    state   \* state[m]: "idle", "waiting", "writing", "done", "err"

vars == <<log, state>>

Finished(m) == state[m] \in {"done", "err"}

(* Every call logged before m has finished.                                *)
Turn(m) ==
    \A i, j \in DOMAIN log : i < j /\ log[j] = m => Finished(log[i])

Init ==
    /\ log = <<>>
    /\ state = [m \in Msgs |-> "idle"]

(* A call is made and waits for its turn.                                  *)
Call(m) ==
    /\ state[m] = "idle"
    /\ log' = Append(log, m)
    /\ state' = [state EXCEPT ![m] = "waiting"]

(* In its turn, a call writes a chunk, possibly its last.                  *)
Write(m) ==
    /\ state[m] \in {"waiting", "writing"}
    /\ Turn(m)
    /\ state' \in {[state EXCEPT ![m] = s] : s \in {"writing", "done"}}
    /\ UNCHANGED log

(* In its turn, a call fails.                                              *)
Fail(m) ==
    /\ state[m] \in {"waiting", "writing"}
    /\ Turn(m)
    /\ state' = [state EXCEPT ![m] = "err"]
    /\ UNCHANGED log

Next == \E m \in Msgs : Call(m) \/ Write(m) \/ Fail(m)

Spec == Init /\ [][Next]_vars

=============================================================================
