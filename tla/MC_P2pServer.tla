---------------------------- MODULE MC_P2pServer ----------------------------
(* Small instances of P2pServer for TLC: two remote daemons a and b, and   *)
(* our own listen address s gossiped back to us (it announces SelfId).    *)
EXTENDS P2pServer

CONSTANTS a, b, s, pa, pb, pself

MCNodes == {a, b, s}
MCPeerIdOf == [n \in MCNodes |-> IF n = a THEN pa ELSE IF n = b THEN pb ELSE pself]
MCSeeds == <<a>>

=============================================================================
