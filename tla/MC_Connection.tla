--------------------------- MODULE MC_Connection ---------------------------
(* Small instances of Connection for TLC.  The remote sends a frame of 5   *)
(* payload bytes, longer than the 4-byte buffer so that read_all_bytes     *)
(* loops, then a frame of 2; two send_bytes calls of 2 bytes each can      *)
(* both be split into partial writes.                                      *)
EXTENDS Connection

CONSTANTS m1, m2

MCFrames == <<5, 2>>
MCMsgs == {m1, m2}
MCMsgLen == [m \in MCMsgs |-> 2]
=============================================================================
