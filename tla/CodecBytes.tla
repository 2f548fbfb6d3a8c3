---------------------------- MODULE CodecBytes ----------------------------
(***************************************************************************)
(* What both handshake codecs share: bytes, Option values and the UTF-8    *)
(* check of String::from_utf8.                                             *)
(***************************************************************************)
EXTENDS Naturals, Sequences

(* An Option is a sequence of length 0 (None) or 1 (Some).                *)
None == <<>>

Bytes == 0..255

(* String::from_utf8 accepts the bytes.  The inputs use ASCII bytes, valid *)
(* anywhere, and 0xFF, invalid anywhere; so a string is valid exactly when *)
(* all its bytes are below 128.                                            *)
Utf8Valid(s) == \A i \in DOMAIN s : s[i] < 128

=============================================================================
