------------------------------ MODULE MCObfsConn ------------------------------
(***************************************************************************)
(* ObfsConn for TLC.  Both sides hold the same 8-byte key of distinct      *)
(* bytes, the situation SetKey is there to create ("must match on client   *)
(* and server"), so that any failure to decode is the cursor's and not     *)
(* the keys'.  A key length that divides 4 would hide a cursor that is off *)
(* by the 4-byte prefix; 8, like the code's 32, does not.  One writer, so  *)
(* that no race between writers is involved either, and two messages of  *)
(* one and two bytes.                                                      *)
(***************************************************************************)
EXTENDS ObfsConn

CONSTANTS w1, w2

MCKeys == {<<11, 22, 33, 44, 55, 66, 77, 88>>}
MCMsgs == {<<1>>, <<2, 3>>}
MCWriters == {w1}
MCMaxWrites == 2
=============================================================================
