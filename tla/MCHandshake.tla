----------------------------- MODULE MCHandshake -----------------------------
(***************************************************************************)
(* Handshake for TLC.  Key pairs, the low-order point and salts are model  *)
(* values.  GenerateRandomBytes(32) returns the all-zero salt with         *)
(* probability 2^-256, so the server's salt is a value other than it.     *)
(***************************************************************************)
EXTENDS Handshake

CONSTANTS A, B, Z, SaltR, SaltZero, d1

MCSalts == {SaltR}
MCDatagrams == {d1}
MCMaxSeals == 1
=============================================================================
