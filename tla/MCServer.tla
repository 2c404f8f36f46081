------------------------------ MODULE MCServer ------------------------------
(* Model-checking instance of Server: three connection slots (enough for   *)
(* two live sessions plus one connection in its handshake) and a /29 pool  *)
(* of five client addresses, so that slots are reused and the pool's      *)
(* cursor wraps within a short behaviour.                                  *)
EXTENDS Server, TLC

CONSTANTS c1, c2, c3

MCConns == {c1, c2, c3}

\* Two slots: one session can hold its address while the other slot is
\* reused, so the cursor wraps past a live address.
MCConnsPair == {c1, c2}

MCMaxHosts == 8

\* Slots are interchangeable model values: sound for the safety runs
\* (server_safety also checks liveness and does without it).
ConnSymmetry == Permutations(MCConns)

=============================================================================
