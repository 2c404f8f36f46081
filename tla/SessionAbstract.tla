--------------------------- MODULE SessionAbstract ---------------------------
(***************************************************************************)
(* What the server promises about sessions (spec sections 3, 4.7 and 8.7), *)
(* without handshakes, goroutines or a pool: a session appears with an     *)
(* address no live session holds, keeps that address for as long as it     *)
(* lives, and disappears.  assigned maps each live session to its address. *)
(***************************************************************************)
EXTENDS Functions, TLC

CONSTANTS
  Sessions,   \* session identities
  Addrs       \* the addresses a client can be given

VARIABLE assigned

\* A session opens with an address that no live session holds.
Open(s, a) ==
  /\ s \notin DOMAIN assigned
  /\ a \notin Range(assigned)
  /\ assigned' = (s :> a) @@ assigned

\* A live session closes and its address becomes free.
Close(s) ==
  /\ s \in DOMAIN assigned
  /\ assigned' = Restrict(assigned, DOMAIN assigned \ {s})

Init == assigned = [s \in {} |-> CHOOSE a \in Addrs : TRUE]

Next ==
  \/ \E s \in Sessions, a \in Addrs : Open(s, a)
  \/ \E s \in Sessions : Close(s)

Spec == Init /\ [][Next]_assigned

=============================================================================
