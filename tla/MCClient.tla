------------------------------ MODULE MCClient ------------------------------
(* Model-checking instance of Client.  Both configurations are explored   *)
(* in one state space: AutoReconnect off, as runClient sets it, and on,   *)
(* the library default.  Two connections allow, with AutoReconnect on, a  *)
(* reconnect after a break and a stale error of the first connection      *)
(* arriving once the second is established; with it off only one is ever *)
(* dialled.                                                                *)
EXTENDS Client

MCMaxConns == 2

MCBothConfigs == {FALSE, TRUE}

=============================================================================
