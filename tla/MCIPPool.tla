------------------------------ MODULE MCIPPool ------------------------------
(* Model-checking instance of IPPool: a /29 subnet (MaxHosts = 8), whose  *)
(* five client hosts 2..6 let the cursor wrap after a few allocations.    *)
EXTENDS IPPool

MCMaxHosts == 8

=============================================================================
