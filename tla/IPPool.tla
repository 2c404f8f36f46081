------------------------------- MODULE IPPool -------------------------------
(***************************************************************************)
(* The server's address pool, IPPool in pkg/server/server.go.             *)
(*                                                                         *)
(* An address of the subnet is represented by its host number: base + h.  *)
(* The code computes maxHosts = 2^(32 - prefix) from the mask; the model   *)
(* takes it as the constant MaxHosts (256 for the code's /24, a smaller    *)
(* power of two for checking: the arithmetic is the same).  Host 1 is the  *)
(* server, hosts 2 .. MaxHosts-2 are handed to clients.                    *)
(*                                                                         *)
(* Allocate and Release run under the pool's mutex, so each is one atomic  *)
(* step.  The module is used standalone and, through INSTANCE, by Server.  *)
(***************************************************************************)
EXTENDS Integers, FiniteSets, FiniteSetsExt

CONSTANT MaxHosts   \* 1 << (bits - ones): number of host numbers of the subnet

ASSUME MaxHosts \in {2^k : k \in 3..8}

VARIABLES
  used,       \* host numbers in p.used (the map's keys are ip.String())
  nextHost    \* p.nextHost, the scan cursor; NewIPPool starts it at 2

poolVars == <<used, nextHost>>

\* The addresses a client can be given: .2 up to the one before broadcast.
Hosts == 2 .. (MaxHosts - 2)

(***************************************************************************)
(* Variants of the scan with a plausible slip, for mutation analysis.      *)
(***************************************************************************)
ProbeNoClamp(i) == (nextHost + i) % (MaxHosts - 1)

ScanFromOne == 1 .. (MaxHosts - 3)

\* The loop bound of Allocate: i ranges over 0 .. maxHosts-3.
ScanRange == 0 .. (MaxHosts - 3)

(***************************************************************************)
(* The i-th host number the scan looks at:                                *)
(*   hostNum := (p.nextHost + i) % (maxHosts - 1); if hostNum < 2 then 2.  *)
(***************************************************************************)
Probe(i) ==
  LET h == (nextHost + i) % (MaxHosts - 1)
  IN  IF h < 2 THEN 2 ELSE h

\* The iterations at which the scan meets an address not in p.used.
FreeProbes == {i \in ScanRange : Probe(i) \notin used}

\* Allocate returns "IP pool exhausted": the loop ran out.
Exhausted == FreeProbes = {}

\* The address a successful Allocate returns: the first free probe.
Allocated == Probe(Min(FreeProbes))

InitPool ==
  /\ used = {}
  /\ nextHost = 2

(***************************************************************************)
(* IPPool.Allocate, the successful return: the first free probe is marked  *)
(* used and the cursor moves past it (p.nextHost = hostNum + 1).  ip is    *)
(* the returned address.  The failing return changes nothing.             *)
(***************************************************************************)
Allocate(ip) ==
  /\ ~Exhausted
  /\ ip = Allocated
  /\ used' = used \cup {ip}
  /\ nextHost' = ip + 1

\* IPPool.Release: delete(p.used, ip.String()); the cursor is not rewound.
Release(ip) ==
  /\ used' = used \ {ip}
  /\ UNCHANGED nextHost

-----------------------------------------------------------------------------
(* The pool on its own: any sequence of allocations and releases of       *)
(* addresses handed out earlier.                                           *)

PoolNext ==
  \/ Allocate(Allocated)
  \/ \E ip \in used : Release(ip)

PoolSpec == InitPool /\ [][PoolNext]_poolVars

-----------------------------------------------------------------------------
(* Reference definition of the allocation order of spec section 4.5: scan *)
(* forward from the cursor through the hosts 2 .. MaxHosts-2, wrapping,    *)
(* and return the first unused one.                                        *)

\* How far host h lies after the cursor in the cyclic order of Hosts.
CyclicDistance(h) == (h - nextHost) % Cardinality(Hosts)

RefFirstFree ==
  CHOOSE h \in Hosts \ used :
    \A g \in Hosts \ used : CyclicDistance(h) <= CyclicDistance(g)

-----------------------------------------------------------------------------
(* Properties *)

\* The pool only ever holds client host numbers, never the network (.0),
\* the server (.1) or broadcast; the cursor stays within 2 .. MaxHosts-1.
PoolTypeOK ==
  /\ used \subseteq Hosts
  /\ nextHost \in 2 .. (MaxHosts - 1)

\* Spec 4.5 and 8.6: Allocate fails only when every client address is in
\* use; in particular an address freed by Release can be allocated again.
FreeAddressFound == (Hosts \ used # {}) => ~Exhausted

\* Spec 4.5: a successful Allocate returns the first unused host in cyclic
\* order from the cursor (so the cursor is cycle-biased toward fresh ones).
AllocatesFirstFreeInCycle ==
  [][used' # used /\ used \subseteq used' => used' = used \cup {RefFirstFree}]_poolVars

=============================================================================
