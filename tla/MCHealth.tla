------------------------------ MODULE MCHealth ------------------------------
(* Every kind of server asked by one request; two kinds asked by two, with *)
(* an operator beside them; and the sidecar, with every unit and number of *)
(* cores.                                                                  *)
EXTENDS Naturals, TLC

CONSTANTS None, s1, s2, op

Measured(n, used) ==
  [tps |-> ("5s" :> n @@ "10s" :> n + 1 @@ "1m" :> n + 2 @@ "5m" :> n + 3 @@ "15m" :> n + 4),
   heap |-> [used |-> n, allocated |-> 2 * n, max |-> 4 * n],
   cpu |-> 100 + n, used |-> used, limit |-> 1900000000]

Load(k, requests, time, changes, gone) ==
  [kind |-> k, units |-> "binary", cores |-> None, requests |-> requests,
   sidecar |-> FALSE, time |-> time, changes |-> changes, drops |-> gone]

Probes ==
  {Load(k, {s1}, 3, 1, 0) :
     k \in {"essentials", "gc", "spark", "topped up", "paper", "backwards", "vanilla", "unconfigured"}}
  \cup {Load(k, {s1, s2}, 3, 0, 1) : k \in {"essentials", "paper"}}
  \cup {Load("paper", {s1, op}, 2, 1, 1)}

Containers ==
  {[Load("essentials", {s1}, 2, 1, 0) EXCEPT !.sidecar = TRUE, !.units = u[1], !.cores = u[2]] :
     u \in {<<"binary", None>>, <<"binary", 2>>, <<"decimal", 0>>}}

AllLoads == Probes \cup Containers

Measures == <<Measured(4, 512000), Measured(9, 90000000), Measured(14, 1400000000)>>
=============================================================================
