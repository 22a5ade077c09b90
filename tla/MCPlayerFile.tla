---------------------------- MODULE MCPlayerFile ----------------------------
EXTENDS PlayerFile, TLC
CONSTANTS r1, r2, n1, n2

Load(first, second, names, timed, changes, faults, saves, edits) ==
  [ops |-> r1 :> first @@ r2 :> second, names |-> names,
   timed |-> timed, synced |-> ~timed,
   changes |-> changes, faults |-> faults, saves |-> saves, edits |-> edits]

(* The presence set under lost lines, poor answers and dropped requests;   *)
(* edits one at a time beside saves and views; two edits at once.          *)
MCLoads ==
  {Load("poll", "poll", {n1}, TRUE, 2, 1, 0, 0),
   Load("poll", "act", {n1, n2}, TRUE, 2, 1, 0, 0),
   Load("edit", "view", {n1}, FALSE, 1, 1, 2, 2),
   Load("edit", "edit", {n1}, FALSE, 1, 1, 1, 2)}
=============================================================================
