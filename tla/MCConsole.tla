----------------------------- MODULE MCConsole -----------------------------
(***************************************************************************)
(* The two halves of the console, which share nothing: the log that comes  *)
(* out and the commands that go in.  Each behaviour is about one of them   *)
(* while the other stands still.                                           *)
(***************************************************************************)
EXTENDS MCConsoleLog, Rcon

VARIABLE part

Begins == part \in {"log", "commands"} /\ Init /\ RconInit

(* Every command has come to its end: nothing more has to happen.          *)
Answered == \A p \in Caller : At(p, "end")

Turn ==
  /\ \/ part = "log" /\ Next /\ UNCHANGED rconVars
     \/ part = "commands" /\ RconNext /\ UNCHANGED vars
     \/ part = "commands" /\ Answered /\ UNCHANGED <<vars, rconVars>>
  /\ UNCHANGED part

(* The fairness of each half, while it is its turn.                        *)
ConsoleSpec ==
  /\ Begins /\ [][Turn]_<<part, vars, rconVars>>
  /\ SF_vars(part = "log" /\ TailStep)
  /\ \A v \in Viewer : WF_vars(part = "log" /\ Catches(v))
  /\ \A p \in Caller : /\ WF_rconVars(part = "commands" /\ Step(p))
                       /\ SF_rconVars(part = "commands" /\ Lock(p))
=============================================================================
