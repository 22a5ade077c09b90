---------------------------- MODULE MCConsoleLog ----------------------------
(* A small instance of ConsoleLog for TLC.                                 *)
EXTENDS ConsoleLog

LineText == Seq([gen: Nat, at: Nat]) \ {<<>>}
=============================================================================
