------------------------------ MODULE MCPolls ------------------------------
(* One poll of two options: with one vote and one admin, enough for what   *)
(* closing does to a vote and to an extension under way.                   *)
EXTENDS Polls, TLC

CONSTANTS p1, o1, o2

OnePoll    == p1 :> {o1, o2}
TwoOptions == SUBSET {o1, o2}
OneTick    == {1}
Never      == {Null}
=============================================================================
