----------------------------- MODULE PollBoard -----------------------------
(***************************************************************************)
(* What the poll endpoints promise: an answer, an ending and an extension  *)
(* are each one atomic step on the stored polls and ballots, taken by a    *)
(* request that found its poll live.  A request makes its claim at that    *)
(* moment, takes the step later, and may give the claim up; an account     *)
(* that goes, or the end of the poll, may come in between.  The statements,*)
(* locks and failures are in module Polls, which implements this.          *)
(***************************************************************************)
EXTENDS PollRules

CONSTANTS User, Poll, OptionsOf, Audiences, Durations, Extensions

VARIABLES
  now, accounts, polls, ballots,
  answering,   \* who is about to answer which poll, and how
  ending,      \* who is about to end which poll
  extending    \* who is about to extend which poll, from when, by how much

claims == <<answering, ending, extending>>
vars == <<now, accounts, polls, ballots, claims>>

Init ==
  /\ now = 0
  /\ accounts = User
  /\ \A p \in Poll : ~polls[p].open
  /\ \A p \in Poll, u \in User : ballots[p][u] = {}
  /\ answering = {} /\ ending = {} /\ extending = {}

Live(p) == polls[p].open /\ IsLive(polls[p].ended, polls[p].closes, now)

(* Claims come about on live polls only; an extension is claimed from the  *)
(* closing time of that moment.  Any claim may be given up.                *)
Claim ==
  /\ \A c \in answering' \ answering : Live(c.poll)
  /\ \A c \in ending' \ ending : Live(c.poll)
  /\ \A c \in extending' \ extending : Live(c.poll) /\ c.from = polls[c.poll].closes
  /\ UNCHANGED <<now, accounts, polls, ballots>>

(* An admin opens poll p for an audience, naming accounts to exclude.      *)
Open(p) ==
  /\ ~polls[p].open
  /\ \E multiple \in BOOLEAN, duration \in Durations, created \in 0 .. now,
        audience \in Audiences, excluded \in SUBSET accounts :
       /\ NewPollAccepted(OptionsOf[p], audience)
       /\ polls' = [polls EXCEPT ![p] =
                      [open |-> TRUE, multiple |-> multiple,
                       duration |-> duration, created |-> created,
                       closes |-> ClosesAt(duration, created), ended |-> Null,
                       audience |-> audience, excluded |-> excluded]]
  /\ UNCHANGED <<now, accounts, ballots, claims>>

(* A claimed answer replaces the whole answer of an account that may give  *)
(* it, ...                                                                 *)
Answer(c) ==
  /\ polls[c.poll].open
  /\ c.user \in accounts \ polls[c.poll].excluded
  /\ c.chosen \subseteq OptionsOf[c.poll]
  /\ ChoiceAccepted(c.chosen, polls[c.poll].multiple)
  /\ ballots' = [ballots EXCEPT ![c.poll][c.user] = c.chosen]
  /\ answering' = answering \ {c}
  /\ UNCHANGED <<now, accounts, polls, ending, extending>>

(* ... a poll is ended once, ...                                           *)
End(c) ==
  /\ polls[c.poll].open /\ polls[c.poll].ended = Null
  /\ \E t \in 0 .. now : polls' = [polls EXCEPT ![c.poll].ended = t]
  /\ ending' = ending \ {c}
  /\ UNCHANGED <<now, accounts, ballots, answering, extending>>

(* ... and before that its closing time moves by one extension at a time,  *)
(* from the time at which the extension was claimed.                       *)
Extend(c) ==
  /\ polls[c.poll].open /\ polls[c.poll].ended = Null
  /\ c.from # Null /\ polls[c.poll].closes = c.from
  /\ polls' = [polls EXCEPT ![c.poll].closes = ExtensionTarget(@, c.ticks)]
  /\ extending' = extending \ {c}
  /\ UNCHANGED <<now, accounts, ballots, answering, ending>>

(* A deleted account leaves no answer and no exclusion behind.             *)
Leave(u) ==
  /\ u \in accounts
  /\ accounts' = accounts \ {u}
  /\ ballots' = [p \in Poll |-> [ballots[p] EXCEPT ![u] = {}]]
  /\ polls' = [p \in Poll |-> [polls[p] EXCEPT !.excluded = @ \ {u}]]
  /\ UNCHANGED <<now, claims>>

(* A claim that is not yet sure of its poll goes when the poll runs out.   *)
Tick ==
  /\ now' = now + 1
  /\ answering' \subseteq answering /\ ending' \subseteq ending
  /\ extending' \subseteq extending
  /\ UNCHANGED <<accounts, polls, ballots>>

Next ==
  \/ Tick \/ Claim
  \/ \E p \in Poll : Open(p)
  \/ \E c \in answering : Answer(c)
  \/ \E c \in ending : End(c)
  \/ \E c \in extending : Extend(c)
  \/ \E u \in User : Leave(u)

Spec == Init /\ [][Next]_vars
=============================================================================
