----------------------------- MODULE PollRules -----------------------------
(***************************************************************************)
(* The decisions of a poll that need neither a database nor a request:     *)
(* src/src/src/polls.rs and the pure helpers of src/src/src/routes/polls.rs *)
(* A point in time is a natural number (a tick of the wall clock), a       *)
(* duration or an extension is a number of ticks, and Null is SQL's NULL:  *)
(* the closing time of a permanent poll, the ended_at of one nobody ended. *)
(***************************************************************************)
EXTENDS Integers, FiniteSets

CONSTANTS
  Null,   \* the value of a column that is NULL
  Group   \* the account flags, named by the audience each one opens

ASSUME RulesAssumption ==
  /\ Null \notin Int
  /\ Group \subseteq {"admins", "members", "ogs"}

(* The codes poll_audience may hold (enum Audience).                       *)
Audience == Group \cup {"everyone"}

MinOptions == 2
MaxOptions == 10

----------------------------------------------------------------------------
(* Duration::closes_at: a permanent poll (duration Null) never closes.     *)
ClosesAt(duration, from) ==
  IF duration = Null THEN Null ELSE from + duration

(* polls::is_live.                                                         *)
IsLive(ended, closes, at) ==
  /\ ended = Null
  /\ closes = Null \/ closes > at

(* The WHERE clause of the past half of both listings.                     *)
PastSql(ended, closes, at) ==
  \/ ended # Null
  \/ closes # Null /\ closes <= at

(* ended_early in poll_response.                                           *)
EndedEarly(ended, closes) ==
  /\ ended # Null
  /\ closes = Null \/ ended < closes

(* was_extended; one tick is longer than the second of slack it allows.    *)
WasExtended(duration, created, closes) ==
  /\ closes # Null
  /\ duration # Null
  /\ closes > ClosesAt(duration, created)

----------------------------------------------------------------------------
(* polls::in_audience: any one of the audiences is enough.                 *)
InAudience(audience, flags) ==
  \E a \in audience : a = "everyone" \/ a \in flags

(* audiences_for: the codes list_my_polls puts in its IN (...) list.       *)
AudiencesFor(flags) == {"everyone"} \cup flags

(* validate_new_poll, as far as the rules below depend on it.              *)
NewPollAccepted(options, audience) ==
  /\ Cardinality(options) \in MinOptions .. MaxOptions
  /\ audience # {}

(* normalise_choice: the ids are already a set, duplicates being folded.   *)
ChoiceAccepted(chosen, multiple) ==
  /\ chosen # {}
  /\ multiple \/ Cardinality(chosen) = 1
  /\ Cardinality(chosen) <= MaxOptions

(* polls::percent, in tenths of a percent, rounded half up.                *)
Percent(votes, voters) ==
  IF votes <= 0 \/ voters <= 0
    THEN 0
    ELSE (2000 * votes + voters) \div (2 * voters)

----------------------------------------------------------------------------
(* extension_target: why a poll may not be extended, "none" when it may.   *)
(* The order of the cases is the order of the code's early returns.        *)
ExtendRefusal_AnyPage(ended, closes, seen, at) ==
  CASE ~IsLive(ended, closes, at)                  -> "closed"
    [] IsLive(ended, closes, at) /\ closes = Null  -> "permanent"
    [] OTHER                                       -> "none"

ExtendRefusal(ended, closes, seen, at) ==
  CASE ~IsLive(ended, closes, at)                  -> "closed"
    [] IsLive(ended, closes, at) /\ closes = Null  -> "permanent"
    [] IsLive(ended, closes, at) /\ closes # Null
         /\ closes # seen                          -> "stale"
    [] OTHER                                       -> "none"

(* The new closing time counts from the old one, not from the present.     *)
ExtensionTarget(closes, by) == closes + by
=============================================================================
