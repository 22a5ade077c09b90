------------------------------ MODULE Presence ------------------------------
(***************************************************************************)
(* Who is on the game server, as the panel knows it: a set kept from the   *)
(* log lines the console tails, and reconciled now and then with the       *)
(* server's own answer to `list`, which is cached and asked for by one     *)
(* request at a time.  The game server, its log and its clock are external.*)
(*                                                                         *)
(* Requests come in sizes: a load names what each request does and how     *)
(* much may happen around them.                                            *)
(***************************************************************************)
EXTENDS Naturals, Sequences, FiniteSets

CONSTANTS
  Request, Name, None,
  Channel,               \* lines the broadcast keeps for a slow subscriber
  Ttl, Retry, Resync,    \* SNAPSHOT_TTL, RETRY_AFTER, RESYNC_AFTER in ticks
  Loads                  \* the loads a run tries

(* How much may happen: players coming and going, failures, saves, edits.  *)
Budgets == {"changes", "faults", "saves", "edits"}

ASSUME TimesAssumption ==
  Channel \in Nat \ {0} /\ Ttl \in Nat \ {0} /\ Retry \in Nat /\ Resync \in Nat

ASSUME LoadsAssumption ==
  /\ IsFiniteSet(Name) /\ None \notin Request \cup Nat
  /\ \A w \in Loads : w.names \subseteq Name /\ \A k \in Budgets : w[k] \in Nat

VARIABLES
  load,        \* what each request does, who may play, whether time
               \* passes, whether a reconcile is behind the start, and
               \* how much may happen: fixed at the start
  spent,       \* how much of it is used up
  joined,      \* the players really on the server
  lines,       \* log lines the presence task has not read yet
  online,      \* Presence.online
  synced,      \* age of the last successful reconcile, None before the first
  attempted,   \* age of the last attempt
  cached,      \* SnapshotCache.online: an answer and its age, or None
  prober,      \* the request that holds the cache's lock
  call         \* where each request is and what it holds

server == <<joined, lines>>
sync   == <<synced, attempted>>
cache  == <<cached, prober>>
presenceVars == <<load, spent, joined, lines, online, synced, attempted,
                  cached, prober, call>>

Joined(n) == [what |-> "joined", who |-> n]
Left(n)   == [what |-> "left", who |-> n]
Reset     == [what |-> "reset", who |-> None]
Events    == {Joined(n) : n \in Name} \cup {Left(n) : n \in Name} \cup {Reset}

NoAnswer == [names |-> {}, reported |-> None, failed |-> FALSE]
Answers  == [names : SUBSET Name, reported : {None} \cup 0 .. Cardinality(Name),
             failed : BOOLEAN]

Ages(limit) == {None} \cup 0 .. limit

(* Where a request can be; the last two lines are in module PlayerFile.    *)
Steps == {"idle", "start", "lock", "list", "list again", "adopt", "stamp", "names",
          "invalidate", "listed",
          "begin", "stat", "read", "recheck", "backup", "open", "write", "rename",
          "settle", "view", "view old"}

Idle == [at |-> "idle", answer |-> NoAnswer, names |-> {}]

Spend(what) ==
  /\ spent[what] < load[what]
  /\ spent' = [spent EXCEPT ![what] = @ + 1]

Goes(q, place) == call' = [call EXCEPT ![q].at = place]

InitPresence ==
  /\ load \in Loads
  /\ spent = [changes |-> 0, faults |-> 0, saves |-> 0, edits |-> 0]
  /\ joined \in SUBSET load.names
  /\ lines = <<>>
  /\ \/ /\ ~load.synced
        /\ online = {} /\ synced = None /\ attempted = None
     \/ /\ load.synced
        /\ online = joined /\ synced = 0 /\ attempted = 0
  /\ cached = None /\ prober = None

-----------------------------------------------------------------------------
(* The game server.  A subscriber too slow for the channel loses the oldest*)
(* line: the task only counts those and goes on with the next.             *)

Log(event) ==
  lines' = IF Len(lines) < Channel THEN Append(lines, event)
                                   ELSE Append(Tail(lines), event)

Join(n) ==
  /\ n \in load.names \ joined
  /\ Spend("changes")
  /\ joined' = joined \cup {n}
  /\ Log(Joined(n))
  /\ UNCHANGED <<load, online, sync, cache, call>>

Leave(n) ==
  /\ n \in joined
  /\ Spend("changes")
  /\ joined' = joined \ {n}
  /\ Log(Left(n))
  /\ UNCHANGED <<load, online, sync, cache, call>>

Restart ==
  /\ Spend("changes")
  /\ joined' = {}
  /\ Log(Reset)
  /\ UNCHANGED <<load, online, sync, cache, call>>

Older(age, limit) == IF age = None \/ age = limit THEN age ELSE age + 1

Tick ==
  /\ load.timed
  /\ synced' = Older(synced, Resync + 1)
  /\ attempted' = Older(attempted, Retry + 1)
  /\ cached' = IF cached = None THEN None
               ELSE [cached EXCEPT !.age = Older(@, Ttl)]
  /\ UNCHANGED <<load, spent, server, online, prober, call>>

-----------------------------------------------------------------------------
(* The presence task folds one line into the set.                          *)
Apply ==
  /\ lines # <<>>
  /\ lines' = Tail(lines)
  /\ LET line == Head(lines) IN
       \/ /\ line.what = "joined"
          /\ online' = online \cup {line.who}
          /\ UNCHANGED sync
       \/ /\ line.what = "left"
          /\ online' = online \ {line.who}
          /\ UNCHANGED sync
       \/ /\ line.what = "reset"
          /\ online' = {}
          /\ synced' = None /\ attempted' = None
  /\ UNCHANGED <<load, spent, joined, cache, call>>

-----------------------------------------------------------------------------
(* Requests.                                                               *)

Begin(q) ==
  /\ call[q].at = "idle"
  /\ \/ load.ops[q] = "poll" /\ Goes(q, "start") /\ UNCHANGED spent
     \/ load.ops[q] = "edit" /\ Goes(q, "start") /\ Spend("edits")
     \/ load.ops[q] = "act" /\ Goes(q, "invalidate") /\ UNCHANGED spent
  /\ UNCHANGED <<load, server, online, sync, cache>>

Over(age, limit) == age = None \/ age > limit

(* Mutant: a set once reconciled is trusted for ever.                      *)
NeedsSyncOnce == synced = None /\ Over(attempted, Retry)

NeedsSync == Over(synced, Resync) /\ Over(attempted, Retry)

StartOnline(q) ==
  /\ call[q].at = "start"
  /\ Goes(q, IF NeedsSync THEN "lock" ELSE "names")
  /\ UNCHANGED <<load, spent, server, online, sync, cache>>

IsFresh == cached # None /\ cached.age < Ttl

(* The lock is held across a refresh, so the others wait for one answer.   *)
LockOnline(q) ==
  /\ call[q].at = "lock"
  /\ prober = None
  /\ \/ /\ IsFresh
        /\ call' = [call EXCEPT ![q].at = "adopt", ![q].answer = cached.answer]
        /\ UNCHANGED prober
     \/ /\ ~IsFresh
        /\ prober' = q
        /\ call' = [call EXCEPT ![q].at = "list", ![q].answer = NoAnswer]
  /\ UNCHANGED <<load, spent, server, online, sync, cached>>

IsReadable(a) == a.names # {} \/ a.reported = 0

IsComplete(a) == IF a.reported = None THEN a.names # {}
                                      ELSE Cardinality(a.names) = a.reported

(* The better of the answers so far and a new one that is not complete.    *)
Better(best, new) ==
  [names    |-> IF Cardinality(new.names) > Cardinality(best.names)
                THEN new.names ELSE best.names,
   reported |-> IF best.reported # None THEN best.reported ELSE new.reported,
   failed   |-> FALSE]

(* What the server says to `list`: everyone, or, when a plugin rewords it, *)
(* part of the names with or without the number.                           *)
FullReply == [names |-> joined, reported |-> Cardinality(joined), failed |-> FALSE]

PoorReplies ==
  {[names |-> part, reported |-> number, failed |-> FALSE] :
     part \in SUBSET joined, number \in {None, Cardinality(joined)}}

Finish(q, answer) ==
  /\ cached' = [age |-> 0, answer |-> answer]
  /\ prober' = None
  /\ call' = [call EXCEPT ![q].at = "adopt", ![q].answer = answer]

(* `list`, and after an answer that does not account for everyone,         *)
(* `minecraft:list`.  Only a failure of the first is an error.             *)
Ask(q) ==
  LET first  == call[q].at = "list"
      best   == call[q].answer
      Carry(a) == IF first THEN /\ call' = [call EXCEPT ![q].at = "list again",
                                                        ![q].answer = a]
                                /\ UNCHANGED cache
                           ELSE Finish(q, a)
      Hear(reply) == IF IsComplete(reply) THEN Finish(q, reply)
                     ELSE Carry(Better(best, reply))
  IN /\ call[q].at \in {"list", "list again"}
     /\ \/ Hear(FullReply) /\ UNCHANGED spent
        \/ Spend("faults") /\ \E reply \in PoorReplies : Hear(reply)
        \/ Spend("faults") /\ Carry([best EXCEPT !.failed = @ \/ first])
     /\ UNCHANGED <<load, server, online, sync>>

(* An answer without names counts only if the server said nobody is on.    *)
Adopt(q) ==
  /\ call[q].at = "adopt"
  /\ LET a == call[q].answer IN
       \/ /\ ~a.failed /\ IsReadable(a)
          /\ online' = a.names
          /\ Goes(q, "stamp")
          /\ UNCHANGED sync
       \/ /\ a.failed \/ ~IsReadable(a)
          /\ attempted' = 0
          /\ Goes(q, "names")
          /\ UNCHANGED <<online, synced>>
  /\ UNCHANGED <<load, spent, server, cache>>

(* The two clocks are set under a lock of their own, after the set.        *)
Stamp(q) ==
  /\ call[q].at = "stamp"
  /\ synced' = 0 /\ attempted' = 0
  /\ Goes(q, "names")
  /\ UNCHANGED <<load, spent, server, online, cache>>

Names(q) ==
  /\ call[q].at = "names"
  /\ \/ /\ load.ops[q] = "poll"
        /\ call' = [call EXCEPT ![q] = Idle]
     \/ /\ load.ops[q] = "edit"
        /\ call' = [call EXCEPT ![q].at = "listed", ![q].names = online]
  /\ UNCHANGED <<load, spent, server, online, sync, cache>>

(* A player action ends by dropping the cached answer, waiting for a probe *)
(* in flight rather than overtaking it.                                    *)
Invalidate(q) ==
  /\ call[q].at = "invalidate"
  /\ prober = None
  /\ cached' = None
  /\ call' = [call EXCEPT ![q] = Idle]
  /\ UNCHANGED <<load, spent, server, online, sync, prober>>

(* The browser goes away: the handler is dropped where it waits, and a     *)
(* probe's lock with it.                                                   *)
Drop(q) ==
  /\ call[q].at \in {"lock", "list", "list again", "invalidate"}
  /\ Spend("faults")
  /\ prober' = IF prober = q THEN None ELSE prober
  /\ call' = [call EXCEPT ![q] = Idle]
  /\ UNCHANGED <<load, server, online, sync, cached>>

OnlineStep(q) ==
  \/ Begin(q) \/ StartOnline(q) \/ LockOnline(q) \/ Ask(q)
  \/ Adopt(q) \/ Stamp(q) \/ Names(q) \/ Invalidate(q)

-----------------------------------------------------------------------------
PresenceTypeOK ==
  /\ load \in Loads
  /\ spent \in [Budgets -> Nat] /\ \A k \in Budgets : spent[k] <= load[k]
  /\ joined \subseteq Name /\ online \subseteq Name
  /\ lines \in Seq(Events) /\ Len(lines) <= Channel
  /\ synced \in Ages(Resync + 1) /\ attempted \in Ages(Retry + 1)
  /\ cached \in {None} \cup [age : 0 .. Ttl, answer : Answers]
  /\ prober \in Request \cup {None}
  /\ call \in [Request -> [at : Steps, answer : Answers, names : SUBSET Name]]
  /\ \A q \in Request : (prober = q) <=> call[q].at \in {"list", "list again"}

(* The set follows the server (the module comment of presence.rs): whatever*)
(* lines were lost and however late answers were adopted, once players     *)
(* stop coming and going the panel ends up showing exactly who is on, as   *)
(* long as somebody keeps asking and the server can be asked.              *)
OnlineCatchesUp ==
  (\E q \in Request : load.ops[q] = "poll") => <>[](online = joined)
=============================================================================
