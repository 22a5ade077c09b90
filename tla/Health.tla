------------------------------- MODULE Health -------------------------------
(***************************************************************************)
(* The health of the game server as the panel shows it: a cached probe of  *)
(* the server, asked for by one request at a time; the reading the sidecar *)
(* publishes, which is believed for a while; and its word on whether the   *)
(* server runs.  An action an operator takes drops the cache when it is    *)
(* done.  The server, the sidecar and the clock are external.              *)
(***************************************************************************)
EXTENDS Readings, FiniteSets

CONSTANTS
  Request,
  Operator,         \* the requests that are actions of an operator
  Loads,            \* what a run tries: the server, docker's units, the cores
                    \* it knows, the requests, whether the sidecar works, and
                    \* bounds on the time, the changes and the browsers
                    \* that go away
  Figures,          \* what there is to measure, version after version
  Ttl, MaxAge       \* SNAPSHOT_TTL and STATS_MAX_AGE in ticks

TimesAssumption == Ttl \in Nat \ {0} /\ MaxAge \in Nat

VARIABLES
  load,        \* fixed at the start
  clock,
  since,       \* when each version of the figures began, so far
  up,          \* the server runs and answers
  sidecar,     \* what it publishes next, "status" or "stats", or "dead"
  stats,       \* its stats file: a line and when it was written, or None
  status,      \* its status file
  entry,       \* SnapshotCache.health: an answer and when it was stored, or None
  holder,      \* who holds the lock of the cache
  settled,     \* the version the last finished action made
  asked,       \* when commands went out since the cache was last dropped
  drops,
  call

world == <<since, up, sidecar, stats, status>>
cache == <<entry, holder>>
notes == <<settled, asked, drops>>
vars  == <<load, clock, world, cache, notes, call>>

Version == Len(since)
Now == Figures[Version]
Default == [tps |-> None, heap |-> None, error |-> FALSE, began |-> 0, oldest |-> 0, at |-> 0]
Idle == [at |-> "idle", began |-> 0, least |-> 0, made |-> 0, health |-> Default,
         container |-> None, checked |-> 0, status |-> None]

-----------------------------------------------------------------------------
(* Around the service.                                                     *)

Tick ==
  /\ clock < load.time /\ clock' = clock + 1
  /\ UNCHANGED <<load, world, cache, notes, call>>

Begins == Version <= load.changes /\ since' = Append(since, clock)

Change ==
  /\ Begins
  /\ UNCHANGED <<load, clock, up, sidecar, stats, status, cache, notes, call>>

StopOrStart ==
  /\ up' = ~up
  /\ Begins
  /\ UNCHANGED <<load, clock, sidecar, stats, status, cache, notes, call>>

(* docker's words for a size: whole numbers of the largest unit that fits. *)
Units == [binary  |-> <<"b", "kib", "mib", "gib">>,
          decimal |-> <<"b", "kb", "mb", "gb">>]
Base == IF load.units = "binary" THEN 1024 ELSE 1000
Fits(bytes) == {k \in 0 .. 3 : k = 0 \/ Base ^ k <= bytes}
Largest(bytes) == CHOOSE k \in Fits(bytes) : \A j \in Fits(bytes) : j <= k
Unit(bytes) == Base ^ Largest(bytes)
Size(bytes) == [number |-> bytes \div Unit(bytes), unit |-> Units[load.units][Largest(bytes) + 1]]

(* The sidecar publishes in turn whether the container runs, or "unknown"  *)
(* when docker inspect fails, ...                                          *)
PublishStatus ==
  /\ sidecar = "status" /\ load.sidecar
  /\ status' \in {IF up THEN "true" ELSE "false", "unknown"}
  /\ sidecar' = "stats"
  /\ UNCHANGED <<load, clock, since, up, stats, cache, notes, call>>

(* ... and what it uses, of a stopped container zeroes; when docker stats  *)
(* fails there is no stats file.                                           *)
PublishStats ==
  /\ sidecar = "stats" /\ load.sidecar
  /\ stats' \in {None, [at |-> clock,
                        line |-> [cpu |-> IF up THEN Now.cpu ELSE 0,
                                  used |-> Size(IF up THEN Now.used ELSE 0),
                                  limit |-> Size(IF up THEN Now.limit ELSE 0),
                                  cores |-> load.cores]]}
  /\ sidecar' = "status"
  /\ UNCHANGED <<load, clock, since, up, status, cache, notes, call>>

Die ==
  /\ sidecar # "dead" /\ load.sidecar /\ sidecar' = "dead"
  /\ UNCHANGED <<load, clock, since, up, stats, status, cache, notes, call>>

-----------------------------------------------------------------------------
(* The cached probe.                                                       *)

Goes(q, place) == call' = [call EXCEPT ![q].at = place]

Begin(q) ==
  /\ call[q].at = "idle" /\ q \in load.requests
  /\ call' = [call EXCEPT ![q] = [Idle EXCEPT !.at = IF q \in Operator THEN "act" ELSE "lock",
                                              !.began = clock, !.least = settled]]
  /\ UNCHANGED <<load, clock, world, cache, notes>>

Fresh == entry # None /\ clock - entry.at < Ttl

(* Mutant: the lock is only taken to look.                                 *)
LockHealthBriefly(q) ==
  /\ call[q].at = "lock" /\ holder = None
  /\ call' = [call EXCEPT ![q].at = IF Fresh THEN "meta"
                                    ELSE IF load.kind = "unconfigured" THEN "store" ELSE "first",
                          ![q].health = IF Fresh THEN entry ELSE [Default EXCEPT !.began = clock]]
  /\ UNCHANGED <<load, clock, world, cache, notes>>

LockHealth(q) ==
  /\ call[q].at = "lock" /\ holder = None
  /\ \/ /\ Fresh
        /\ call' = [call EXCEPT ![q].at = "meta", ![q].health = entry]
        /\ UNCHANGED holder
     \/ /\ ~Fresh
        /\ holder' = q
        /\ call' = [call EXCEPT ![q].at = IF load.kind = "unconfigured" THEN "store" ELSE "first",
                                ![q].health = [Default EXCEPT !.began = clock, !.oldest = Version,
                                                              !.error = load.kind = "unconfigured"]]
  /\ UNCHANGED <<load, clock, world, entry, notes>>

Command(place) == IF place = "first" THEN "essentials:tps" ELSE "tps"

(* One command of the probe.  Only the first one's failure is reported.    *)
Ask(q) ==
  LET place  == call[q].at
      health == call[q].health
      reply  == Reply(load.kind, Command(place), Now)
      heard  == [health EXCEPT !.tps = IF @ = None THEN ParseTps(reply) ELSE @,
                               !.heap = IF @ = None THEN ParseHeap(reply) ELSE @,
                               !.oldest = IF place = "first" THEN Version ELSE @]
      whole  == heard.tps # None /\ heard.heap # None
  IN /\ place \in {"first", "second"}
     /\ asked' = Append(asked, clock)
     /\ \/ /\ up
           /\ call' = [call EXCEPT ![q].health = heard,
                                   ![q].at = IF place = "first" /\ ~whole THEN "second" ELSE "store"]
        \/ call' = [call EXCEPT ![q].health = IF place = "first"
                                               THEN [health EXCEPT !.error = TRUE, !.oldest = Version]
                                               ELSE health,
                                ![q].at = "store"]
     /\ UNCHANGED <<load, clock, world, cache, settled, drops>>

Store(q) ==
  /\ call[q].at = "store"
  /\ LET fresh == [call[q].health EXCEPT !.at = clock]
     IN entry' = fresh /\ call' = [call EXCEPT ![q].at = "meta", ![q].health = fresh]
  /\ holder' = None
  /\ UNCHANGED <<load, clock, world, notes>>

-----------------------------------------------------------------------------
(* The rest of server_stats.                                               *)

(* Mutant: a reading is good however old.                                  *)
ReadMetaAnyAge(q) ==
  /\ call[q].at = "meta"
  /\ call' = [call EXCEPT ![q].checked = clock,
                          ![q].at = IF stats = None THEN "power" ELSE "read"]
  /\ UNCHANGED <<load, clock, world, cache, notes>>

ReadMeta(q) ==
  /\ call[q].at = "meta"
  /\ call' = [call EXCEPT ![q].checked = clock,
                          ![q].at = IF stats = None \/ clock - stats.at > MaxAge
                                    THEN "power" ELSE "read"]
  /\ UNCHANGED <<load, clock, world, cache, notes>>

ReadStats(q) ==
  /\ call[q].at = "read"
  /\ call' = [call EXCEPT ![q].at = "power",
                ![q].container = IF stats = None THEN None ELSE ParseContainerStats(stats.line)]
  /\ UNCHANGED <<load, clock, world, cache, notes>>

(* control::status: a missing file is "unknown".                           *)
ReadStatus(q) ==
  /\ call[q].at = "power"
  /\ call' = [call EXCEPT ![q].at = "done",
                ![q].status = CASE status = "true"  -> "running"
                                [] status = "false" -> "stopped"
                                [] OTHER            -> "unknown"]
  /\ UNCHANGED <<load, clock, world, cache, notes>>

-----------------------------------------------------------------------------
(* An operator's action: the command, then the cache of the health and the *)
(* cache of the names are dropped, each under its lock.  The second one is *)
(* the same again, and left to Presence.                                   *)

Act(q) ==
  /\ call[q].at = "act" /\ up /\ load.kind # "unconfigured"
  /\ Begins
  /\ call' = [call EXCEPT ![q].at = "invalidate", ![q].made = Version + 1]
  /\ UNCHANGED <<load, clock, up, sidecar, stats, status, cache, notes>>

Refuse(q) ==
  /\ call[q].at = "act"
  /\ Goes(q, "done")
  /\ UNCHANGED <<load, clock, world, cache, notes>>

(* Mutant: it does not wait for the probe that is under way.               *)
InvalidateAtOnce(q) ==
  /\ call[q].at = "invalidate"
  /\ entry' = None /\ asked' = << >>
  /\ settled' = IF call[q].made > settled THEN call[q].made ELSE settled
  /\ Goes(q, "done")
  /\ UNCHANGED <<load, clock, world, holder, drops>>

Invalidate(q) ==
  /\ call[q].at = "invalidate" /\ holder = None
  /\ entry' = None /\ asked' = << >>
  /\ settled' = IF call[q].made > settled THEN call[q].made ELSE settled
  /\ Goes(q, "done")
  /\ UNCHANGED <<load, clock, world, holder, drops>>

-----------------------------------------------------------------------------
Close(q) ==
  /\ call[q].at = "done"
  /\ call' = [call EXCEPT ![q] = Idle]
  /\ UNCHANGED <<load, clock, world, cache, notes>>

(* The browser goes away: the handler is dropped, and its lock with it.    *)
Drop(q) ==
  /\ call[q].at \notin {"idle", "done"} /\ drops < load.drops
  /\ drops' = drops + 1
  /\ call' = [call EXCEPT ![q] = Idle]
  /\ holder' = IF holder = q THEN None ELSE holder
  /\ asked' = IF holder = q THEN << >> ELSE asked
  /\ UNCHANGED <<load, clock, world, entry, settled>>

Init ==
  /\ load \in Loads
  /\ clock = 0 /\ since = <<0>> /\ up = TRUE
  /\ sidecar = "status" /\ stats = None /\ status = None
  /\ entry = None /\ holder = None
  /\ settled = 0 /\ asked = << >> /\ drops = 0
  /\ call = [q \in Request |-> Idle]

Outside == Tick \/ Change \/ StopOrStart \/ PublishStatus \/ PublishStats \/ Die \/ \E q \in Request : Drop(q)

Serve(q) ==
  \/ LockHealth(q) \/ Ask(q) \/ Store(q)
  \/ ReadMeta(q) \/ ReadStats(q) \/ ReadStatus(q)
  \/ Act(q) \/ Refuse(q) \/ Invalidate(q) \/ Close(q)

Next == Outside \/ \E q \in Request : Begin(q) \/ Serve(q)

Spec == Init /\ [][Next]_vars

-----------------------------------------------------------------------------
(* Properties.                                                             *)

Shown == {q \in Request \ Operator : call[q].at = "done"}

(* The versions in effect at some moment from one time to another.         *)
During(from, to) ==
  {v \in 1 .. Version : since[v] <= to /\ (v = Version \/ since[v + 1] >= from)}

TrueRates(figures) ==
  {<<figures.tps["1m"], figures.tps["5m"], figures.tps["15m"]>>, <<figures.tps["1m"]>>}

TrueHeap(figures) ==
  Heap(figures.heap.used * 1024, figures.heap.allocated * 1024, figures.heap.max * 1024)

(* The tick rates, window by window, and the heap that are shown were the  *)
(* server's at a moment of the probe that found them, and that probe ended *)
(* less than SNAPSHOT_TTL before the request came, whatever the plugin     *)
(* that answered (SnapshotCache::health, parse_tps, parse_heap).           *)
RatesAreTrue(q) ==
  LET health == call[q].health
      seen   == During(health.began, health.at)
  IN /\ health.at + Ttl > call[q].began
     /\ health.tps # None  => \E v \in seen : health.tps \in TrueRates(Figures[v])
     /\ health.heap # None => \E v \in seen : health.heap = TrueHeap(Figures[v])

Says(shown, bytes) == shown <= bytes /\ bytes - shown < Unit(bytes)

(* The container figures that are shown were true at most STATS_MAX_AGE    *)
(* before their age was checked, of a container that ran, in bytes to the  *)
(* unit docker words them in, binary or decimal; and a share of the host   *)
(* is of its cores (read_container_stats, parse_container_stats).          *)
ContainerIsTrue(q) ==
  LET shown == call[q].container
      from  == IF call[q].checked > MaxAge THEN call[q].checked - MaxAge ELSE 0
  IN shown # None =>
       \E v \in During(from, clock) :
         /\ shown.cpu = Figures[v].cpu
         /\ Says(shown.used, Figures[v].used) /\ Says(shown.limit, Figures[v].limit)
         /\ shown.ofHost = IF load.cores \in {None, 0} THEN None
                          ELSE Figures[v].cpu \div load.cores

(* Every figure on the page was true of the server or its container within *)
(* the age the code allows it.                                             *)
FiguresAreTrue == \A q \in Shown : RatesAreTrue(q) /\ ContainerIsTrue(q)

(* However many ask at once, no three commands go out within SNAPSHOT_TTL, *)
(* unless the cache was dropped or a prober went away (the comment of      *)
(* SnapshotCache: concurrent callers wait on one result).                  *)
CommandsAreFew == \A i \in DOMAIN asked : i + 2 \in DOMAIN asked => asked[i + 2] - asked[i] >= Ttl

(* Who asks after an action was answered sees what it changed              *)
(* (SnapshotCache::invalidate).                                            *)
ActionsShow == \A q \in Shown : call[q].health.oldest >= call[q].least

=============================================================================
