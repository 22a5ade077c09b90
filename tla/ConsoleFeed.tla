----------------------------- MODULE ConsoleFeed -----------------------------
(***************************************************************************)
(* The commands of operators and the console that shows them: run_command, *)
(* stream_log and log_stream of src/src/src/routes/console.rs, with the    *)
(* records of src/src/src/console/audit.rs.  A command is recorded in a    *)
(* table, run over RCON, settled and announced; a console shows the log of *)
(* the server and the announcements, which come from two hubs, in one      *)
(* stream.  A push and a subscription are each one step here: LogHub shows *)
(* that the lock of a hub makes them so.                                   *)
(***************************************************************************)
EXTENDS Integers, Sequences, FiniteSets

CONSTANTS
  Request, Viewer, None,
  Keeps,         \* by hub, the lines its backlog keeps
  Channel,       \* CHANNEL_CAPACITY
  MaxLog,        \* bound on the lines of the server's log
  MaxCommands,   \* bound on the commands ever recorded
  MaxTroubles    \* bound on failing statements and restarts

Hubs == {"log", "audit"}

ASSUME FeedAssumption ==
  /\ Keeps \in [Hubs -> Nat \ {0}] /\ Channel \in Nat \ {0}
  /\ MaxLog \in Nat /\ MaxCommands \in Nat /\ MaxTroubles \in Nat
  /\ None \notin Nat \cup {"ok", "failed"}

VARIABLES
  seq,       \* SEQUENCE
  backlog,   \* LogHub.backlog, by hub
  pushed,    \* the lines of both hubs since the start: history
  file,      \* the server's log, each line the command behind it, or None
  read,      \* the lines of it that the tailer has pushed
  rows,      \* console_audit: the outcome of each row
  call,      \* run_command, by request
  feed,      \* log_stream, by viewer; told: the hubs whose loss it reported
  troubles

hubs == <<seq, backlog, pushed>>
vars == <<hubs, file, read, rows, call, feed, troubles>>

Idle == [at |-> "idle", row |-> 0, outcome |-> None]
Silence == [h \in Hubs |-> << >>]
Off == [at |-> "off", hears |-> {}, since |-> 0, queue |-> Silence, shown |-> << >>,
        told |-> {}]
LinesOf(s) == {s[i] : i \in DOMAIN s}

TypeOK ==
  /\ seq = Len(pushed)
  /\ \A h \in Hubs : Len(backlog[h]) <= Keeps[h]
  /\ read \in 0 .. Len(file) /\ Len(file) <= MaxLog
  /\ rows \in Seq({"pending", "ok", "failed"}) /\ Len(rows) <= MaxCommands
  /\ \A q \in Request : call[q].at \in {"idle", "run", "settle", "announce"}
  /\ \A v \in Viewer : feed[v].at \in {"off", "half", "on"} /\ feed[v].hears \subseteq Hubs
                        /\ feed[v].told \subseteq Hubs
  /\ troubles \in 0 .. MaxTroubles

Init ==
  /\ seq = 0 /\ backlog = Silence /\ pushed = << >>
  /\ file = << >> /\ read = 0
  /\ rows = << >>
  /\ call = [q \in Request |-> Idle]
  /\ feed = [v \in Viewer |-> Off]
  /\ troubles = 0

Trouble == troubles < MaxTroubles /\ troubles' = troubles + 1

-----------------------------------------------------------------------------
(* The hubs.                                                               *)

Line(h, row, outcome) == [seq |-> seq, hub |-> h, row |-> row, outcome |-> outcome]

LastOf(n, lines) == SubSeq(lines, IF Len(lines) > n THEN Len(lines) - n + 1 ELSE 1, Len(lines))

Hear(f, h, line) ==
  IF h \in f.hears THEN [f EXCEPT !.queue[h] = Append(@, line)] ELSE f

(* LogHub::push: the line takes its place among those of every hub.        *)
Push(h, line) ==
  /\ seq' = seq + 1
  /\ backlog' = [backlog EXCEPT ![h] = Append(LastOf(Keeps[h] - 1, @), line)]
  /\ pushed' = Append(pushed, line)
  /\ feed' = [v \in Viewer |-> Hear(feed[v], h, line)]

(* The server prints a line of its own.                                    *)
Chatter ==
  /\ Len(file) < MaxLog
  /\ file' = Append(file, None)
  /\ UNCHANGED <<hubs, read, rows, call, feed, troubles>>

(* The tailer pushes the next line of the log.                             *)
Follow ==
  /\ read < Len(file)
  /\ Push("log", Line("log", file[read + 1], None))
  /\ read' = read + 1
  /\ UNCHANGED <<file, rows, call, troubles>>

-----------------------------------------------------------------------------
(* A command: recorded, or refused, ...                                    *)
Begin(q) ==
  /\ call[q] = Idle /\ Len(rows) < MaxCommands
  /\ rows' = Append(rows, "pending")
  /\ call' = [call EXCEPT ![q] = [at |-> "run", row |-> Len(rows) + 1, outcome |-> None]]
  /\ UNCHANGED <<hubs, file, read, feed, troubles>>

(* Mutant: a command that could not be recorded runs all the same.         *)
BeginFails_RunsIt(q) ==
  /\ call[q] = Idle /\ Len(rows) < MaxCommands
  /\ Trouble
  /\ call' = [call EXCEPT ![q] = [at |-> "run", row |-> 0, outcome |-> None]]
  /\ UNCHANGED <<hubs, file, read, rows, feed>>

BeginFails(q) ==
  /\ call[q] = Idle /\ Len(rows) < MaxCommands
  /\ Trouble
  /\ UNCHANGED <<hubs, file, read, rows, call, feed>>

(* ... run, which may fail before the server ran it or after, ...          *)
Run(q) ==
  /\ call[q].at = "run"
  /\ \/ /\ Len(file) < MaxLog
        /\ file' = Append(file, call[q].row)
        /\ \E outcome \in {"ok", "failed"} :
             call' = [call EXCEPT ![q].at = "settle", ![q].outcome = outcome]
     \/ /\ call' = [call EXCEPT ![q].at = "settle", ![q].outcome = "failed"]
        /\ UNCHANGED file
  /\ UNCHANGED <<hubs, read, rows, feed, troubles>>

(* ... settled, unless the table fails, ...                                *)
Finish(q) ==
  /\ call[q].at = "settle"
  /\ \/ rows' = [rows EXCEPT ![call[q].row] = call[q].outcome] /\ UNCHANGED troubles
     \/ Trouble /\ UNCHANGED rows
  /\ call' = [call EXCEPT ![q].at = "announce"]
  /\ UNCHANGED <<hubs, file, read, feed>>

(* Mutant: whatever came of it is announced as done.                       *)
Announce_AsDone(q) ==
  /\ call[q].at = "announce"
  /\ Push("audit", Line("audit", call[q].row, "ok"))
  /\ call' = [call EXCEPT ![q] = Idle]
  /\ UNCHANGED <<file, read, rows, troubles>>

(* ... and announced.                                                      *)
Announce(q) ==
  /\ call[q].at = "announce"
  /\ Push("audit", Line("audit", call[q].row, call[q].outcome))
  /\ call' = [call EXCEPT ![q] = Idle]
  /\ UNCHANGED <<file, read, rows, troubles>>

(* The operator's browser goes away, and the handler with it.              *)
Drop(q) ==
  /\ call[q] # Idle
  /\ call' = [call EXCEPT ![q] = Idle]
  /\ UNCHANGED <<hubs, file, read, rows, feed, troubles>>

-----------------------------------------------------------------------------
(* stream_log: a subscription to the log, and then one to the audit.       *)
SubscribeLog(v) ==
  /\ feed[v] = Off
  /\ feed' = [feed EXCEPT ![v] = [at |-> "half", hears |-> {"log"}, since |-> seq,
                                  queue |-> Silence, shown |-> backlog["log"], told |-> {}]]
  /\ UNCHANGED <<hubs, file, read, rows, call, troubles>>

(* Mutant: the announcements in a block after the log.                     *)
Merged_Grouped(log, audit) == log \o audit

(* The first frame: both backlogs in the order their lines arrived in.     *)
Merged(log, audit) ==
  LET lines == LinesOf(log) \cup LinesOf(audit)
      Earlier(x) == {y \in lines : y.seq < x.seq}
  IN [i \in 1 .. Cardinality(lines) |-> CHOOSE x \in lines : Cardinality(Earlier(x)) = i - 1]

SubscribeAudit(v) ==
  /\ feed[v].at = "half"
  /\ feed' = [feed EXCEPT ![v].at = "on", ![v].hears = Hubs,
                          ![v].shown = Merged(@, backlog["audit"])]
  /\ UNCHANGED <<hubs, file, read, rows, call, troubles>>

(* log_stream: the next line of either hub, or a notice that some were     *)
(* lost.                                                                   *)
Receive(v, h) ==
  /\ feed[v].at = "on" /\ Len(feed[v].queue[h]) \in 1 .. Channel
  /\ feed' = [feed EXCEPT ![v].shown = Append(@, Head(feed[v].queue[h])), ![v].queue[h] = Tail(@)]
  /\ UNCHANGED <<hubs, file, read, rows, call, troubles>>

(* Mutant: the lines that were lost are passed over in silence.            *)
Lag_Silent(v, h) ==
  /\ feed[v].at = "on" /\ Len(feed[v].queue[h]) > Channel
  /\ feed' = [feed EXCEPT ![v].queue[h] = LastOf(Channel, @)]
  /\ UNCHANGED <<hubs, file, read, rows, call, troubles>>

Lag(v, h) ==
  /\ feed[v].at = "on" /\ Len(feed[v].queue[h]) > Channel
  /\ feed' = [feed EXCEPT ![v].queue[h] = LastOf(Channel, @),
                          ![v].told = @ \cup {h}]
  /\ UNCHANGED <<hubs, file, read, rows, call, troubles>>

Leave(v) ==
  /\ feed[v].at = "on"
  /\ feed' = [feed EXCEPT ![v] = Off]
  /\ UNCHANGED <<hubs, file, read, rows, call, troubles>>

(* The service starts anew: the hubs are empty, and the tailer begins      *)
(* somewhere before the end of the log.                                    *)
Restart ==
  /\ Trouble
  /\ seq' = 0 /\ backlog' = Silence /\ pushed' = << >>
  /\ read' \in 0 .. Len(file)
  /\ call' = [q \in Request |-> Idle]
  /\ feed' = [v \in Viewer |-> Off]
  /\ UNCHANGED <<file, rows>>

Next ==
  \/ Chatter \/ Follow \/ Restart
  \/ \E q \in Request : \/ Begin(q) \/ BeginFails(q) \/ Run(q) \/ Finish(q)
                        \/ Announce(q) \/ Drop(q)
  \/ \E v \in Viewer : \/ SubscribeLog(v) \/ SubscribeAudit(v) \/ Leave(v)
                       \/ \E h \in Hubs : Receive(v, h) \/ Lag(v, h)

Spec == Init /\ [][Next]_vars

-----------------------------------------------------------------------------
(* A console shows no line twice, the lines of each hub in their order,    *)
(* and all that had arrived when it connected in the order it arrived in   *)
(* and before anything later, although its two subscriptions and its two   *)
(* channels know nothing of each other (log_stream, LogHub::push).         *)
OldLinesFirst ==
  \A v \in Viewer : feed[v].at = "on" =>
    \A i, j \in DOMAIN feed[v].shown : i < j =>
      LET x == feed[v].shown[i]
          y == feed[v].shown[j]
      IN x.seq < y.seq \/ (x.hub # y.hub /\ y.seq >= feed[v].since /\ x.seq > y.seq)

(* Nor is a line lost on the way: of a hub that has sent no notice, a      *)
(* console has, or will have next, every line but those that were too old  *)
(* for the backlog, with as many newer ones as the backlog keeps.          *)
Held(v, h) == {x \in LinesOf(feed[v].shown) \cup LinesOf(feed[v].queue[h]) : x.hub = h}

NoneMissed ==
  \A v \in Viewer : feed[v].at = "on" =>
    \A h \in Hubs \ feed[v].told : \A x \in LinesOf(pushed) :
      x.hub = h /\ x \notin Held(v, h) =>
        /\ \A y \in Held(v, h) : x.seq < y.seq
        /\ Cardinality(Held(v, h)) >= Keeps[h]

(* What the server ran for an operator is on record, and a command is      *)
(* announced once, as what came of it and as its row says if its row could *)
(* be settled: whichever step fails, is dropped or dies (audit::begin,     *)
(* settle, finish).                                                        *)
Ran == LinesOf(file) \ {None}
Announced == {i \in DOMAIN pushed : pushed[i].hub = "audit"}

AttributionHolds ==
  /\ Ran \subseteq DOMAIN rows
  /\ \A r \in DOMAIN rows : rows[r] = "ok" => r \in Ran
  /\ \A i \in Announced :
       /\ pushed[i].outcome = "ok" => pushed[i].row \in Ran
       /\ rows[pushed[i].row] \in {pushed[i].outcome, "pending"}
       /\ \A j \in Announced : pushed[j].row = pushed[i].row => i = j

(* The console tells what was done, by whom and in which order.            *)
FeedIsTrue == OldLinesFirst /\ NoneMissed /\ AttributionHolds
=============================================================================
