------------------------------- MODULE LogHub -------------------------------
(***************************************************************************)
(* LogHub of src/src/src/console/mod.rs and the stream a viewer gets from  *)
(* it (log_stream in src/src/src/routes/console.rs): a bounded backlog for *)
(* those who come late, a broadcast channel for those who are there, and a *)
(* lock that makes the two agree.  tokio's broadcast channel keeps the     *)
(* last Channel lines; a receiver that is further behind is told how many  *)
(* it lost and goes on with the oldest one kept.                           *)
(***************************************************************************)
EXTENDS Integers, Sequences

CONSTANTS
  Text,      \* the lines that may be pushed
  Viewer,    \* the streams that may be open
  Capacity,  \* lines the backlog keeps
  Channel    \* CHANNEL_CAPACITY

(* What a viewer has in the place of a line it was told it missed.         *)
Gap == <<>>

ASSUME HubAssumption ==
  /\ Gap \notin Text
  /\ Capacity \in Nat \ {0}
  /\ Channel \in Nat \ {0}

VARIABLES
  backlog,   \* LogHub.backlog: the last lines pushed
  sent,      \* every line the channel carried, oldest first
  writing,   \* the line of the push that holds the write lock, if any
  viewing,      \* where a viewer is; "copy" holds the read lock
  next,      \* lines its receiver has had or skipped, of those sent
  screen     \* what its stream has delivered, Gap for a missed line

hubVars == <<backlog, sent, writing, viewing, next, screen>>

ConnState == {"off", "copy", "on"}

HubTypeOK ==
  /\ backlog \in Seq(Text)
  /\ sent \in Seq(Text)
  /\ writing \in Seq(Text) /\ Len(writing) <= 1
  /\ viewing \in [Viewer -> ConnState]
  /\ next \in [Viewer -> Nat]
  /\ screen \in [Viewer -> Seq(Text \cup {Gap})]

HubInit ==
  /\ backlog = <<>>
  /\ sent = <<>>
  /\ writing = <<>>
  /\ viewing = [v \in Viewer |-> "off"]
  /\ next = [v \in Viewer |-> 0]
  /\ screen = [v \in Viewer |-> <<>>]

----------------------------------------------------------------------------
(* push, while it holds the write lock: first the backlog, evicting the    *)
(* oldest line of a full one, ...                                          *)
Evicted ==
  IF Len(backlog) < Capacity
    THEN backlog
    ELSE SubSeq(backlog, Len(backlog) - Capacity + 2, Len(backlog))

PushAppend(t) ==
  /\ writing = <<>>
  /\ \A v \in Viewer : viewing[v] # "copy"
  /\ backlog' = Append(Evicted, t)
  /\ writing' = <<t>>
  /\ UNCHANGED <<sent, viewing, next, screen>>

(* ... then the channel.                                                   *)
PushSend ==
  /\ writing # <<>>
  /\ sent' = sent \o writing
  /\ writing' = <<>>
  /\ UNCHANGED <<backlog, viewing, next, screen>>

(* subscribe: under the read lock a receiver is taken, ...                 *)
SubscribeReceiver_NoLock(v) ==
  /\ viewing[v] = "off"
  /\ viewing' = [viewing EXCEPT ![v] = "copy"]
  /\ next' = [next EXCEPT ![v] = Len(sent)]
  /\ UNCHANGED <<backlog, sent, writing, screen>>

SubscribeReceiver(v) ==
  /\ viewing[v] = "off"
  /\ writing = <<>>
  /\ viewing' = [viewing EXCEPT ![v] = "copy"]
  /\ next' = [next EXCEPT ![v] = Len(sent)]
  /\ UNCHANGED <<backlog, sent, writing, screen>>

(* ... then the backlog is copied, which is the first frame of the stream. *)
SubscribeCopy(v) ==
  /\ viewing[v] = "copy"
  /\ viewing' = [viewing EXCEPT ![v] = "on"]
  /\ screen' = [screen EXCEPT ![v] = backlog]
  /\ UNCHANGED <<backlog, sent, writing, next>>

(* recv: the next line, ...                                                *)
Behind(v) == Len(sent) - next[v]

ReceiveLine(v) ==
  /\ viewing[v] = "on"
  /\ Behind(v) \in 1 .. Channel
  /\ screen' = [screen EXCEPT ![v] = Append(@, sent[next[v] + 1])]
  /\ next' = [next EXCEPT ![v] = @ + 1]
  /\ UNCHANGED <<backlog, sent, writing, viewing>>

(* ... or RecvError::Lagged, which the stream shows as a comment with the  *)
(* number of lines lost.                                                   *)
ReceiveLagged_Silent(v) ==
  /\ viewing[v] = "on"
  /\ Behind(v) > Channel
  /\ next' = [next EXCEPT ![v] = Len(sent) - Channel]
  /\ UNCHANGED <<backlog, sent, writing, viewing, screen>>

ReceiveLagged_Ends(v) ==
  /\ viewing[v] = "on"
  /\ Behind(v) > Channel
  /\ UNCHANGED hubVars

ReceiveLagged(v) ==
  /\ viewing[v] = "on"
  /\ Behind(v) > Channel
  /\ screen' = [screen EXCEPT ![v] =
                  @ \o [i \in 1 .. Behind(v) - Channel |-> Gap]]
  /\ next' = [next EXCEPT ![v] = Len(sent) - Channel]
  /\ UNCHANGED <<backlog, sent, writing, viewing>>

(* The viewer closes the stream, or its connection is lost.                *)
Leave(v) ==
  /\ viewing[v] = "on"
  /\ viewing' = [viewing EXCEPT ![v] = "off"]
  /\ next' = [next EXCEPT ![v] = 0]
  /\ screen' = [screen EXCEPT ![v] = <<>>]
  /\ UNCHANGED <<backlog, sent, writing>>

----------------------------------------------------------------------------
ViewerStep(v) ==
  \/ SubscribeReceiver(v) \/ SubscribeCopy(v)
  \/ ReceiveLine(v) \/ ReceiveLagged(v) \/ Leave(v)

HubNext ==
  \/ \E t \in Text : PushAppend(t)
  \/ PushSend
  \/ \E v \in Viewer : ViewerStep(v)

HubSpec == HubInit /\ [][HubNext]_hubVars

----------------------------------------------------------------------------
(* What a viewer has seen, backlog and live lines together, is a run of    *)
(* the lines of the hub without a line twice, out of order or missing,     *)
(* except those it was told of: the handover in subscribe loses nothing    *)
(* and repeats nothing.                                                    *)
StreamIsLog ==
  \A v \in Viewer : viewing[v] = "on" =>
    /\ Len(screen[v]) <= next[v] /\ next[v] <= Len(sent)
    /\ \A i \in 1 .. Len(screen[v]) :
         screen[v][i] \in {Gap, sent[next[v] - Len(screen[v]) + i]}

(* A viewer that stays is brought up to date with the hub again and again. *)
ViewersCatchUp ==
  \A v \in Viewer : []<>(viewing[v] = "on" => next[v] = Len(sent))
=============================================================================
