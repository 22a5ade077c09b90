----------------------------- MODULE ConsoleLog -----------------------------
(***************************************************************************)
(* tail_log of src/src/src/console/tail.rs feeding a LogHub: a file that   *)
(* the game server writes, replaces and removes, and a task that looks at  *)
(* its metadata, then reads what is new, cuts it into lines and pushes     *)
(* them.  The file may change between the look and the read.               *)
(*                                                                         *)
(* The content of a file follows from its generation: its bytes are the    *)
(* positions 1, 2, 3, ... of that generation, and every LineSize-th one    *)
(* ends a line.  A line of the hub is the sequence of its bytes, so a line *)
(* put together from two places can be told from one that was written.     *)
(***************************************************************************)
EXTENDS LogHub, FiniteSetsExt, SequencesExt

CONSTANTS
  None,       \* no file, no cursor
  FileId,     \* device and inode numbers
  LineSize,   \* bytes of a line, its end included
  ColdStart,  \* COLD_START_BYTES
  MaxChunk,   \* MAX_CHUNK
  MaxFile,    \* bytes a file may reach (a bound for model checking)
  MaxGen,     \* files there may be (a bound for model checking)
  MaxFaults   \* failing reads of a file that is there (a bound, too)

(* Every line fits in what a first attach reads.                           *)
ASSUME TailAssumption ==
  /\ None \notin FileId
  /\ {LineSize, ColdStart, MaxChunk} \subseteq Nat \ {0}
  /\ LineSize <= ColdStart /\ ColdStart <= MaxChunk
  /\ {MaxFile, MaxGen, MaxFaults} \subseteq Nat

VARIABLES
  file,     \* the file at the path: its id (None when absent), generation, length
  faults,   \* failing reads of a file that was there
  pc,       \* "tick", or "read" once the metadata have been looked at
  cursor,   \* the local of that name
  seen,     \* what the tick decided from the metadata, for the read
  carry,    \* LineSplitter.carry
  todo,     \* lines still to be pushed before the task goes on
  base      \* where the tailer last started afresh: history, never read

tailVars == <<pc, cursor, seen, carry, todo, base>>
vars == <<file, faults, tailVars, hubVars>>

----------------------------------------------------------------------------
Byte(g, i) == [gen |-> g, at |-> i]
Bytes(g, from, to) == [i \in 1 .. to - from |-> Byte(g, from + i)]

(* The lines tail_log pushes of its own accord, told apart from any file's *)
(* by generation 0.                                                        *)
Closed    == <<Byte(0, 1)>>
Rotated   == <<Byte(0, 2)>>
Truncated == <<Byte(0, 3)>>

(* LineSplitter::push: the lines completed in s, and the rest of it.       *)
Ends(s) == {i \in DOMAIN s : s[i].at % LineSize = 0}
LastEnd(s) == Max(Ends(s) \cup {0})

(* The k-th line end in s, or 0 for k = 0, where the first line begins.    *)
End(s, k) ==
  CHOOSE i \in Ends(s) \cup {0} : Cardinality({j \in Ends(s) : j <= i}) = k

Lines(s) ==
  [k \in 1 .. Cardinality(Ends(s)) |-> SubSeq(s, End(s, k - 1) + 1, End(s, k))]

Rest(s) == SubSeq(s, LastEnd(s) + 1, Len(s))

(* What is left of s after its first line end; nothing when it has none.   *)
AfterFirstEnd(s) ==
  IF Ends(s) = {} THEN <<>> ELSE SubSeq(s, Min(Ends(s)) + 1, Len(s))

NoCursor == [id |-> None, pos |-> 0]
NoneSeen == [id |-> None, pos |-> 0, want |-> 0, skip |-> FALSE]

NoBase   == [gen |-> 0, start |-> 0, skip |-> FALSE, count |-> 0,
             begun |-> FALSE]

TypeOK ==
  /\ HubTypeOK
  /\ file \in [id: FileId \cup {None}, gen: 0 .. MaxGen, len: 0 .. MaxFile]
  /\ faults \in 0 .. MaxFaults
  /\ pc \in {"tick", "read"}
  /\ cursor \in [id: FileId \cup {None}, pos: Nat]
  /\ seen \in [id: FileId \cup {None}, pos: Nat, want: 0 .. MaxChunk,
               skip: BOOLEAN]
  /\ carry \in Seq([gen: 1 .. MaxGen, at: 1 .. MaxFile])
  /\ todo \in Seq(Text)
  /\ base \in [gen: 0 .. MaxGen, start: Nat, skip: BOOLEAN, count: Nat,
               begun: BOOLEAN]

Init ==
  /\ HubInit
  /\ file = [id |-> None, gen |-> 0, len |-> 0]
  /\ faults = 0
  /\ pc = "tick"
  /\ cursor = NoCursor
  /\ seen = NoneSeen
  /\ carry = <<>>
  /\ todo = <<>>
  /\ base = NoBase

----------------------------------------------------------------------------
(* The game server writes a byte.                                          *)
Write ==
  /\ file.id # None
  /\ file.len < MaxFile
  /\ file' = [file EXCEPT !.len = @ + 1]
  /\ UNCHANGED <<faults, tailVars, hubVars>>

(* Another log begins at the path: a rotation when its id is new, and a    *)
(* truncation, or a rotation that was given the old inode, when it is not. *)
Replace(id) ==
  /\ file.gen < MaxGen
  /\ file' = [id |-> id, gen |-> file.gen + 1, len |-> 0]
  /\ UNCHANGED <<faults, tailVars, hubVars>>

Vanish ==
  /\ file.id # None
  /\ file' = [file EXCEPT !.id = None]
  /\ UNCHANGED <<faults, tailVars, hubVars>>

----------------------------------------------------------------------------
Idle == todo = <<>> /\ writing = <<>>

(* A tick that finds nothing at the path.                                  *)
StatFails ==
  /\ pc = "tick" /\ Idle
  /\ file.id = None
  /\ todo' = IF cursor = NoCursor THEN <<>> ELSE <<Closed>>
  /\ cursor' = NoCursor
  /\ carry' = <<>>
  /\ base' = NoBase
  /\ UNCHANGED <<file, faults, pc, seen, hubVars>>

(* What a tick does with the metadata: go on at pos, or read nothing.      *)
Follow(pos, skip) ==
  IF file.len <= pos
    THEN /\ cursor' = [id |-> file.id, pos |-> pos]
         /\ UNCHANGED <<pc, seen>>
    ELSE /\ pc' = "read"
         /\ seen' = [id |-> file.id, pos |-> pos, skip |-> skip,
                     want |-> Min({file.len - pos, MaxChunk})]
         /\ UNCHANGED cursor

StartAt_KeepsCarry(pos, skip, notice) ==
  /\ UNCHANGED carry
  /\ todo' = notice
  /\ base' = [gen |-> file.gen, start |-> pos, skip |-> skip,
              count |-> Len(sent) + Len(notice), begun |-> file.len <= pos]
  /\ Follow(pos, skip)

(* The tailer drops its partial line and starts at pos, after a notice.    *)
StartAt(pos, skip, notice) ==
  /\ carry' = <<>>
  /\ todo' = notice
  /\ base' = [gen |-> file.gen, start |-> pos, skip |-> skip,
              count |-> Len(sent) + Len(notice), begun |-> file.len <= pos]
  /\ Follow(pos, skip)

StatAttach ==
  LET start == IF file.len > ColdStart THEN file.len - ColdStart ELSE 0 IN
  /\ cursor = NoCursor
  /\ StartAt(start, start > 0, <<>>)

StatRotated ==
  /\ cursor # NoCursor /\ cursor.id # file.id
  /\ StartAt(0, FALSE, <<Rotated>>)

StatTruncated ==
  /\ cursor.id = file.id /\ file.len < cursor.pos
  /\ StartAt(0, FALSE, <<Truncated>>)

StatFollow ==
  /\ cursor.id = file.id /\ file.len >= cursor.pos
  /\ Follow(cursor.pos, FALSE)
  /\ UNCHANGED <<carry, todo, base>>

Stat ==
  /\ pc = "tick" /\ Idle
  /\ file.id # None
  /\ StatAttach \/ StatRotated \/ StatTruncated \/ StatFollow
  /\ UNCHANGED <<file, faults, hubVars>>

----------------------------------------------------------------------------
(* The file is still the one the tailer started on, and the start has not  *)
(* been lost to a failed read.                                             *)
SameFile == file.id # None /\ base.gen = file.gen
AtStart  == pc = "read" /\ seen.pos = base.start
OnFile   == SameFile /\ (base.begun \/ AtStart)

(* read_delta: whatever is at the path now, from the position decided on   *)
(* before.  An error or an empty answer leaves the cursor for the next     *)
(* tick.                                                                   *)
ReadFails_SkipsAhead ==
  /\ pc = "read" /\ Idle
  /\ \/ file.id = None /\ UNCHANGED faults
     \/ file.id # None /\ faults < MaxFaults /\ faults' = faults + 1
  /\ pc' = "tick"
  /\ seen' = NoneSeen
  /\ cursor' = [id |-> seen.id, pos |-> seen.pos + seen.want]
  /\ UNCHANGED <<file, carry, todo, base, hubVars>>

ReadFails ==
  /\ pc = "read" /\ Idle
  /\ \/ file.id = None /\ UNCHANGED faults
     \/ file.id # None /\ faults < MaxFaults /\ faults' = faults + 1
  /\ pc' = "tick"
  /\ seen' = NoneSeen
  /\ UNCHANGED <<file, cursor, carry, todo, base, hubVars>>

Chunk ==
  IF file.len <= seen.pos
    THEN <<>>
    ELSE Bytes(file.gen, seen.pos, Min({file.len, seen.pos + seen.want}))

Fresh == IF seen.skip THEN AfterFirstEnd(Chunk) ELSE Chunk

ReadEmpty ==
  /\ Chunk = <<>>
  /\ UNCHANGED <<cursor, carry, todo, base>>

(* History: the start is made when a read of it succeeds.                  *)
Begin == base' = [base EXCEPT !.begun = @ \/ AtStart]

ReadChunk ==
  /\ Chunk # <<>>
  /\ Begin
  /\ cursor' = [id |-> seen.id, pos |-> seen.pos + Len(Chunk)]
  /\ todo' = Lines(carry \o Fresh)
  /\ carry' = Rest(carry \o Fresh)

Read ==
  /\ pc = "read" /\ Idle
  /\ file.id # None
  /\ ReadEmpty \/ ReadChunk
  /\ pc' = "tick"
  /\ seen' = NoneSeen
  /\ UNCHANGED <<file, faults, hubVars>>

(* hub.push of the next line.                                              *)
TailAppend ==
  /\ todo # <<>>
  /\ PushAppend(Head(todo))
  /\ todo' = Tail(todo)
  /\ UNCHANGED <<file, faults, pc, cursor, seen, carry, base>>

TailSend ==
  /\ PushSend
  /\ UNCHANGED <<file, faults, tailVars>>

----------------------------------------------------------------------------
TailStep == Stat \/ StatFails \/ Read \/ ReadFails \/ TailAppend \/ TailSend

Watch(v) == ViewerStep(v) /\ UNCHANGED <<file, faults, tailVars>>

Next ==
  \/ Write \/ Vanish \/ \E id \in FileId : Replace(id)
  \/ TailStep
  \/ \E v \in Viewer : Watch(v)

Spec == Init /\ [][Next]_vars

(* The tailer is a task of the runtime and so is every stream; the client  *)
(* reads what it is sent.  The read lock comes and goes, and a writer that *)
(* waits for it is let in before later readers.                            *)
Catches(v) ==
  /\ SubscribeCopy(v) \/ ReceiveLine(v) \/ ReceiveLagged(v)
  /\ UNCHANGED <<file, faults, tailVars>>

FairSpec ==
  /\ Spec
  /\ SF_vars(TailStep)
  /\ \A v \in Viewer : WF_vars(Catches(v))

----------------------------------------------------------------------------
(* How far the tailer has read it.                                         *)
ReadTo == IF pc = "read" THEN seen.pos ELSE cursor.pos

(* The part of it that is not the tail of a line begun before the start.   *)
Kept ==
  LET content == Bytes(base.gen, base.start, ReadTo) IN
  IF base.skip THEN AfterFirstEnd(content) ELSE content

(* While the file is the same, the lines pushed since the start are the    *)
(* lines of what was read, each once, in order and whole, and the splitter *)
(* holds exactly the bytes of the unfinished one: however a line falls     *)
(* across reads, whatever the notices, errors and restarts before, nothing *)
(* of another file is mixed in (tail_log, LineSplitter).                   *)
TailIsFile ==
  OnFile =>
    /\ SubSeq(sent \o writing \o todo, base.count + 1,
              Len(sent) + Len(writing) + Len(todo)) = Lines(Kept)
    /\ carry = Rest(Kept)

(* No finished line of the file that is followed waits for ever to reach   *)
(* the hub, whatever fails meanwhile.  The lines before the place where    *)
(* the tailer started, and the one it started in, are given up (tail_log).  *)
(* And an open stream gets level with the hub again and again.             *)
Waiting(i) ==
  /\ OnFile /\ i <= file.len
  /\ IF base.skip
       THEN i - LineSize > base.start
       ELSE i > base.start
  /\ ~\E k \in DOMAIN sent : Last(sent[k]) = Byte(file.gen, i)

LineEnds == {i \in 1 .. MaxFile : i % LineSize = 0}

LinesArrive == (\A i \in LineEnds : []<>~Waiting(i)) /\ ViewersCatchUp

----------------------------------------------------------------------------
(* What a comment of the code says and the code does not keep.             *)

(* "Leave the cursor untouched so the next tick retries the same offset    *)
(* rather than skipping over unread bytes": until a read at the place the  *)
(* tailer has to start succeeds, no other part of the file is read.        *)
RetriesSameOffset ==
  pc = "read" /\ SameFile /\ ~base.begun => seen.pos = base.start
=============================================================================
