-------------------------- MODULE PlayerFileProof --------------------------
(***************************************************************************)
(* Theorems about PlayerFile, for any players, requests, edits, saves and  *)
(* failures: an edit replaces what it read, no edit goes unrecorded, and   *)
(* edits that come one at a time leave no half file.                       *)
(***************************************************************************)
EXTENDS PlayerFile, FiniteSetTheorems, TLAPS

Editing == {"stat", "read", "recheck", "backup", "open", "write", "rename", "settle"}
Holding == {"recheck", "backup", "open", "write", "rename", "settle"}

(* An edit under way has its row, and what it read has only recorded edits.*)
Recorded(file) == file # None => \A q \in file.edits : audit[q] # "none"

RowsFirst ==
  /\ Recorded(dat) /\ Recorded(old) /\ Recorded(bak) /\ Recorded(tmp) /\ Recorded(memory)
  /\ \A q \in Request :
       /\ call[q].at \in Editing => audit[q] # "none"
       /\ Recorded(edit[q].read)
       /\ call[q].at \in Holding => edit[q].read # None

(* As long as nothing has touched dat, an edit holds what is there, and    *)
(* from the backup on so does the backup.                                  *)
Window ==
  \A q \in Request :
    /\ call[q].at \in {"recheck", "backup"} /\ ~edit[q].touched => dat = edit[q].read
    /\ call[q].at \in {"open", "write", "rename"} /\ ~edit[q].touched
         => dat = edit[q].read /\ bak = dat

(* Only requests to edit get near the file, and only then.                 *)
OnlyEdits ==
  \A q \in Request :
    call[q].at \in Editing \cup {"listed", "begin"} => load.ops[q] = "edit"

(* The server saves who it has in memory.                                  *)
SavesSomeone == saving => memory # None

Whole(file) == file # None => file.whole

(* Edits one at a time: whole files everywhere but in the temporary one,   *)
(* which is written to once, after it was emptied.                         *)
OneAtATime ==
  /\ Whole(dat) /\ Whole(old) /\ Whole(memory)
  /\ dat = None => saving /\ old # None
  /\ \A q \in Request :
       /\ Whole(edit[q].read)
       /\ edit[q].fd # None => edit[q].fd = "tmp" /\ call[q].at = "write"
       /\ call[q].at = "write" => edit[q].fd = "tmp" /\ tmp # None /\ ~tmp.whole
       /\ call[q].at = "rename" => tmp # None /\ tmp.whole
       /\ call[q].at = "view old" => old # None
       /\ edit[q].found # "nothing"

Inv == TypeOK /\ RowsFirst /\ Window /\ OnlyEdits /\ SavesSomeone /\ (Alone => OneAtATime)

-----------------------------------------------------------------------------
(* The types of module Presence, by what a step may change.                *)
Listing == {"list", "list again"}
CallTypes == [at : Steps, answer : Answers, names : SUBSET Name]

BudgetsOK == load \in Loads /\ spent \in [Budgets -> Nat] /\ \A k \in Budgets : spent[k] <= load[k]
WorldOK ==
  /\ joined \subseteq Name /\ online \subseteq Name
  /\ lines \in Seq(Events) /\ Len(lines) <= Channel
SyncOK == synced \in Ages(Resync + 1) /\ attempted \in Ages(Retry + 1)
ProbeOK ==
  /\ cached \in {None} \cup [age : 0 .. Ttl, answer : Answers]
  /\ prober \in Request \cup {None}
  /\ call \in [Request -> CallTypes]
  /\ \A q \in Request : (prober = q) <=> call[q].at \in Listing

LEMMA PresenceParts == PresenceTypeOK <=> BudgetsOK /\ WorldOK /\ SyncOK /\ ProbeOK
BY DEF PresenceTypeOK, BudgetsOK, WorldOK, SyncOK, ProbeOK, CallTypes, Listing

LEMMA PresencePartsNext == BudgetsOK' /\ WorldOK' /\ SyncOK' /\ ProbeOK' => PresenceTypeOK'
BY DEF PresenceTypeOK, BudgetsOK, WorldOK, SyncOK, ProbeOK, CallTypes, Listing

LEMMA SpendKeeps ==
  ASSUME BudgetsOK, load' = load, NEW k \in Budgets, Spend(k)
  PROVE  BudgetsOK'
BY LoadsAssumption DEF BudgetsOK, Spend

(* Players who answer to `list` are few enough to count.                   *)
LEMMA Counted ==
  ASSUME NEW S \in SUBSET Name
  PROVE  Cardinality(S) \in 0 .. Cardinality(Name)
BY LoadsAssumption, FS_Subset, FS_CardinalityType

LEMMA NoAnswerTyped == NoAnswer \in Answers
BY DEF NoAnswer, Answers

LEMMA IdleTyped == Idle \in CallTypes /\ Idle.at = "idle"
BY NoAnswerTyped DEF Idle, CallTypes, Steps

(* One line more in the channel, or one in place of the oldest.            *)
LEMMA LogKeeps ==
  ASSUME lines \in Seq(Events), Len(lines) <= Channel, NEW e \in Events, Log(e)
  PROVE  lines' \in Seq(Events) /\ Len(lines') <= Channel
<1>1. Channel \in Nat /\ Channel >= 1
  BY TimesAssumption
<1>2. CASE Len(lines) < Channel
  BY <1>1, <1>2 DEF Log
<1>3. CASE ~(Len(lines) < Channel)
  <2>1. lines # <<>> /\ Tail(lines) \in Seq(Events) /\ Len(Tail(lines)) = Len(lines) - 1
    BY <1>1, <1>3
  <2> QED BY <1>1, <1>3, <2>1 DEF Log
<1> QED BY <1>2, <1>3

(* A request that is not the prober and does not become it.                *)
LEMMA CallKeeps ==
  ASSUME ProbeOK, NEW q \in Request, call[q].at \notin Listing,
         NEW r \in CallTypes, r.at \notin Listing, call' = [call EXCEPT ![q] = r],
         UNCHANGED cache
  PROVE  ProbeOK'
BY LoadsAssumption DEF ProbeOK, cache

(* A step to another place.                                                *)
LEMMA GoesKeeps ==
  ASSUME ProbeOK, NEW q \in Request, call[q].at \notin Listing,
         NEW place \in Steps, place \notin Listing, Goes(q, place), UNCHANGED cache
  PROVE  ProbeOK'
<1> DEFINE r == [call[q] EXCEPT !.at = place]
<1>1. r \in CallTypes /\ r.at = place /\ call' = [call EXCEPT ![q] = r]
  BY DEF ProbeOK, CallTypes, Goes
<1> HIDE DEF r
<1> QED BY <1>1, CallKeeps

-----------------------------------------------------------------------------
(* What the panel does before it has its list, and the server's players,   *)
(* do not touch the file.                                                  *)
Aside ==
  /\ load' = load
  /\ \A q \in Request :
       \/ call'[q].at = call[q].at
       \/ /\ call[q].at # "write" /\ call'[q].at \notin Editing \cup {"begin", "view old"}
          /\ call'[q].at = "listed" => load.ops[q] = "edit"

LEMMA JoinTyped ==
  ASSUME PresenceTypeOK, NEW n \in Name, Join(n) \/ Leave(n)
  PROVE  PresenceTypeOK' /\ Aside /\ UNCHANGED call
<1>1. BudgetsOK /\ WorldOK /\ SyncOK /\ ProbeOK
  BY PresenceParts
<1>2. UNCHANGED <<load, online, synced, attempted, cached, prober, call>> /\ Spend("changes")
  BY DEF Join, Leave, sync, cache
<1>3. BudgetsOK'
  BY <1>1, <1>2, SpendKeeps DEF Budgets
<1>4. joined' \subseteq Name /\ \E e \in Events : Log(e)
  BY <1>1 DEF Join, Leave, WorldOK, Events
<1>5. WorldOK'
  BY <1>1, <1>2, <1>4, LogKeeps DEF WorldOK
<1>6. SyncOK' /\ ProbeOK'
  BY <1>1, <1>2 DEF SyncOK, ProbeOK
<1> QED BY <1>2, <1>3, <1>5, <1>6, PresencePartsNext DEF Aside

LEMMA RestartTyped ==
  ASSUME PresenceTypeOK, Restart
  PROVE  PresenceTypeOK' /\ Aside /\ UNCHANGED call
<1>1. BudgetsOK /\ WorldOK /\ SyncOK /\ ProbeOK
  BY PresenceParts
<1>2. UNCHANGED <<load, online, synced, attempted, cached, prober, call>> /\ Spend("changes")
  BY DEF Restart, sync, cache
<1>3. BudgetsOK'
  BY <1>1, <1>2, SpendKeeps DEF Budgets
<1>4. joined' \subseteq Name /\ Log(Reset) /\ Reset \in Events
  BY DEF Restart, Events
<1>5. WorldOK'
  BY <1>1, <1>2, <1>4, LogKeeps DEF WorldOK
<1>6. SyncOK' /\ ProbeOK'
  BY <1>1, <1>2 DEF SyncOK, ProbeOK
<1> QED BY <1>2, <1>3, <1>5, <1>6, PresencePartsNext DEF Aside

LEMMA OlderTyped ==
  ASSUME NEW limit \in Nat, NEW age \in Ages(limit)
  PROVE  Older(age, limit) \in Ages(limit)
BY DEF Older, Ages

LEMMA TickTyped ==
  ASSUME PresenceTypeOK, Tick
  PROVE  PresenceTypeOK' /\ Aside /\ UNCHANGED call
<1>1. BudgetsOK /\ WorldOK /\ SyncOK /\ ProbeOK
  BY PresenceParts
<1>2. UNCHANGED <<load, spent, joined, lines, online, prober, call>>
  BY DEF Tick, server
<1>3. SyncOK'
  BY <1>1, OlderTyped, TimesAssumption DEF Tick, SyncOK
<1>4. cached' \in {None} \cup [age : 0 .. Ttl, answer : Answers]
  BY <1>1, TimesAssumption DEF Tick, ProbeOK, Older
<1>5. BudgetsOK' /\ WorldOK' /\ ProbeOK'
  BY <1>1, <1>2, <1>4 DEF BudgetsOK, WorldOK, ProbeOK
<1> QED BY <1>2, <1>3, <1>5, PresencePartsNext DEF Aside

LEMMA ApplyTyped ==
  ASSUME PresenceTypeOK, Apply
  PROVE  PresenceTypeOK' /\ Aside /\ UNCHANGED call
<1>1. BudgetsOK /\ WorldOK /\ SyncOK /\ ProbeOK
  BY PresenceParts
<1>2. UNCHANGED <<load, spent, joined, cached, prober, call>>
  BY DEF Apply, cache
<1>3. lines # <<>> /\ lines \in Seq(Events) /\ Head(lines) \in Events /\ lines' = Tail(lines)
  BY <1>1 DEF Apply, WorldOK
<1>4. lines' \in Seq(Events) /\ Len(lines') <= Channel
  BY <1>1, <1>3, TimesAssumption DEF WorldOK
<1>5. Head(lines).what \in {"joined", "left"} => Head(lines).who \in Name
  BY <1>3 DEF Events, Joined, Left, Reset
<1>6. online' \subseteq Name
  BY <1>1, <1>5 DEF Apply, WorldOK
<1>7. SyncOK'
  BY <1>1 DEF Apply, SyncOK, Ages, sync
<1>8. BudgetsOK' /\ WorldOK' /\ ProbeOK'
  BY <1>1, <1>2, <1>4, <1>6 DEF BudgetsOK, WorldOK, ProbeOK
<1> QED BY <1>2, <1>7, <1>8, PresencePartsNext DEF Aside

-----------------------------------------------------------------------------
(* The panel's requests, statement by statement.                           *)

(* A step of one request to a place away from the file.                    *)
LEMMA AsideStep ==
  ASSUME ProbeOK, load' = load, NEW q \in Request, NEW r, call' = [call EXCEPT ![q] = r],
         call[q].at # "write", r.at \notin Editing \cup {"begin", "view old"},
         r.at = "listed" => load.ops[q] = "edit"
  PROVE  Aside
BY DEF ProbeOK, Aside

LEMMA BeginTyped ==
  ASSUME PresenceTypeOK, NEW q \in Request, Begin(q)
  PROVE  PresenceTypeOK' /\ Aside
<1>1. BudgetsOK /\ WorldOK /\ SyncOK /\ ProbeOK
  BY PresenceParts
<1>2. UNCHANGED <<load, joined, lines, online, synced, attempted, cache>>
  BY DEF Begin, server, sync
<1>3. PICK place \in {"start", "invalidate"} : Goes(q, place)
  BY DEF Begin
<1>4. BudgetsOK'
  BY <1>1, <1>2, SpendKeeps DEF Begin, Budgets, BudgetsOK
<1>5. ProbeOK'
  BY <1>1, <1>2, <1>3, GoesKeeps DEF Begin, Steps, Listing
<1>6. Aside
  BY <1>1, <1>2, <1>3 DEF Begin, Goes, ProbeOK, CallTypes, Aside, Editing
<1> QED BY <1>1, <1>2, <1>4, <1>5, <1>6, PresencePartsNext DEF WorldOK, SyncOK

LEMMA StartTyped ==
  ASSUME PresenceTypeOK, NEW q \in Request, StartOnline(q)
  PROVE  PresenceTypeOK' /\ Aside
<1>1. BudgetsOK /\ WorldOK /\ SyncOK /\ ProbeOK
  BY PresenceParts
<1>2. UNCHANGED <<load, spent, joined, lines, online, synced, attempted, cache>>
  BY DEF StartOnline, server, sync
<1>3. PICK place \in {"lock", "names"} : call[q].at = "start" /\ Goes(q, place)
  BY DEF StartOnline
<1>4. ProbeOK'
  BY <1>1, <1>2, <1>3, GoesKeeps DEF StartOnline, Steps, Listing
<1>5. Aside
  BY <1>1, <1>2, <1>3 DEF Goes, ProbeOK, CallTypes, Aside, Editing
<1> QED BY <1>1, <1>2, <1>4, <1>5, PresencePartsNext DEF BudgetsOK, WorldOK, SyncOK

LEMMA LockTyped ==
  ASSUME PresenceTypeOK, NEW q \in Request, LockOnline(q)
  PROVE  PresenceTypeOK' /\ Aside
<1>1. BudgetsOK /\ WorldOK /\ SyncOK /\ ProbeOK
  BY PresenceParts
<1>2. UNCHANGED <<load, spent, joined, lines, online, synced, attempted, cached>>
  BY DEF LockOnline, server, sync
<1>3. /\ call[q].at = "lock" /\ prober = None
      /\ call \in [Request -> CallTypes]
  BY <1>1 DEF LockOnline, ProbeOK
<1>4. CASE IsFresh /\ prober' = prober
           /\ call' = [call EXCEPT ![q].at = "adopt", ![q].answer = cached.answer]
  <2> DEFINE r == [call[q] EXCEPT !.at = "adopt", !.answer = cached.answer]
  <2>1. cached.answer \in Answers
    BY <1>1, <1>4 DEF ProbeOK, IsFresh
  <2>2. r \in CallTypes /\ r.at = "adopt" /\ call' = [call EXCEPT ![q] = r]
    BY <1>3, <1>4, <2>1 DEF CallTypes, Steps
  <2> HIDE DEF r
  <2>3. ProbeOK'
    BY <1>1, <1>2, <1>3, <1>4, <2>2, CallKeeps DEF Listing, cache
  <2>4. Aside
    BY <1>1, <1>2, <1>3, <2>2, AsideStep DEF Editing
  <2> QED BY <1>1, <1>2, <2>3, <2>4, PresencePartsNext DEF BudgetsOK, WorldOK, SyncOK
<1>5. CASE prober' = q /\ call' = [call EXCEPT ![q].at = "list", ![q].answer = NoAnswer]
  <2> DEFINE r == [call[q] EXCEPT !.at = "list", !.answer = NoAnswer]
  <2>1. r \in CallTypes /\ r.at = "list" /\ call' = [call EXCEPT ![q] = r]
    BY <1>3, <1>5, NoAnswerTyped DEF CallTypes, Steps
  <2> HIDE DEF r
  <2>2. ProbeOK'
    BY <1>1, <1>2, <1>3, <1>5, <2>1, LoadsAssumption DEF ProbeOK, Listing
  <2>3. Aside
    BY <1>1, <1>2, <1>3, <2>1, AsideStep DEF Editing
  <2> QED BY <1>1, <1>2, <2>2, <2>3, PresencePartsNext DEF BudgetsOK, WorldOK, SyncOK
<1> QED BY <1>4, <1>5 DEF LockOnline

(* What comes of the answers is an answer.                                 *)
LEMMA BetterTyped ==
  ASSUME NEW a \in Answers, NEW b \in Answers
  PROVE  Better(a, b) \in Answers
BY DEF Better, Answers

LEMMA RepliesTyped ==
  ASSUME WorldOK
  PROVE  FullReply \in Answers /\ PoorReplies \subseteq Answers
<1>1. Cardinality(joined) \in 0 .. Cardinality(Name) /\ joined \subseteq Name
  BY Counted DEF WorldOK
<1>2. FullReply \in Answers
  BY <1>1 DEF FullReply, Answers
<1>3. ASSUME NEW a \in PoorReplies
      PROVE  a \in Answers
  <2>1. PICK part \in SUBSET joined, number \in {None, Cardinality(joined)} :
          a = [names |-> part, reported |-> number, failed |-> FALSE]
    BY DEF PoorReplies
  <2>2. part \subseteq Name /\ number \in {None} \cup 0 .. Cardinality(Name)
    BY <1>1
  <2> QED BY <2>1, <2>2 DEF Answers
<1> QED BY <1>2, <1>3

(* What Ask does with an answer: keep it and ask again, or be done.        *)
Carries(q, a) ==
  IF call[q].at = "list"
  THEN /\ call' = [call EXCEPT ![q].at = "list again", ![q].answer = a]
       /\ UNCHANGED cache
  ELSE Finish(q, a)

Heard(q, a) ==
  \/ Finish(q, a)
  \/ /\ call' = [call EXCEPT ![q].at = "list again", ![q].answer = a]
     /\ UNCHANGED cache

(* The second question, which the prober asks too.                         *)
LEMMA CarryTyped ==
  ASSUME ProbeOK, NEW q \in Request, call[q].at \in Listing, NEW a \in Answers,
         call' = [call EXCEPT ![q].at = "list again", ![q].answer = a],
         UNCHANGED cache, load' = load
  PROVE  ProbeOK' /\ Aside
<1> DEFINE r == [call[q] EXCEPT !.at = "list again", !.answer = a]
<1>1. r \in CallTypes /\ r.at = "list again" /\ call' = [call EXCEPT ![q] = r]
  BY DEF ProbeOK, CallTypes, Steps
<1> HIDE DEF r
<1>2. ProbeOK'
  BY <1>1 DEF ProbeOK, Listing, cache
<1>3. Aside
  BY <1>1, AsideStep DEF Listing, Editing
<1> QED BY <1>2, <1>3

LEMMA FinishTyped ==
  ASSUME ProbeOK, NEW q \in Request, call[q].at \in Listing, NEW a \in Answers,
         Finish(q, a), load' = load
  PROVE  ProbeOK' /\ Aside
<1> DEFINE r == [call[q] EXCEPT !.at = "adopt", !.answer = a]
<1>1. r \in CallTypes /\ r.at = "adopt" /\ call' = [call EXCEPT ![q] = r]
  BY DEF ProbeOK, CallTypes, Steps, Finish
<1>2. prober' = None /\ cached' \in [age : 0 .. Ttl, answer : Answers]
  BY TimesAssumption DEF Finish
<1> HIDE DEF r
<1>3. ProbeOK'
  BY <1>1, <1>2, LoadsAssumption DEF ProbeOK, Listing
<1>4. Aside
  BY <1>1, AsideStep DEF Listing, Editing
<1> QED BY <1>3, <1>4

LEMMA AskTyped ==
  ASSUME PresenceTypeOK, NEW q \in Request, Ask(q)
  PROVE  PresenceTypeOK' /\ Aside
<1>1. BudgetsOK /\ WorldOK /\ SyncOK /\ ProbeOK
  BY PresenceParts
<1> DEFINE first == call[q].at = "list"
           best == call[q].answer
<1>2. call[q].at \in Listing /\ best \in Answers
      /\ UNCHANGED <<load, joined, lines, online, synced, attempted>>
  BY <1>1 DEF Ask, Listing, ProbeOK, CallTypes, server, sync
<1>3. BudgetsOK' /\ WorldOK' /\ SyncOK'
  BY <1>1, <1>2, SpendKeeps DEF Ask, Budgets, BudgetsOK, WorldOK, SyncOK
<1>4. \E a \in Answers : Heard(q, a)
  <2>1. ASSUME NEW reply \in Answers,
               \/ IsComplete(reply) /\ Finish(q, reply)
               \/ Carries(q, Better(best, reply))
        PROVE  \E a \in Answers : Heard(q, a)
    BY <1>2, <2>1, BetterTyped DEF Heard, Carries
  <2>2. [best EXCEPT !.failed = @ \/ first] \in Answers
    BY <1>2 DEF Answers
  <2>3. ASSUME Carries(q, [best EXCEPT !.failed = @ \/ first])
        PROVE  \E a \in Answers : Heard(q, a)
    BY <2>2, <2>3 DEF Heard, Carries
  <2>4. FullReply \in Answers /\ PoorReplies \subseteq Answers
    BY <1>1, RepliesTyped
  <2>5. \/ \E reply \in PoorReplies \cup {FullReply} :
             \/ IsComplete(reply) /\ Finish(q, reply)
             \/ Carries(q, Better(best, reply))
        \/ Carries(q, [best EXCEPT !.failed = @ \/ first])
    BY DEF Ask, Carries
  <2> QED BY <2>1, <2>3, <2>4, <2>5
<1> QED BY <1>1, <1>2, <1>3, <1>4, FinishTyped, CarryTyped, PresencePartsNext DEF Heard


LEMMA AdoptTyped ==
  ASSUME PresenceTypeOK, NEW q \in Request, Adopt(q)
  PROVE  PresenceTypeOK' /\ Aside
<1>1. BudgetsOK /\ WorldOK /\ SyncOK /\ ProbeOK
  BY PresenceParts
<1>2. UNCHANGED <<load, spent, joined, lines, cache>>
  BY DEF Adopt, server
<1>3. PICK place \in {"stamp", "names"} : call[q].at = "adopt" /\ Goes(q, place)
  BY DEF Adopt
<1>4. online' \subseteq Name /\ SyncOK'
  BY <1>1, TimesAssumption DEF Adopt, sync, ProbeOK, WorldOK, SyncOK, CallTypes, Answers, Ages
<1>5. ProbeOK'
  BY <1>1, <1>2, <1>3, GoesKeeps DEF Adopt, Steps, Listing
<1>6. Aside
  BY <1>1, <1>2, <1>3 DEF Goes, ProbeOK, CallTypes, Aside, Editing
<1> QED BY <1>1, <1>2, <1>4, <1>5, <1>6, PresencePartsNext DEF BudgetsOK, WorldOK

LEMMA StampTyped ==
  ASSUME PresenceTypeOK, NEW q \in Request, Stamp(q)
  PROVE  PresenceTypeOK' /\ Aside
<1>1. BudgetsOK /\ WorldOK /\ SyncOK /\ ProbeOK
  BY PresenceParts
<1>2. UNCHANGED <<load, spent, joined, lines, online, cache>> /\ Goes(q, "names")
  BY DEF Stamp, server
<1>3. SyncOK'
  BY TimesAssumption DEF Stamp, SyncOK, Ages
<1>4. ProbeOK'
  BY <1>1, <1>2, GoesKeeps DEF Stamp, Steps, Listing
<1>5. Aside
  BY <1>1, <1>2 DEF Stamp, Goes, ProbeOK, CallTypes, Aside, Editing
<1> QED BY <1>1, <1>2, <1>3, <1>4, <1>5, PresencePartsNext DEF BudgetsOK, WorldOK

LEMMA NamesTyped ==
  ASSUME PresenceTypeOK, NEW q \in Request, Names(q)
  PROVE  PresenceTypeOK' /\ Aside
<1>1. BudgetsOK /\ WorldOK /\ SyncOK /\ ProbeOK
  BY PresenceParts
<1>2. UNCHANGED <<load, spent, joined, lines, online, synced, attempted, cache>>
  BY DEF Names, server, sync
<1> DEFINE r == [call[q] EXCEPT !.at = "listed", !.names = online]
<1>3. r \in CallTypes /\ r.at = "listed"
  BY <1>1 DEF ProbeOK, WorldOK, CallTypes, Steps
<1>4. \/ call' = [call EXCEPT ![q] = Idle]
      \/ load.ops[q] = "edit" /\ call' = [call EXCEPT ![q] = r]
  BY DEF Names
<1> HIDE DEF r
<1>5. ProbeOK'
  BY <1>1, <1>2, <1>3, <1>4, IdleTyped, CallKeeps DEF Names, Listing
<1>6. Aside
  BY <1>1, <1>2, <1>3, <1>4, IdleTyped, AsideStep DEF Names, Editing
<1> QED BY <1>1, <1>2, <1>5, <1>6, PresencePartsNext DEF BudgetsOK, WorldOK, SyncOK

LEMMA InvalidateTyped ==
  ASSUME PresenceTypeOK, NEW q \in Request, Invalidate(q)
  PROVE  PresenceTypeOK' /\ Aside
<1>1. BudgetsOK /\ WorldOK /\ SyncOK /\ ProbeOK
  BY PresenceParts
<1>2. /\ UNCHANGED <<load, spent, joined, lines, online, synced, attempted, prober>>
      /\ cached' = None /\ call' = [call EXCEPT ![q] = Idle] /\ call[q].at = "invalidate"
  BY DEF Invalidate, server, sync
<1>3. ProbeOK'
  BY <1>1, <1>2, IdleTyped DEF ProbeOK, Listing
<1>4. Aside
  BY <1>1, <1>2, IdleTyped, AsideStep DEF Editing
<1> QED BY <1>1, <1>2, <1>3, <1>4, PresencePartsNext DEF BudgetsOK, WorldOK, SyncOK

LEMMA DropTyped ==
  ASSUME PresenceTypeOK, NEW q \in Request, Drop(q)
  PROVE  PresenceTypeOK' /\ Aside
<1>1. BudgetsOK /\ WorldOK /\ SyncOK /\ ProbeOK
  BY PresenceParts
<1>2. /\ UNCHANGED <<load, joined, lines, online, synced, attempted, cached>>
      /\ prober' = (IF prober = q THEN None ELSE prober)
      /\ call' = [call EXCEPT ![q] = Idle] /\ Spend("faults")
  BY DEF Drop, server, sync
<1>3. BudgetsOK'
  BY <1>1, <1>2, SpendKeeps DEF Budgets
<1>4. ProbeOK'
  BY <1>1, <1>2, IdleTyped, LoadsAssumption DEF ProbeOK, Listing
<1>5. Aside
  BY <1>1, <1>2, IdleTyped, AsideStep DEF Drop, Editing
<1> QED BY <1>1, <1>2, <1>3, <1>4, <1>5, PresencePartsNext DEF WorldOK, SyncOK

LEMMA OnlineTyped ==
  ASSUME PresenceTypeOK, NEW q \in Request, OnlineStep(q)
  PROVE  PresenceTypeOK' /\ Aside
BY BeginTyped, StartTyped, LockTyped, AskTyped, AdoptTyped, StampTyped, NamesTyped,
   InvalidateTyped DEF OnlineStep

(* Nothing of this disturbs what is said of the file.                      *)
LEMMA AsideGood ==
  ASSUME Inv, PresenceTypeOK', Aside, UNCHANGED fileVars
  PROVE  Inv'
<1>1. UNCHANGED <<dat, old, bak, tmp, memory, saving, edit, audit, load>>
  BY DEF fileVars, disk, game, Aside
<1>2. TypeOK'
  BY <1>1 DEF Inv, TypeOK
<1>3. RowsFirst' /\ SavesSomeone'
  BY <1>1 DEF Inv, RowsFirst, Recorded, SavesSomeone, Aside, Editing, Holding
<1>4. Window'
  BY <1>1 DEF Inv, Window, Aside, Editing
<1>5. OnlyEdits'
  BY <1>1 DEF Inv, OnlyEdits, Aside, Editing
<1>6. Alone' => OneAtATime'
  <2> SUFFICES ASSUME Alone' PROVE OneAtATime'
    OBVIOUS
  <2>1. OneAtATime
    BY <1>1 DEF Inv, Alone
  <2> QED BY <1>1, <2>1 DEF OneAtATime, Whole, Aside, Editing
<1> QED BY <1>2, <1>3, <1>4, <1>5, <1>6 DEF Inv


-----------------------------------------------------------------------------
(* The game server.                                                        *)
LEMMA ReadsTyped ==
  ASSUME dat \in Files, old \in Files
  PROVE  ReadsOf(dat, old) \in Data /\ ReadsOf(dat, old).whole
BY DEF ReadsOf, Files, Data, Readable

LEMMA LoginGood ==
  ASSUME Inv, Login
  PROVE  Inv'
<1>1. /\ PresenceTypeOK' /\ Aside /\ UNCHANGED call
      /\ UNCHANGED <<dat, old, bak, tmp, saving, edit, audit, load>>
      /\ memory = None /\ memory' = ReadsOf(dat, old)
  <2>1. Owner \in load.names /\ load.names \subseteq Name
    BY LoadsAssumption DEF Login, Join, Inv, TypeOK, PresenceTypeOK
  <2> QED BY <2>1, JoinTyped DEF Login, Inv, TypeOK, disk, Aside
<1>2. memory' \in Data /\ memory'.whole
  BY <1>1, ReadsTyped DEF Inv, TypeOK
<1>3. TypeOK'
  BY <1>1, <1>2 DEF Inv, TypeOK, Files
<1>4. RowsFirst' /\ SavesSomeone'
  <2>1. Recorded(memory)'
    BY <1>1 DEF ReadsOf, Recorded, Inv, RowsFirst, Readable
  <2>2. SavesSomeone'
    BY <1>1 DEF Inv, SavesSomeone
  <2> QED BY <1>1, <2>1, <2>2 DEF Inv, RowsFirst, Recorded
<1>5. Window' /\ OnlyEdits'
  BY <1>1 DEF Inv, Window, OnlyEdits
<1>6. Alone' => OneAtATime'
  <2> SUFFICES ASSUME Alone' PROVE OneAtATime'
    OBVIOUS
  <2>1. OneAtATime
    BY <1>1 DEF Inv, Alone
  <2> QED BY <1>1, <1>2, <2>1 DEF OneAtATime, Whole
<1> QED BY <1>3, <1>4, <1>5, <1>6 DEF Inv

LEMMA LogoutGood ==
  ASSUME Inv, Logout
  PROVE  Inv'
<1>1. Owner \in Name /\ Leave(Owner)
  BY DEF Logout, Leave, Inv, TypeOK, PresenceTypeOK
<1> QED BY <1>1, JoinTyped, AsideGood DEF Logout, Inv, TypeOK

LEMMA OthersGood ==
  ASSUME Inv, OthersMove
  PROVE  Inv'
BY JoinTyped, AsideGood DEF OthersMove, Inv, TypeOK

LEMMA ServerRestartsGood ==
  ASSUME Inv, ServerRestarts
  PROVE  Inv'
<1>1. /\ PresenceTypeOK' /\ Aside /\ UNCHANGED call
      /\ UNCHANGED <<dat, old, bak, tmp, saving, edit, audit, load>>
      /\ ~saving /\ memory' = None
  BY RestartTyped DEF ServerRestarts, Inv, TypeOK, disk, Aside
<1>2. TypeOK'
  BY <1>1 DEF Inv, TypeOK, Files
<1>3. RowsFirst' /\ SavesSomeone' /\ Window' /\ OnlyEdits'
  BY <1>1 DEF Inv, RowsFirst, Recorded, SavesSomeone, Window, OnlyEdits
<1>4. Alone' => OneAtATime'
  <2> SUFFICES ASSUME Alone' PROVE OneAtATime'
    OBVIOUS
  <2>1. OneAtATime
    BY <1>1 DEF Inv, Alone
  <2> QED BY <1>1, <2>1 DEF OneAtATime, Whole
<1> QED BY <1>2, <1>3, <1>4 DEF Inv

(* A rename on the disk: every edit sees the file touched, and nobody who  *)
(* writes alone is writing to a file of the server's.                      *)
LEMMA MovedTyped ==
  ASSUME TypeOK, NEW from \in {"none", "tmp", "dat"}, NEW to \in {"dat", "old"},
         edit' = Touched(Moved(edit, from, to))
  PROVE  /\ edit' \in [Request -> [read : Files, touched : BOOLEAN, fd : Places,
                                   found : {"unread", "data", "nothing"}]]
         /\ \A q \in Request :
              /\ edit'[q].read = edit[q].read /\ edit'[q].found = edit[q].found
              /\ edit'[q].touched
              /\ edit[q].fd \in {None, "tmp"} /\ from # "tmp" => edit'[q].fd = edit[q].fd
              /\ edit[q].fd = None => edit'[q].fd = None
BY FilesAssumption DEF TypeOK, Touched, Moved, Places

LEMMA RotateGood ==
  ASSUME Inv, Rotate
  PROVE  Inv'
<1>1. /\ UNCHANGED <<load, joined, lines, online, synced, attempted, cached, prober,
                     call, bak, tmp, memory, audit>>
      /\ memory # None /\ ~saving /\ old' = dat /\ dat' = None /\ saving' = TRUE
      /\ edit' = Touched(Moved(edit, "dat", "old"))
      /\ Spend("saves")
  BY DEF Rotate, server, sync, cache
<1>2. /\ edit' \in [Request -> [read : Files, touched : BOOLEAN, fd : Places,
                                found : {"unread", "data", "nothing"}]]
      /\ \A q \in Request :
           /\ edit'[q].read = edit[q].read /\ edit'[q].found = edit[q].found
           /\ edit'[q].touched
           /\ edit[q].fd \in {None, "tmp"} => edit'[q].fd = edit[q].fd
  BY <1>1, MovedTyped DEF Inv
<1>3. TypeOK'
  <2>1. PresenceTypeOK'
    <3>1. BudgetsOK /\ WorldOK /\ SyncOK /\ ProbeOK
      BY PresenceParts DEF Inv, TypeOK
    <3>2. BudgetsOK'
      BY <3>1, <1>1, SpendKeeps DEF Budgets
    <3> QED BY <3>1, <3>2, <1>1, PresencePartsNext DEF WorldOK, SyncOK, ProbeOK
  <2> QED BY <2>1, <1>1, <1>2 DEF Inv, TypeOK, Files
<1>4. RowsFirst' /\ SavesSomeone'
  BY <1>1, <1>2 DEF Inv, RowsFirst, Recorded, SavesSomeone
<1>5. Window' /\ OnlyEdits'
  BY <1>1, <1>2 DEF Inv, Window, OnlyEdits
<1>6. Alone' => OneAtATime'
  <2> SUFFICES ASSUME Alone' PROVE OneAtATime'
    OBVIOUS
  <2>1. OneAtATime
    BY <1>1 DEF Inv, Alone
  <2>2. \A q \in Request : edit'[q].fd = edit[q].fd
    BY <1>2, <2>1 DEF OneAtATime
  <2> QED BY <1>1, <1>2, <2>1, <2>2 DEF OneAtATime, Whole
<1> QED BY <1>3, <1>4, <1>5, <1>6 DEF Inv

LEMMA SaveGood ==
  ASSUME Inv, Save
  PROVE  Inv'
<1>1. /\ UNCHANGED <<load, call, old, bak, tmp, audit>> /\ UNCHANGED presenceVars
      /\ saving /\ saving' = FALSE /\ memory # None
      /\ dat' = [memory EXCEPT !.save = spent.saves]
      /\ memory' = None \/ memory' = dat'
      /\ edit' = Touched(Moved(edit, "none", "dat"))
  BY DEF Save, presenceVars, Inv, SavesSomeone
<1>2. /\ edit' \in [Request -> [read : Files, touched : BOOLEAN, fd : Places,
                                found : {"unread", "data", "nothing"}]]
      /\ \A q \in Request :
           /\ edit'[q].read = edit[q].read /\ edit'[q].found = edit[q].found
           /\ edit'[q].touched
           /\ edit[q].fd \in {None, "tmp"} => edit'[q].fd = edit[q].fd
  BY <1>1, MovedTyped DEF Inv
<1>3. memory \in Data /\ spent.saves \in Nat
  BY <1>1 DEF Inv, TypeOK, PresenceTypeOK, Budgets, Files
<1>4. dat' \in Data /\ dat'.edits = memory.edits /\ dat'.whole = memory.whole
  BY <1>1, <1>3 DEF Data
<1>5. TypeOK'
  <2>1. PresenceTypeOK'
    BY <1>1 DEF Inv, TypeOK, PresenceTypeOK, presenceVars, server, sync, cache
  <2> QED BY <2>1, <1>1, <1>2, <1>4 DEF Inv, TypeOK, Files
<1>6. RowsFirst' /\ SavesSomeone'
  <2>1. Recorded(dat)' /\ Recorded(memory)'
    BY <1>1, <1>4 DEF Inv, RowsFirst, Recorded
  <2>2. Recorded(old)' /\ Recorded(bak)' /\ Recorded(tmp)'
    BY <1>1 DEF Inv, RowsFirst, Recorded
  <2>3. \A q \in Request : Recorded(edit[q].read)' /\ edit'[q].read = edit[q].read
    BY <1>1, <1>2 DEF Inv, RowsFirst, Recorded
  <2>4. SavesSomeone'
    BY <1>1 DEF SavesSomeone
  <2> QED BY <1>1, <2>1, <2>2, <2>3, <2>4 DEF Inv, RowsFirst
<1>7. Window' /\ OnlyEdits'
  BY <1>1, <1>2 DEF Inv, Window, OnlyEdits
<1>8. Alone' => OneAtATime'
  <2> SUFFICES ASSUME Alone' PROVE OneAtATime'
    OBVIOUS
  <2>1. OneAtATime
    BY <1>1 DEF Inv, Alone
  <2>2. \A q \in Request : edit'[q].fd = edit[q].fd
    BY <1>2, <2>1 DEF OneAtATime
  <2>3. dat' # None
    BY <1>4, FilesAssumption
  <2>4. Whole(dat)' /\ Whole(memory)' /\ Whole(old)'
    BY <1>1, <1>4, <2>1 DEF OneAtATime, Whole
  <2>5. UNCHANGED <<old, tmp, call>>
    BY <1>1
  <2> QED BY <1>2, <2>1, <2>2, <2>3, <2>4, <2>5 DEF OneAtATime, Whole
<1> QED BY <1>5, <1>6, <1>7, <1>8 DEF Inv


-----------------------------------------------------------------------------
(* Edits, step by step.                                                    *)
Near == Editing \cup {"listed", "begin"}

LEMMA BudgetOrNot ==
  ASSUME PresenceTypeOK, load' = load, spent' = spent \/ Spend("faults")
  PROVE  BudgetsOK'
BY PresenceParts, SpendKeeps DEF Budgets, BudgetsOK

LEMMA MovesTyped ==
  ASSUME Inv, NEW q \in Request, NEW from \in Steps \ Listing, NEW place \in Steps \ Listing,
         At(q, from), Goes(q, place), spent' = spent, place \in Near => from \in Near
  PROVE  /\ PresenceTypeOK' /\ OnlyEdits' /\ load' = load /\ call[q].at = from
         /\ \A x \in Request : call'[x].at = IF x = q THEN place ELSE call[x].at
<1>1. /\ UNCHANGED <<load, joined, lines, online, synced, attempted, cache>>
      /\ call[q].at = from
  BY DEF At, server, sync
<1>2. BudgetsOK /\ WorldOK /\ SyncOK /\ ProbeOK
  BY PresenceParts DEF Inv, TypeOK
<1>3. ProbeOK'
  BY <1>1, <1>2, GoesKeeps
<1>4. \A x \in Request : call'[x].at = IF x = q THEN place ELSE call[x].at
  BY <1>2 DEF Goes, ProbeOK, CallTypes
<1>5. OnlyEdits'
  BY <1>1, <1>4 DEF Inv, OnlyEdits, Near
<1>6. BudgetsOK' /\ WorldOK' /\ SyncOK'
  BY <1>1, <1>2 DEF BudgetsOK, WorldOK, SyncOK
<1> QED BY <1>1, <1>3, <1>4, <1>5, <1>6, PresencePartsNext

(* While edits come one at a time, nobody else is near the file.           *)
LEMMA LoneEditor ==
  ASSUME Inv, Alone', load' = load, NEW q \in Request, call[q].at \in Near
  PROVE  /\ OneAtATime
         /\ \A x \in Request \ {q} : call[x].at \notin Near /\ edit[x].fd = None
<1>1. OneAtATime
  BY DEF Inv, Alone
<1>2. \A x \in Request \ {q} : call[x].at \notin Near
  BY DEF Inv, Alone, OnlyEdits, Near
<1> QED BY <1>1, <1>2 DEF OneAtATime, Near, Editing

(* However a request ends, it forgets what it had in hand.                 *)
LEMMA EndsGood ==
  ASSUME Inv, NEW q \in Request, Ends(q), call[q].at \notin Listing,
         \/ audit' = audit
         \/ \E result \in {"pending", "ok", "failed"} : audit' = [audit EXCEPT ![q] = result],
         UNCHANGED <<load, server, online, sync, cache, disk, game>>,
         spent' = spent \/ Spend("faults")
  PROVE  Inv'
<1>1. UNCHANGED <<load, joined, lines, online, synced, attempted, cache,
                  dat, old, bak, tmp, memory, saving>>
  BY DEF server, sync, disk, game
<1>2. BudgetsOK /\ WorldOK /\ SyncOK /\ ProbeOK
  BY PresenceParts DEF Inv, TypeOK
<1>3. /\ ProbeOK'
      /\ \A x \in Request : call'[x].at = IF x = q THEN "idle" ELSE call[x].at
  BY <1>1, <1>2, IdleTyped, CallKeeps DEF Ends, ProbeOK, Listing
<1>4. /\ edit' \in [Request -> [read : Files, touched : BOOLEAN, fd : Places,
                                found : {"unread", "data", "nothing"}]]
      /\ \A x \in Request : edit'[x] = IF x = q THEN NoEdit ELSE edit[x]
  BY DEF Ends, Inv, TypeOK, NoEdit, Files, Places
<1>5. /\ audit' \in [Request -> {"none", "pending", "ok", "failed"}]
      /\ \A x \in Request : audit[x] # "none" => audit'[x] # "none"
  BY DEF Inv, TypeOK
<1>6. TypeOK'
  <2>1. PresenceTypeOK'
    BY <1>1, <1>2, <1>3, BudgetOrNot, PresencePartsNext DEF WorldOK, SyncOK, Inv, TypeOK
  <2> QED BY <2>1, <1>1, <1>4, <1>5 DEF Inv, TypeOK
<1>7. RowsFirst'
  <2>1. \A file : (file # None => \A x \in file.edits : audit[x] # "none" /\ x \in Request)
                   => (file # None => \A x \in file.edits : audit'[x] # "none")
    BY <1>5
  <2>2. \A file \in Files : Recorded(file) =>
           (file # None => \A x \in file.edits : audit'[x] # "none")
    BY <2>1 DEF Files, Data, Recorded
  <2>3. Recorded(dat)' /\ Recorded(old)' /\ Recorded(bak)' /\ Recorded(tmp)' /\ Recorded(memory)'
    BY <1>1, <2>2 DEF Inv, TypeOK, RowsFirst, Recorded
  <2>4. ASSUME NEW x \in Request
        PROVE  /\ call'[x].at \in Editing => audit'[x] # "none"
               /\ Recorded(edit[x].read)'
               /\ call'[x].at \in Holding => edit'[x].read # None
    <3>1. CASE x = q
      BY <3>1, <1>3, <1>4 DEF NoEdit, Recorded, Editing, Holding
    <3>2. CASE x # q
      <4>1. edit'[x] = edit[x] /\ call'[x].at = call[x].at /\ edit[x].read \in Files
        BY <3>2, <1>3, <1>4 DEF Inv, TypeOK
      <4> QED BY <4>1, <2>2, <1>5 DEF Inv, RowsFirst, Recorded
    <3> QED BY <3>1, <3>2
  <2> QED BY <2>3, <2>4 DEF RowsFirst
<1>8. Window' /\ OnlyEdits' /\ SavesSomeone'
  BY <1>1, <1>3, <1>4 DEF Inv, Window, OnlyEdits, SavesSomeone, Editing
<1>9. Alone' => OneAtATime'
  <2> SUFFICES ASSUME Alone' PROVE OneAtATime'
    OBVIOUS
  <2>1. OneAtATime
    BY <1>1 DEF Inv, Alone
  <2>2. ASSUME NEW x \in Request
        PROVE  /\ Whole(edit[x].read)'
               /\ edit'[x].fd # None => edit'[x].fd = "tmp" /\ call'[x].at = "write"
               /\ call'[x].at = "write" => edit'[x].fd = "tmp" /\ tmp' # None /\ ~tmp'.whole
               /\ call'[x].at = "rename" => tmp' # None /\ tmp'.whole
               /\ call'[x].at = "view old" => old' # None
               /\ edit'[x].found # "nothing"
    <3>1. CASE x = q
      <4>1. /\ edit'[x].read = None /\ edit'[x].fd = None /\ edit'[x].found = "unread"
            /\ call'[x].at = "idle"
        BY <3>1, <1>3, <1>4 DEF NoEdit
      <4> QED BY <4>1 DEF Whole
    <3>2. CASE x # q
      <4>1. edit'[x] = edit[x] /\ call'[x].at = call[x].at /\ tmp' = tmp /\ old' = old
        BY <3>2, <1>1, <1>3, <1>4
      <4> QED BY <4>1, <2>1 DEF OneAtATime, Whole
    <3> QED BY <3>1, <3>2
  <2> QED BY <1>1, <2>1, <2>2 DEF OneAtATime, Whole
<1> QED BY <1>6, <1>7, <1>8, <1>9 DEF Inv

LEMMA SettleGood ==
  ASSUME Inv, NEW q \in Request, NEW from \in Steps \ Listing, At(q, from),
         NEW result \in {"ok", "failed"}, Settle(q, result),
         UNCHANGED game, spent' = spent \/ Spend("faults")
  PROVE  Inv'
BY EndsGood DEF At, Settle


(* Up to the opening of the temporary file an edit only looks.             *)
LEMMA LookingKeeps ==
  ASSUME Inv, load' = load, NEW q \in Request, call[q].at # "write",
         NEW place \in Steps \ {"write", "rename", "view old"},
         UNCHANGED <<dat, old, tmp, memory, saving>>,
         \A x \in Request : call'[x].at = IF x = q THEN place ELSE call[x].at,
         \A x \in Request :
            /\ edit'[x].fd = edit[x].fd /\ edit'[x].found = edit[x].found
            /\ edit'[x].read \in {edit[x].read, dat}
  PROVE  Alone' => OneAtATime'
<1> SUFFICES ASSUME Alone' PROVE OneAtATime'
  OBVIOUS
<1>1. OneAtATime
  BY DEF Inv, Alone
<1>2. ASSUME NEW x \in Request
      PROVE  /\ Whole(edit[x].read)'
             /\ edit'[x].fd # None => edit'[x].fd = "tmp" /\ call'[x].at = "write"
             /\ call'[x].at = "write" => edit'[x].fd = "tmp" /\ tmp' # None /\ ~tmp'.whole
             /\ call'[x].at = "rename" => tmp' # None /\ tmp'.whole
             /\ call'[x].at = "view old" => old' # None
             /\ edit'[x].found # "nothing"
  <2>1. Whole(edit[x].read)'
    BY <1>1 DEF OneAtATime, Whole
  <2>2. CASE x = q
    BY <1>1, <2>1, <2>2 DEF OneAtATime
  <2>3. CASE x # q
    BY <1>1, <2>1, <2>3 DEF OneAtATime
  <2> QED BY <2>2, <2>3
<1>3. Whole(dat)' /\ Whole(old)' /\ Whole(memory)' /\ (dat' = None => saving' /\ old' # None)
  BY <1>1 DEF OneAtATime, Whole
<1> QED BY <1>2, <1>3 DEF OneAtATime

LEMMA CheckOfflineGood ==
  ASSUME Inv, NEW q \in Request, CheckOffline(q)
  PROVE  Inv'
<1>1. CASE Ends(q)
  BY <1>1, EndsGood DEF CheckOffline, At, Listing
<1>2. CASE Goes(q, "begin") /\ UNCHANGED edit
  <2>1. UNCHANGED <<dat, old, bak, tmp, memory, saving, edit, audit>>
    BY <1>2 DEF CheckOffline, disk, game
  <2>2. /\ PresenceTypeOK' /\ OnlyEdits' /\ load' = load
        /\ \A x \in Request : call'[x].at = IF x = q THEN "begin" ELSE call[x].at
        /\ call[q].at = "listed"
    BY <1>2, MovesTyped DEF CheckOffline, Near, Steps, Listing
  <2>3. TypeOK' /\ SavesSomeone'
    BY <2>1, <2>2 DEF Inv, TypeOK, SavesSomeone
  <2>4. RowsFirst' /\ Window'
    BY <2>1, <2>2 DEF Inv, RowsFirst, Recorded, Window, Editing, Holding
  <2>5. Alone' => OneAtATime'
    BY <2>1, <2>2, LookingKeeps DEF Steps
  <2> QED BY <2>2, <2>3, <2>4, <2>5 DEF Inv
<1> QED BY <1>1, <1>2 DEF CheckOffline

LEMMA BeginAuditGood ==
  ASSUME Inv, NEW q \in Request, BeginAudit(q)
  PROVE  Inv'
<1>1. CASE Spend("faults") /\ Ends(q) /\ UNCHANGED audit
  BY <1>1, EndsGood DEF BeginAudit, At, Listing
<1>2. CASE /\ audit' = [audit EXCEPT ![q] = "pending"]
           /\ Goes(q, "stat")
           /\ UNCHANGED <<spent, edit>>
  <2>1. UNCHANGED <<dat, old, bak, tmp, memory, saving, edit>>
    BY <1>2 DEF BeginAudit, disk, game
  <2>2. /\ PresenceTypeOK' /\ OnlyEdits' /\ load' = load
        /\ \A x \in Request : call'[x].at = IF x = q THEN "stat" ELSE call[x].at
        /\ call[q].at = "begin"
    BY <1>2, MovesTyped DEF BeginAudit, Near, Editing, Steps, Listing
  <2>3. /\ audit' \in [Request -> {"none", "pending", "ok", "failed"}]
        /\ audit'[q] # "none"
        /\ \A x \in Request : audit[x] # "none" => audit'[x] # "none"
    BY <1>2 DEF Inv, TypeOK
  <2>4. TypeOK' /\ SavesSomeone'
    BY <2>1, <2>2, <2>3 DEF Inv, TypeOK, SavesSomeone
  <2>5. RowsFirst'
    <3>1. \A file \in Files : Recorded(file) =>
             (file # None => \A x \in file.edits : audit'[x] # "none")
      BY <2>3 DEF Files, Data, Recorded
    <3>2. Recorded(dat)' /\ Recorded(old)' /\ Recorded(bak)' /\ Recorded(tmp)' /\ Recorded(memory)'
      BY <2>1, <3>1 DEF Inv, TypeOK, RowsFirst, Recorded
    <3>3. \A x \in Request : Recorded(edit[x].read)'
      BY <2>1, <3>1 DEF Inv, TypeOK, RowsFirst, Recorded
    <3>4. \A x \in Request : /\ call'[x].at \in Editing => audit'[x] # "none"
                             /\ call'[x].at \in Holding => edit'[x].read # None
      BY <2>1, <2>2, <2>3 DEF Inv, RowsFirst, Holding
    <3> QED BY <3>2, <3>3, <3>4 DEF RowsFirst
  <2>6. Window'
    BY <2>1, <2>2 DEF Inv, Window
  <2>7. Alone' => OneAtATime'
    BY <2>1, <2>2, LookingKeeps DEF Steps
  <2> QED BY <2>2, <2>4, <2>5, <2>6, <2>7 DEF Inv
<1> QED BY <1>1, <1>2 DEF BeginAudit


LEMMA StatGood ==
  ASSUME Inv, NEW q \in Request, Stat(q)
  PROVE  Inv'
<1>1. CASE Settle(q, "failed")
  BY <1>1, SettleGood DEF Stat, Listing, Steps
<1>2. CASE /\ dat # None
           /\ edit' = [edit EXCEPT ![q].touched = FALSE]
           /\ Goes(q, "read")
           /\ UNCHANGED <<disk, audit>>
  <2>1. UNCHANGED <<dat, old, bak, tmp, memory, saving, audit>>
    BY <1>2 DEF Stat, disk, game
  <2>2. /\ PresenceTypeOK' /\ OnlyEdits' /\ load' = load
        /\ \A x \in Request : call'[x].at = IF x = q THEN "read" ELSE call[x].at
        /\ call[q].at = "stat"
    BY <1>2, MovesTyped DEF Stat, Near, Editing, Steps, Listing
  <2>3. /\ edit' \in [Request -> [read : Files, touched : BOOLEAN, fd : Places,
                                  found : {"unread", "data", "nothing"}]]
        /\ \A x \in Request :
             /\ edit'[x].read = edit[x].read /\ edit'[x].fd = edit[x].fd
             /\ edit'[x].found = edit[x].found
             /\ x # q => edit'[x].touched = edit[x].touched
    BY <1>2 DEF Inv, TypeOK
  <2>4. TypeOK' /\ SavesSomeone'
    BY <2>1, <2>2, <2>3 DEF Inv, TypeOK, SavesSomeone
  <2>5. RowsFirst' /\ Window'
    BY <2>1, <2>2, <2>3 DEF Inv, RowsFirst, Recorded, Window, Editing, Holding
  <2>6. Alone' => OneAtATime'
    BY <2>1, <2>2, <2>3, LookingKeeps DEF Steps
  <2> QED BY <2>2, <2>4, <2>5, <2>6 DEF Inv
<1> QED BY <1>1, <1>2 DEF Stat

LEMMA ReadGood ==
  ASSUME Inv, NEW q \in Request, Read(q)
  PROVE  Inv'
<1>1. CASE Settle(q, "failed")
  BY <1>1, SettleGood DEF Read, Listing, Steps
<1>2. CASE /\ Readable(dat)
           /\ edit' = [edit EXCEPT ![q].read = dat]
           /\ Goes(q, "recheck")
           /\ UNCHANGED <<disk, audit>>
  <2>1. UNCHANGED <<dat, old, bak, tmp, memory, saving, audit>>
    BY <1>2 DEF Read, disk, game
  <2>2. /\ PresenceTypeOK' /\ OnlyEdits' /\ load' = load
        /\ \A x \in Request : call'[x].at = IF x = q THEN "recheck" ELSE call[x].at
        /\ call[q].at = "read"
    BY <1>2, MovesTyped DEF Read, Near, Editing, Steps, Listing
  <2>3. /\ edit' \in [Request -> [read : Files, touched : BOOLEAN, fd : Places,
                                  found : {"unread", "data", "nothing"}]]
        /\ edit'[q].read = dat
        /\ \A x \in Request :
             /\ edit'[x].touched = edit[x].touched /\ edit'[x].fd = edit[x].fd
             /\ edit'[x].found = edit[x].found
             /\ x # q => edit'[x].read = edit[x].read
    BY <1>2 DEF Inv, TypeOK
  <2>4. dat # None /\ Whole(dat)
    BY <1>2 DEF Readable, Whole
  <2>5. TypeOK' /\ SavesSomeone'
    BY <2>1, <2>2, <2>3 DEF Inv, TypeOK, SavesSomeone
  <2>6. RowsFirst' /\ Window'
    BY <2>1, <2>2, <2>3, <2>4 DEF Inv, RowsFirst, Recorded, Window, Editing, Holding
  <2>7. Alone' => OneAtATime'
    BY <2>1, <2>2, <2>3, <2>4, LookingKeeps DEF Steps
  <2> QED BY <2>2, <2>5, <2>6, <2>7 DEF Inv
<1> QED BY <1>1, <1>2 DEF Read

LEMMA RecheckGood ==
  ASSUME Inv, NEW q \in Request, Recheck(q)
  PROVE  Inv'
<1>1. CASE Settle(q, "failed")
  BY <1>1, SettleGood DEF Recheck, Listing, Steps
<1>2. CASE /\ dat # None /\ ~edit[q].touched
           /\ edit' = [edit EXCEPT ![q].touched = FALSE]
           /\ Goes(q, "backup")
           /\ UNCHANGED <<disk, audit>>
  <2>1. UNCHANGED <<dat, old, bak, tmp, memory, saving, audit>>
    BY <1>2 DEF Recheck, disk, game
  <2>2. /\ PresenceTypeOK' /\ OnlyEdits' /\ load' = load
        /\ \A x \in Request : call'[x].at = IF x = q THEN "backup" ELSE call[x].at
        /\ call[q].at = "recheck"
    BY <1>2, MovesTyped DEF Recheck, Near, Editing, Steps, Listing
  <2>3. /\ edit' \in [Request -> [read : Files, touched : BOOLEAN, fd : Places,
                                  found : {"unread", "data", "nothing"}]]
        /\ \A x \in Request :
             /\ edit'[x].read = edit[x].read /\ edit'[x].fd = edit[x].fd
             /\ edit'[x].found = edit[x].found
             /\ edit'[x].touched = edit[x].touched
    BY <1>2 DEF Inv, TypeOK
  <2>4. TypeOK' /\ SavesSomeone'
    BY <2>1, <2>2, <2>3 DEF Inv, TypeOK, SavesSomeone
  <2>5. RowsFirst' /\ Window'
    BY <2>1, <2>2, <2>3 DEF Inv, RowsFirst, Recorded, Window, Editing, Holding
  <2>6. Alone' => OneAtATime'
    BY <2>1, <2>2, <2>3, LookingKeeps DEF Steps
  <2> QED BY <2>2, <2>4, <2>5, <2>6 DEF Inv
<1> QED BY <1>1, <1>2 DEF Recheck

LEMMA BackupGood ==
  ASSUME Inv, NEW q \in Request, Backup(q)
  PROVE  Inv'
<1>1. CASE Settle(q, "failed")
  BY <1>1, SettleGood DEF Backup, Listing, Steps
<1>2. CASE /\ dat # None
           /\ bak' = dat
           /\ Goes(q, "open")
           /\ UNCHANGED <<dat, old, tmp, edit, audit>>
  <2>1. UNCHANGED <<dat, old, tmp, memory, saving, audit, edit>> /\ bak' = dat
    BY <1>2 DEF Backup, game
  <2>2. /\ PresenceTypeOK' /\ OnlyEdits' /\ load' = load
        /\ \A x \in Request : call'[x].at = IF x = q THEN "open" ELSE call[x].at
        /\ call[q].at = "backup"
    BY <1>2, MovesTyped DEF Backup, Near, Editing, Steps, Listing
  <2>3. TypeOK' /\ SavesSomeone'
    BY <2>1, <2>2 DEF Inv, TypeOK, SavesSomeone
  <2>4. RowsFirst' /\ Window'
    BY <2>1, <2>2 DEF Inv, RowsFirst, Recorded, Window, Editing, Holding
  <2>5. Alone' => OneAtATime'
    BY <2>1, <2>2, LookingKeeps DEF Steps
  <2> QED BY <2>2, <2>3, <2>4, <2>5 DEF Inv
<1> QED BY <1>1, <1>2 DEF Backup


EditTypes == [read : Files, touched : BOOLEAN, fd : Places, found : {"unread", "data", "nothing"}]

LEMMA OpenGood ==
  ASSUME Inv, NEW q \in Request, Open(q)
  PROVE  Inv'
<1>1. UNCHANGED <<dat, old, bak, memory, saving, audit>>
  BY DEF Open, game
<1>2. /\ PresenceTypeOK' /\ OnlyEdits' /\ load' = load
      /\ \A x \in Request : call'[x].at = IF x = q THEN "write" ELSE call[x].at
      /\ call[q].at = "open"
  BY MovesTyped DEF Open, Near, Editing, Steps, Listing
<1>3. tmp' \in Data /\ tmp'.edits = {} /\ ~tmp'.whole /\ tmp' # None
  <2>1. tmp' = [save |-> 0, edits |-> {}, whole |-> FALSE]
    BY DEF Open
  <2>2. tmp' \in Data
    BY <2>1 DEF Data
  <2> QED BY <2>1, <2>2, FilesAssumption
<1>4. /\ edit' \in [Request -> EditTypes]
      /\ \A x \in Request :
           /\ edit'[x].read = edit[x].read /\ edit'[x].touched = edit[x].touched
           /\ edit'[x].found = edit[x].found
           /\ edit'[x].fd = IF x = q THEN "tmp" ELSE edit[x].fd
  BY DEF Open, Inv, TypeOK, EditTypes, Places
<1>5. TypeOK' /\ SavesSomeone'
  BY <1>1, <1>2, <1>3, <1>4 DEF Inv, TypeOK, SavesSomeone, Files, EditTypes
<1>6. RowsFirst' /\ Window'
  BY <1>1, <1>2, <1>3, <1>4 DEF Inv, RowsFirst, Recorded, Window, Editing, Holding
<1>7. Alone' => OneAtATime'
  <2> SUFFICES ASSUME Alone' PROVE OneAtATime'
    OBVIOUS
  <2>1. /\ OneAtATime
        /\ \A x \in Request \ {q} : call[x].at \notin Near /\ edit[x].fd = None
    BY <1>2, LoneEditor DEF Near, Editing
  <2>2. ASSUME NEW x \in Request
        PROVE  /\ Whole(edit[x].read)'
               /\ edit'[x].fd # None => edit'[x].fd = "tmp" /\ call'[x].at = "write"
               /\ call'[x].at = "write" => edit'[x].fd = "tmp" /\ tmp' # None /\ ~tmp'.whole
               /\ call'[x].at = "rename" => tmp' # None /\ tmp'.whole
               /\ call'[x].at = "view old" => old' # None
               /\ edit'[x].found # "nothing"
    <3>1. Whole(edit[x].read)' /\ edit'[x].found # "nothing"
      BY <1>4, <2>1 DEF OneAtATime, Whole
    <3>2. call'[x].at = "view old" => old' # None
      BY <1>1, <1>2, <2>1 DEF OneAtATime
    <3>3. CASE x = q
      <4>1. call'[x].at = "write" /\ edit'[x].fd = "tmp"
        BY <3>3, <1>2, <1>4
      <4>2. tmp' # None /\ ~tmp'.whole
        BY <1>3
      <4> QED BY <3>1, <4>1, <4>2
    <3>4. CASE x # q
      <4>1. call'[x].at = call[x].at /\ call[x].at \notin {"write", "rename"}
        BY <3>4, <1>2, <2>1 DEF Near, Editing
      <4>2. edit'[x].fd = None
        BY <3>4, <1>4, <2>1
      <4> QED BY <3>1, <3>2, <4>1, <4>2
    <3> QED BY <3>3, <3>4
  <2> QED BY <1>1, <2>1, <2>2 DEF OneAtATime, Whole
<1> QED BY <1>2, <1>5, <1>6, <1>7 DEF Inv

(* The bytes reach one file, or none, and carry the edit they came from.   *)
LEMMA WriteLands ==
  ASSUME Inv, NEW q \in Request, Write(q)
  PROVE  \E f \in Data :
           /\ f.edits = edit[q].read.edits \cup {q}
           /\ \/ /\ edit[q].fd = "tmp" /\ tmp' = f /\ UNCHANGED <<dat, old>>
                 /\ tmp.whole = FALSE => f.whole
              \/ edit[q].fd = "dat" /\ dat' = f /\ UNCHANGED <<old, tmp>>
              \/ edit[q].fd = "old" /\ old' = f /\ UNCHANGED <<dat, tmp>>
              \/ edit[q].fd = "gone" /\ UNCHANGED <<dat, old, tmp>>
<1>1. edit[q].read \in Data
  BY DEF Inv, TypeOK, RowsFirst, Write, At, Holding, Files
<1>2. ASSUME NEW w \in BOOLEAN
      PROVE  /\ [Edited(q) EXCEPT !.whole = w] \in Data
             /\ [Edited(q) EXCEPT !.whole = w].edits = edit[q].read.edits \cup {q}
             /\ [Edited(q) EXCEPT !.whole = w].whole = w
  BY <1>1 DEF Edited, Data
<1>3. CASE /\ edit[q].fd = "tmp"
           /\ tmp' \in {[Edited(q) EXCEPT !.whole = w] :
                          w \in IF tmp.whole THEN BOOLEAN ELSE {TRUE}}
           /\ UNCHANGED <<dat, old>>
  <2>1. PICK w \in BOOLEAN : tmp' = [Edited(q) EXCEPT !.whole = w] /\ (tmp.whole = FALSE => w)
    BY <1>3
  <2> QED BY <1>2, <1>3, <2>1
<1>4. CASE /\ edit[q].fd = "dat"
           /\ dat' \in {[Edited(q) EXCEPT !.whole = w] :
                          w \in IF dat.whole THEN BOOLEAN ELSE {TRUE}}
           /\ UNCHANGED <<old, tmp>>
  <2>1. PICK w \in BOOLEAN : dat' = [Edited(q) EXCEPT !.whole = w]
    BY <1>4
  <2> QED BY <1>2, <1>4, <2>1
<1>5. CASE /\ edit[q].fd = "old"
           /\ old' \in {[Edited(q) EXCEPT !.whole = w] :
                          w \in IF old.whole THEN BOOLEAN ELSE {TRUE}}
           /\ UNCHANGED <<dat, tmp>>
  <2>1. PICK w \in BOOLEAN : old' = [Edited(q) EXCEPT !.whole = w]
    BY <1>5
  <2> QED BY <1>2, <1>5, <2>1
<1>6. CASE edit[q].fd = "gone" /\ UNCHANGED <<dat, old, tmp>>
  BY <1>2, <1>6
<1> QED BY <1>3, <1>4, <1>5, <1>6 DEF Write

LEMMA WriteGood ==
  ASSUME Inv, NEW q \in Request, Write(q)
  PROVE  Inv'
<1>1. UNCHANGED <<bak, memory, saving, audit>>
  BY DEF Write, game
<1>2. /\ PresenceTypeOK' /\ OnlyEdits' /\ load' = load
      /\ \A x \in Request : call'[x].at = IF x = q THEN "rename" ELSE call[x].at
      /\ call[q].at = "write"
  BY MovesTyped DEF Write, Near, Editing, Steps, Listing
<1>3. PICK f \in Data :
        /\ f.edits = edit[q].read.edits \cup {q}
        /\ \/ /\ edit[q].fd = "tmp" /\ tmp' = f /\ UNCHANGED <<dat, old>>
              /\ tmp.whole = FALSE => f.whole
           \/ edit[q].fd = "dat" /\ dat' = f /\ UNCHANGED <<old, tmp>>
           \/ edit[q].fd = "old" /\ old' = f /\ UNCHANGED <<dat, tmp>>
           \/ edit[q].fd = "gone" /\ UNCHANGED <<dat, old, tmp>>
  BY WriteLands
<1>4. /\ edit' \in [Request -> EditTypes]
      /\ \A x \in Request :
           /\ edit'[x].read = edit[x].read /\ edit'[x].found = edit[x].found
           /\ edit'[x].fd = IF x = q THEN None ELSE edit[x].fd
           /\ ~edit'[x].touched => ~edit[x].touched /\ edit[q].fd # "dat"
  <2> DEFINE e == IF edit[q].fd = "dat" THEN Touched(edit) ELSE edit
  <2>1. /\ e \in [Request -> EditTypes]
        /\ \A x \in Request :
             /\ e[x].read = edit[x].read /\ e[x].found = edit[x].found /\ e[x].fd = edit[x].fd
             /\ ~e[x].touched => ~edit[x].touched /\ edit[q].fd # "dat"
    <3>1. CASE edit[q].fd = "dat"
      BY <3>1 DEF Touched, Inv, TypeOK, EditTypes
    <3>2. CASE edit[q].fd # "dat"
      BY <3>2 DEF Inv, TypeOK, EditTypes
    <3> QED BY <3>1, <3>2
  <2>2. edit' = [e EXCEPT ![q].fd = None]
    BY DEF Write
  <2> HIDE DEF e
  <2> QED BY <2>1, <2>2 DEF EditTypes, Places
<1>5. TypeOK' /\ SavesSomeone'
  BY <1>1, <1>2, <1>3, <1>4 DEF Inv, TypeOK, SavesSomeone, Files, EditTypes
<1>6. RowsFirst'
  <2>1. edit[q].read # None /\ audit[q] # "none" /\ Recorded(edit[q].read)
    BY <1>2 DEF Inv, RowsFirst, Editing, Holding
  <2>2. \A x \in f.edits : audit[x] # "none"
    BY <1>3, <2>1 DEF Recorded
  <2>3. Recorded(dat)' /\ Recorded(old)' /\ Recorded(tmp)' /\ Recorded(bak)' /\ Recorded(memory)'
    BY <1>1, <1>3, <2>2 DEF Inv, RowsFirst, Recorded
  <2>4. \A x \in Request : /\ call'[x].at \in Editing => audit'[x] # "none"
                           /\ Recorded(edit[x].read)'
                           /\ call'[x].at \in Holding => edit'[x].read # None
    BY <1>1, <1>2, <1>4, <2>1 DEF Inv, RowsFirst, Recorded
  <2> QED BY <2>3, <2>4 DEF RowsFirst
<1>7. Window'
  <2>1. ASSUME NEW x \in Request, ~edit'[x].touched
        PROVE  dat' = dat /\ bak' = bak /\ edit'[x].read = edit[x].read /\ ~edit[x].touched
    BY <1>1, <1>3, <1>4, <2>1
  <2> QED BY <1>2, <2>1 DEF Inv, Window
<1>8. Alone' => OneAtATime'
  <2> SUFFICES ASSUME Alone' PROVE OneAtATime'
    OBVIOUS
  <2>1. /\ OneAtATime
        /\ \A x \in Request \ {q} : call[x].at \notin Near /\ edit[x].fd = None
    BY <1>2, LoneEditor DEF Near, Editing
  <2>2. edit[q].fd = "tmp" /\ tmp.whole = FALSE
    <3>1. edit[q].fd = "tmp" /\ tmp # None /\ ~tmp.whole
      BY <1>2, <2>1 DEF OneAtATime
    <3>2. tmp \in Data
      BY <3>1 DEF Inv, TypeOK, Files
    <3> QED BY <3>1, <3>2 DEF Data
  <2>3. UNCHANGED <<dat, old>> /\ tmp' # None /\ tmp'.whole
    BY <1>3, <2>2, FilesAssumption
  <2>4. ASSUME NEW x \in Request
        PROVE  /\ Whole(edit[x].read)'
               /\ edit'[x].fd # None => edit'[x].fd = "tmp" /\ call'[x].at = "write"
               /\ call'[x].at = "write" => edit'[x].fd = "tmp" /\ tmp' # None /\ ~tmp'.whole
               /\ call'[x].at = "rename" => tmp' # None /\ tmp'.whole
               /\ call'[x].at = "view old" => old' # None
               /\ edit'[x].found # "nothing"
    <3>1. Whole(edit[x].read)' /\ edit'[x].found # "nothing"
      BY <1>4, <2>1 DEF OneAtATime, Whole
    <3>2. call'[x].at = "view old" => old' # None
      BY <1>2, <2>1, <2>3 DEF OneAtATime
    <3>3. CASE x = q
      BY <3>1, <3>2, <3>3, <1>2, <1>4, <2>3
    <3>4. CASE x # q
      BY <3>1, <3>2, <3>4, <1>2, <1>4, <2>1 DEF Near, Editing
    <3> QED BY <3>3, <3>4
  <2> QED BY <1>1, <2>1, <2>3, <2>4 DEF OneAtATime, Whole
<1> QED BY <1>2, <1>5, <1>6, <1>7, <1>8 DEF Inv

LEMMA RenameGood ==
  ASSUME Inv, NEW q \in Request, Rename(q)
  PROVE  Inv'
<1>1. CASE Settle(q, "failed")
  BY <1>1, SettleGood DEF Rename, Listing, Steps
<1>2. CASE /\ tmp # None
           /\ dat' = tmp /\ tmp' = None
           /\ edit' = Touched(Moved(edit, "tmp", "dat"))
           /\ Goes(q, "settle")
           /\ UNCHANGED <<old, bak, audit>>
  <2>1. UNCHANGED <<old, bak, memory, saving, audit>> /\ dat' = tmp /\ tmp' = None /\ tmp # None
    BY <1>2 DEF Rename, game
  <2>2. /\ PresenceTypeOK' /\ OnlyEdits' /\ load' = load
        /\ \A x \in Request : call'[x].at = IF x = q THEN "settle" ELSE call[x].at
        /\ call[q].at = "rename"
    BY <1>2, MovesTyped DEF Rename, Near, Editing, Steps, Listing
  <2>3. /\ edit' \in [Request -> EditTypes]
        /\ \A x \in Request :
             /\ edit'[x].read = edit[x].read /\ edit'[x].found = edit[x].found
             /\ edit'[x].touched
             /\ edit[x].fd = None => edit'[x].fd = None
    BY <1>2, MovedTyped DEF Inv, EditTypes
  <2>4. TypeOK' /\ SavesSomeone'
    BY <2>1, <2>2, <2>3 DEF Inv, TypeOK, SavesSomeone, Files, EditTypes
  <2>5. RowsFirst' /\ Window'
    BY <2>1, <2>2, <2>3 DEF Inv, RowsFirst, Recorded, Window, Editing, Holding
  <2>6. Alone' => OneAtATime'
    <3> SUFFICES ASSUME Alone' PROVE OneAtATime'
      OBVIOUS
    <3>1. /\ OneAtATime
          /\ \A x \in Request \ {q} : call[x].at \notin Near /\ edit[x].fd = None
      BY <2>2, LoneEditor DEF Near, Editing
    <3>2. tmp.whole /\ edit[q].fd = None
      BY <2>2, <3>1 DEF OneAtATime
    <3>3. ASSUME NEW x \in Request
          PROVE  /\ Whole(edit[x].read)'
                 /\ edit'[x].fd # None => edit'[x].fd = "tmp" /\ call'[x].at = "write"
                 /\ call'[x].at = "write" => edit'[x].fd = "tmp" /\ tmp' # None /\ ~tmp'.whole
                 /\ call'[x].at = "rename" => tmp' # None /\ tmp'.whole
                 /\ call'[x].at = "view old" => old' # None
                 /\ edit'[x].found # "nothing"
      BY <2>1, <2>2, <2>3, <3>1, <3>2 DEF OneAtATime, Whole, Near, Editing
    <3> QED BY <2>1, <3>1, <3>2, <3>3 DEF OneAtATime, Whole
  <2> QED BY <2>2, <2>4, <2>5, <2>6 DEF Inv
<1> QED BY <1>1, <1>2 DEF Rename

LEMMA SucceedGood ==
  ASSUME Inv, NEW q \in Request, Succeed(q)
  PROVE  Inv'
BY SettleGood DEF Succeed, Listing, Steps

LEMMA DiskFailsGood ==
  ASSUME Inv, NEW q \in Request, DiskFails(q)
  PROVE  Inv'
BY SettleGood DEF DiskFails, Listing, Steps

LEMMA AbandonGood ==
  ASSUME Inv, NEW q \in Request, Abandon(q)
  PROVE  Inv'
BY EndsGood DEF Abandon, At, Listing


-----------------------------------------------------------------------------
(* Views.                                                                  *)
LEMMA BeginViewGood ==
  ASSUME Inv, NEW q \in Request, BeginView(q)
  PROVE  Inv'
<1>1. UNCHANGED <<dat, old, bak, tmp, memory, saving, audit>>
  BY DEF BeginView, disk, game
<1>2. /\ PresenceTypeOK' /\ OnlyEdits' /\ load' = load
      /\ \A x \in Request : call'[x].at = IF x = q THEN "view" ELSE call[x].at
      /\ call[q].at = "idle"
  BY MovesTyped DEF BeginView, Near, Editing, Steps, Listing
<1>3. /\ edit' \in [Request -> EditTypes]
      /\ \A x \in Request : edit'[x] = IF x = q THEN NoEdit ELSE edit[x]
  BY DEF BeginView, Inv, TypeOK, EditTypes, NoEdit, Files, Places
<1>4. /\ NoEdit.read = None /\ NoEdit.fd = None /\ NoEdit.found = "unread"
  BY DEF NoEdit
<1>5. TypeOK' /\ SavesSomeone'
  BY <1>1, <1>2, <1>3 DEF Inv, TypeOK, SavesSomeone, EditTypes
<1>6. RowsFirst' /\ Window'
  BY <1>1, <1>2, <1>3, <1>4 DEF Inv, RowsFirst, Recorded, Window, Editing, Holding
<1>7. Alone' => OneAtATime'
  <2> SUFFICES ASSUME Alone' PROVE OneAtATime'
    OBVIOUS
  <2>1. OneAtATime
    BY <1>2 DEF Inv, Alone
  <2>2. ASSUME NEW x \in Request
        PROVE  /\ Whole(edit[x].read)'
               /\ edit'[x].fd # None => edit'[x].fd = "tmp" /\ call'[x].at = "write"
               /\ call'[x].at = "write" => edit'[x].fd = "tmp" /\ tmp' # None /\ ~tmp'.whole
               /\ call'[x].at = "rename" => tmp' # None /\ tmp'.whole
               /\ call'[x].at = "view old" => old' # None
               /\ edit'[x].found # "nothing"
    <3>1. CASE x = q
      BY <3>1, <1>2, <1>3, <1>4 DEF Whole
    <3>2. CASE x # q
      BY <3>2, <1>1, <1>2, <1>3, <2>1 DEF OneAtATime, Whole
    <3> QED BY <3>1, <3>2
  <2> QED BY <1>1, <2>1, <2>2 DEF OneAtATime, Whole
<1> QED BY <1>2, <1>5, <1>6, <1>7 DEF Inv

(* A view ends with what it found, or goes on to the older file.           *)
LEMMA ViewGood ==
  ASSUME Inv, NEW q \in Request, View(q)
  PROVE  Inv'
<1>1. PICK place \in {"view", "view old"} :
        /\ At(q, place)
        /\ LET file == IF place = "view" THEN dat ELSE old IN
             \/ /\ Readable(file)
                /\ call' = [call EXCEPT ![q] = Idle]
                /\ edit' = [edit EXCEPT ![q].found = "data"]
             \/ /\ ~Readable(file)
                /\ IF place = "view" THEN Goes(q, "view old") /\ UNCHANGED edit
                   ELSE /\ call' = [call EXCEPT ![q] = Idle]
                        /\ edit' = [edit EXCEPT ![q].found = "nothing"]
        /\ UNCHANGED <<spent, disk, game, audit>>
  BY DEF View
<1>2. /\ UNCHANGED <<dat, old, bak, tmp, memory, saving, audit>>
      /\ UNCHANGED <<load, spent, joined, lines, online, synced, attempted, cache>>
      /\ call[q].at = place
  BY <1>1 DEF disk, game, At, server, sync
<1>3. BudgetsOK /\ WorldOK /\ SyncOK /\ ProbeOK
  BY PresenceParts DEF Inv, TypeOK
<1>4. PICK to \in {"idle", "view old"} :
        /\ ProbeOK'
        /\ \A x \in Request : call'[x].at = IF x = q THEN to ELSE call[x].at
        /\ to = "view old" => place = "view" /\ ~Readable(dat) /\ UNCHANGED edit
  <2>1. CASE call' = [call EXCEPT ![q] = Idle]
    BY <2>1, <1>2, <1>3, CallKeeps, IdleTyped DEF ProbeOK, Listing
  <2>2. CASE Goes(q, "view old") /\ UNCHANGED edit /\ place = "view" /\ ~Readable(dat)
    <3>1. ProbeOK'
      BY <2>2, <1>2, <1>3, GoesKeeps DEF Listing, Steps
    <3> QED BY <2>2, <3>1, <1>3 DEF Goes, ProbeOK, CallTypes
  <2> QED BY <1>1, <2>1, <2>2
<1>5. /\ edit' \in [Request -> EditTypes]
      /\ \A x \in Request :
           /\ edit'[x].read = edit[x].read /\ edit'[x].touched = edit[x].touched
           /\ edit'[x].fd = edit[x].fd
           /\ \/ edit'[x].found \in {edit[x].found, "data"}
              \/ place = "view old" /\ ~Readable(old)
  <2>1. \/ edit' = [edit EXCEPT ![q].found = "data"]
        \/ edit' = edit
        \/ edit' = [edit EXCEPT ![q].found = "nothing"] /\ place = "view old" /\ ~Readable(old)
    BY <1>1
  <2>2. edit \in [Request -> EditTypes]
    BY DEF Inv, TypeOK, EditTypes
  <2>3. ASSUME NEW found \in {"data", "nothing"}, edit' = [edit EXCEPT ![q].found = found]
        PROVE  /\ edit' \in [Request -> EditTypes]
               /\ \A x \in Request :
                    /\ edit'[x].read = edit[x].read /\ edit'[x].touched = edit[x].touched
                    /\ edit'[x].fd = edit[x].fd
                    /\ edit'[x].found \in {edit[x].found, found}
    BY <2>2, <2>3 DEF EditTypes
  <2> QED BY <2>1, <2>2, <2>3
<1>6. TypeOK' /\ SavesSomeone'
  <2>1. PresenceTypeOK'
    BY <1>2, <1>3, <1>4, PresencePartsNext DEF BudgetsOK, WorldOK, SyncOK
  <2> QED BY <2>1, <1>2, <1>5 DEF Inv, TypeOK, SavesSomeone, EditTypes
<1>7. RowsFirst' /\ Window' /\ OnlyEdits'
  <2>1. \A x \in Request : call'[x].at \in Near => call'[x].at = call[x].at
    BY <1>4 DEF Near, Editing
  <2>2. RowsFirst'
    BY <1>2, <1>5, <2>1 DEF Inv, RowsFirst, Recorded, Near, Editing, Holding
  <2>3. Window'
    BY <1>2, <1>5, <2>1 DEF Inv, Window, Near, Editing
  <2>4. OnlyEdits'
    BY <1>2, <2>1 DEF Inv, OnlyEdits, Near
  <2> QED BY <2>2, <2>3, <2>4
<1>8. Alone' => OneAtATime'
  <2> SUFFICES ASSUME Alone' PROVE OneAtATime'
    OBVIOUS
  <2>1. OneAtATime
    BY <1>2 DEF Inv, Alone
  <2>2. /\ ~Readable(dat) => old # None
        /\ place = "view old" => Readable(old)
    BY <1>2, <2>1 DEF OneAtATime, Whole, Readable
  <2>3. ASSUME NEW x \in Request
        PROVE  /\ Whole(edit[x].read)'
               /\ edit'[x].fd # None => edit'[x].fd = "tmp" /\ call'[x].at = "write"
               /\ call'[x].at = "write" => edit'[x].fd = "tmp" /\ tmp' # None /\ ~tmp'.whole
               /\ call'[x].at = "rename" => tmp' # None /\ tmp'.whole
               /\ call'[x].at = "view old" => old' # None
               /\ edit'[x].found # "nothing"
    <3>1. Whole(edit[x].read)' /\ edit'[x].found # "nothing"
      BY <1>5, <2>1, <2>2 DEF OneAtATime, Whole
    <3>2. CASE x = q
      BY <3>1, <3>2, <1>2, <1>4, <1>5, <2>1, <2>2 DEF OneAtATime
    <3>3. CASE x # q
      BY <3>1, <3>3, <1>2, <1>4, <1>5, <2>1 DEF OneAtATime
    <3> QED BY <3>2, <3>3
  <2> QED BY <1>2, <2>1, <2>3 DEF OneAtATime, Whole
<1> QED BY <1>6, <1>7, <1>8 DEF Inv

-----------------------------------------------------------------------------
LEMMA InitInvariant == Init => Inv
<1> SUFFICES ASSUME Init PROVE Inv
  OBVIOUS
<1>1. load \in Loads /\ load.names \subseteq Name /\ \A k \in Budgets : load[k] \in Nat
  BY LoadsAssumption DEF Init, InitPresence
<1>2. /\ spent = [changes |-> 0, faults |-> 0, saves |-> 0, edits |-> 0]
      /\ joined \subseteq Name /\ online \subseteq Name /\ lines = <<>>
      /\ synced \in {None, 0} /\ attempted \in {None, 0} /\ cached = None /\ prober = None
  BY <1>1 DEF Init, InitPresence
<1>3. BudgetsOK
  BY <1>1, <1>2 DEF BudgetsOK, Budgets
<1>4. WorldOK /\ SyncOK
  BY <1>2, TimesAssumption DEF WorldOK, SyncOK, Ages
<1>5. call \in [Request -> CallTypes] /\ \A q \in Request : call[q].at = "idle"
  BY IdleTyped DEF Init
<1>6. ProbeOK
  BY <1>2, <1>5, LoadsAssumption DEF ProbeOK, Listing
<1>7. dat \in Data /\ dat.edits = {} /\ dat.whole /\ dat # None
  <2>1. dat = [save |-> 0, edits |-> {}, whole |-> TRUE]
    BY DEF Init
  <2>2. dat \in Data
    BY <2>1 DEF Data
  <2> QED BY <2>1, <2>2, FilesAssumption
<1>8. /\ old \in {None, dat} /\ bak = None /\ tmp = None /\ memory \in {None, dat}
      /\ saving = FALSE /\ audit = [q \in Request |-> "none"]
      /\ edit = [q \in Request |-> NoEdit]
  BY DEF Init
<1>9. NoEdit \in EditTypes /\ NoEdit.read = None /\ NoEdit.fd = None /\ NoEdit.found = "unread"
  BY DEF NoEdit, EditTypes, Files, Places
<1>10. TypeOK
  <2>1. PresenceTypeOK
    BY <1>3, <1>4, <1>6, PresenceParts
  <2> QED BY <2>1, <1>7, <1>8, <1>9 DEF TypeOK, Files, EditTypes
<1>11. RowsFirst /\ Window /\ OnlyEdits /\ SavesSomeone
  BY <1>5, <1>7, <1>8, <1>9
     DEF RowsFirst, Recorded, Window, OnlyEdits, SavesSomeone, Editing, Holding
<1>12. OneAtATime
  BY <1>5, <1>7, <1>8, <1>9 DEF OneAtATime, Whole
<1> QED BY <1>10, <1>11, <1>12 DEF Inv

(* One case per step of the server, of the panel, of an edit and of a view.*)
LEMMA NextInvariant == Inv /\ [Next]_vars => Inv'
<1> SUFFICES ASSUME Inv, [Next]_vars PROVE Inv'
  OBVIOUS
<1>1. CASE Login \/ Logout \/ OthersMove \/ ServerRestarts \/ Rotate \/ Save
  BY <1>1, LoginGood, LogoutGood, OthersGood, ServerRestartsGood, RotateGood, SaveGood
<1>2. CASE (Tick \/ Apply) /\ UNCHANGED fileVars
  BY <1>2, TickTyped, ApplyTyped, AsideGood DEF Inv, TypeOK
<1>3. ASSUME NEW q \in Request, Panel(q)
      PROVE  Inv'
  BY <1>3, OnlineTyped, AsideGood DEF Panel, Inv, TypeOK
<1>4. ASSUME NEW q \in Request, EditStep(q)
      PROVE  Inv'
  BY <1>4, CheckOfflineGood, BeginAuditGood, StatGood, ReadGood, RecheckGood, BackupGood,
     OpenGood, WriteGood, RenameGood, SucceedGood DEF EditStep
<1>5. ASSUME NEW q \in Request,
             BeginView(q) \/ View(q) \/ DiskFails(q) \/ Abandon(q)
      PROVE  Inv'
  BY <1>5, BeginViewGood, ViewGood, DiskFailsGood, AbandonGood
<1>6. ASSUME NEW q \in Request, Drop(q) /\ UNCHANGED fileVars
      PROVE  Inv'
  BY <1>6, DropTyped, AsideGood DEF Inv, TypeOK
<1>7. CASE UNCHANGED vars
  <2>1. UNCHANGED fileVars /\ UNCHANGED presenceVars
    BY <1>7 DEF vars
  <2>2. PresenceTypeOK' /\ Aside
    BY <2>1 DEF presenceVars, server, sync, cache, Inv, TypeOK, PresenceTypeOK, Aside
  <2> QED BY <2>1, <2>2, AsideGood
<1> QED BY <1>1, <1>2, <1>3, <1>4, <1>5, <1>6, <1>7 DEF Next

-----------------------------------------------------------------------------
(* Every variable keeps its type, and exactly the request that holds the   *)
(* lock of the cached answer asks the server.                              *)
THEOREM PlayerFileTypeCorrect == Spec => []TypeOK
<1>1. Inv => TypeOK
  BY DEF Inv
<1> QED BY <1>1, InitInvariant, NextInvariant, PTL DEF Spec

(* Nobody's edit is in any of the files without its audit row, wherever    *)
(* the process stops and whatever it shares the temporary file with.       *)
THEOREM EditsRecordedHolds == Spec => []EditsRecorded
<1>1. Inv => EditsRecorded
  BY DEF Inv, RowsFirst, Recorded, EditsRecorded
<1> QED BY <1>1, InitInvariant, NextInvariant, PTL DEF Spec

(* An edit replaces the version it read and backed up, unless the file     *)
(* changed after the last look at its time stamp: any other edit or save   *)
(* touches dat, and the backup follows dat.                                *)
THEOREM ReplacesWhatItReadHolds == Spec => ReplacesWhatItRead
<1>1. Inv /\ [Next]_vars =>
        \A q \in Request :
          (call[q].at = "rename" /\ call'[q].at = "settle" /\ ~edit[q].touched)
            => dat = edit[q].read /\ bak = dat
  BY DEF Inv, Window
<1> QED BY <1>1, InitInvariant, NextInvariant, PTL DEF Spec, ReplacesWhatItRead

(* While edits come one at a time neither the server nor the panel ever    *)
(* meets half a file, whatever fails: bytes only go to the temporary file, *)
(* and it is renamed once they are all there.                              *)
THEOREM NoHalfFileHolds == Spec => []NoHalfFile
<1>1. Inv => NoHalfFile
  BY DEF Inv, OneAtATime, Whole, NoHalfFile, NeverHalf, ViewFindsFile
<1> QED BY <1>1, InitInvariant, NextInvariant, PTL DEF Spec

=============================================================================
