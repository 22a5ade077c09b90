----------------------------- MODULE PollsProof -----------------------------
(***************************************************************************)
(* Proofs about Polls for any users, polls, requests and clock: what holds *)
(* of the stored ballots, and that the handlers implement PollBoard.       *)
(***************************************************************************)
EXTENDS Polls, FiniteSetTheorems, TLAPS

(* A request that is not idle names a poll, and a vote its voter; an       *)
(* extension about to be written read a closing time.                      *)
RequestsNamed ==
  /\ \A r \in Req : vote[r].pc # "idle" =>
       vote[r].user \in User /\ vote[r].poll \in Poll
  /\ \A a \in Adm : admin[a].pc # "idle" => admin[a].poll \in Poll
  /\ \A a \in Adm : admin[a].pc = "extend_write" => admin[a].row.closes # Null

TypeInv == TypeOK /\ RequestsNamed

LEMMA NullIsNoTime == Null \notin Nat /\ Null \notin User /\ Null \notin Poll
BY RulesAssumption, PollsAssumption

LEMMA InitTypeInv == Init => TypeInv
<1> SUFFICES ASSUME Init PROVE TypeInv
  OBVIOUS
<1>1. NoRow \in Row
  BY DEF NoRow, Row, MaybeTime
<1>2. NoVote \in VoteRequest /\ NoAdmin \in AdminRequest
  BY <1>1 DEF NoVote, VoteRequest, VotePC, NoAdmin, AdminRequest, AdminPC,
              MaybeTime
<1>3. TypeOK
  BY <1>1, <1>2 DEF Init, TypeOK
<1>4. RequestsNamed
  BY DEF Init, RequestsNamed, NoVote, NoAdmin
<1> QED
  BY <1>3, <1>4 DEF TypeInv

LEMMA BlankRecords ==
  NoRow \in Row /\ NoVote \in VoteRequest /\ NoAdmin \in AdminRequest
<1>1. NoRow \in Row
  BY DEF NoRow, Row, MaybeTime
<1> QED
  BY <1>1 DEF NoVote, VoteRequest, VotePC, NoAdmin, AdminRequest, AdminPC,
              MaybeTime

(* A step that only replaces the record of one vote, or of one admin       *)
(* request, by a well-formed one.                                          *)
LEMMA VoteUpdate ==
  ASSUME TypeInv, NEW r \in Req, NEW v \in VoteRequest,
         v.pc # "idle" => v.user \in User /\ v.poll \in Poll,
         vote' = [vote EXCEPT ![r] = v],
         UNCHANGED <<now, accounts, flags, polls, ballots, admin>>
  PROVE  TypeInv'
BY DEF TypeInv, TypeOK, RequestsNamed

LEMMA AdminUpdate ==
  ASSUME TypeInv, NEW a \in Adm, NEW v \in AdminRequest,
         v.pc # "idle" => v.poll \in Poll,
         v.pc = "extend_write" => v.row.closes # Null,
         admin' = [admin EXCEPT ![a] = v],
         UNCHANGED <<now, accounts, flags, polls, ballots, vote>>
  PROVE  TypeInv'
BY DEF TypeInv, TypeOK, RequestsNamed

LEMMA VoteDoneTypeInv ==
  ASSUME TypeInv, NEW r \in Req, VoteDone(r),
         UNCHANGED <<now, accounts, flags, polls, ballots, admin>>
  PROVE  TypeInv'
<1>1. NoVote.pc = "idle"
  BY DEF NoVote
<1> QED
  BY <1>1, BlankRecords, VoteUpdate DEF VoteDone

LEMMA AdminDoneTypeInv ==
  ASSUME TypeInv, NEW a \in Adm, AdminDone(a),
         UNCHANGED <<now, accounts, flags, polls, ballots, vote>>
  PROVE  TypeInv'
<1>1. NoAdmin.pc = "idle"
  BY DEF NoAdmin
<1> QED
  BY <1>1, BlankRecords, AdminUpdate DEF AdminDone

LEMMA VoteTypeInv ==
  ASSUME TypeInv, NEW r \in Req, VoteArrive(r) \/ VoteStep(r) \/ VoteDropped(r)
  PROVE  TypeInv'
<1> USE DEF TypeInv, TypeOK, RequestsNamed
<1>1. CASE VoteArrive(r)
  <2>1. PICK u \in User, p \in Poll, chosen \in Choices :
          vote' = [vote EXCEPT ![r] = [NoVote EXCEPT !.pc = "viewer",
                     !.user = u, !.poll = p, !.chosen = chosen]]
    BY <1>1 DEF VoteArrive
  <2> DEFINE v == [NoVote EXCEPT !.pc = "viewer", !.user = u, !.poll = p,
                                 !.chosen = chosen]
  <2>2. chosen \in SUBSET Option
    BY PollsAssumption DEF Option
  <2>3. v \in VoteRequest /\ v.user \in User /\ v.poll \in Poll
    BY <2>2, BlankRecords DEF NoVote, VoteRequest, VotePC
  <2> QED
    BY <1>1, <2>1, <2>3, VoteUpdate DEF VoteArrive
<1>2. CASE VoteViewer(r)
  <2>1. CASE vote[r].user \in accounts
    <3> DEFINE v == [vote[r] EXCEPT !.pc = "load", !.flags = flags[vote[r].user]]
    <3>1. v \in VoteRequest /\ v.user \in User /\ v.poll \in Poll
      BY <1>2, BlankRecords DEF VoteViewer, VoteRequest, VotePC
    <3>2. vote' = [vote EXCEPT ![r] = v]
      BY <1>2, <2>1 DEF VoteViewer, VoteRequest
    <3> QED
      BY <1>2, <3>1, <3>2, VoteUpdate DEF VoteViewer
  <2>2. CASE ~(vote[r].user \in accounts)
    BY <1>2, <2>2, VoteDoneTypeInv DEF VoteViewer
  <2> QED
    BY <2>1, <2>2
<1>3. CASE VoteLoad(r)
  <2>1. CASE polls[vote[r].poll].open
    <3> DEFINE v == [vote[r] EXCEPT !.pc = "eligibility", !.row = polls[vote[r].poll]]
    <3>1. v \in VoteRequest /\ v.user \in User /\ v.poll \in Poll
      BY <1>3, BlankRecords DEF VoteLoad, VoteRequest, VotePC
    <3>2. vote' = [vote EXCEPT ![r] = v]
      BY <1>3, <2>1 DEF VoteLoad, VoteRequest
    <3> QED
      BY <1>3, <3>1, <3>2, VoteUpdate DEF VoteLoad
  <2>2. CASE ~polls[vote[r].poll].open
    BY <1>3, <2>2, VoteDoneTypeInv DEF VoteLoad
  <2> QED
    BY <2>1, <2>2
<1>4. CASE VoteEligibility(r)
  <2>1. CASE Eligible(vote[r].poll, vote[r].user, vote[r].flags)
    <3> DEFINE v == [vote[r] EXCEPT !.pc = "check", !.flags = {}]
    <3>1. v \in VoteRequest /\ v.user \in User /\ v.poll \in Poll
      BY <1>4, BlankRecords DEF VoteEligibility, VoteRequest, VotePC
    <3>2. vote' = [vote EXCEPT ![r] = v]
      BY <1>4, <2>1 DEF VoteEligibility, VoteRequest
    <3> QED
      BY <1>4, <3>1, <3>2, VoteUpdate DEF VoteEligibility
  <2>2. CASE ~Eligible(vote[r].poll, vote[r].user, vote[r].flags)
    BY <1>4, <2>2, VoteDoneTypeInv DEF VoteEligibility
  <2> QED
    BY <2>1, <2>2
<1>5. CASE VoteCheck(r)
  <2>1. CASE VoteAllowed(r)
    <3> DEFINE v == [vote[r] EXCEPT !.pc = "delete", !.row = NoRow]
    <3>1. v \in VoteRequest /\ v.user \in User /\ v.poll \in Poll
      BY <1>5, BlankRecords DEF VoteCheck, VoteRequest, VotePC
    <3>2. vote' = [vote EXCEPT ![r] = v]
      BY <1>5, <2>1 DEF VoteCheck, VoteRequest
    <3> QED
      BY <1>5, <3>1, <3>2, VoteUpdate DEF VoteCheck
  <2>2. CASE ~VoteAllowed(r)
    BY <1>5, <2>2, VoteDoneTypeInv DEF VoteCheck
  <2> QED
    BY <2>1, <2>2
<1>6. CASE VoteInsert(r)
  <2>1. CASE vote[r].user \in accounts
    <3> DEFINE v == [vote[r] EXCEPT !.pc = "commit"]
    <3>1. v \in VoteRequest /\ v.user \in User /\ v.poll \in Poll
      BY <1>6, BlankRecords DEF VoteInsert, VoteRequest, VotePC
    <3>2. vote' = [vote EXCEPT ![r] = v]
      BY <1>6, <2>1 DEF VoteInsert, VoteRequest
    <3> QED
      BY <1>6, <3>1, <3>2, VoteUpdate DEF VoteInsert
  <2>2. CASE ~(vote[r].user \in accounts)
    BY <1>6, <2>2, VoteDoneTypeInv DEF VoteInsert
  <2> QED
    BY <2>1, <2>2
<1>7. CASE VoteDelete(r)
  <2> DEFINE v == [vote[r] EXCEPT !.pc = "insert", !.deleted = ballots[vote[r].poll][vote[r].user]]
  <2>0. vote[r] \in VoteRequest /\ vote[r].user \in User /\ vote[r].poll \in Poll
    BY <1>7 DEF VoteDelete
  <2>a. ballots[vote[r].poll][vote[r].user] \in SUBSET Option
    BY <2>0
  <2>1. v \in VoteRequest /\ v.user \in User /\ v.poll \in Poll
    BY <2>0, <2>a DEF VoteRequest, VotePC
  <2>2. vote' = [vote EXCEPT ![r] = v]
    BY <1>7 DEF VoteDelete, VoteRequest
  <2> HIDE DEF v
  <2> QED
    BY <1>7, <2>1, <2>2, VoteUpdate DEF VoteDelete
<1>8. CASE VoteCommit(r)
  <2>1. ballots' \in [Poll -> [User -> SUBSET Option]]
    BY <1>8 DEF VoteCommit, VoteRequest
  <2>2. vote' \in [Req -> VoteRequest] /\ vote' = [vote EXCEPT ![r] = NoVote]
    BY <1>8, BlankRecords DEF VoteCommit, VoteDone
  <2>3. NoVote.pc = "idle"
    BY DEF NoVote
  <2> QED
    BY <1>8, <2>1, <2>2, <2>3 DEF VoteCommit
<1>9. CASE VoteDeadlock(r) \/ VoteDropped(r)
  BY <1>9, VoteDoneTypeInv DEF VoteDeadlock, VoteDropped
<1> QED
  BY <1>1, <1>2, <1>3, <1>4, <1>5, <1>6, <1>7, <1>8, <1>9 DEF VoteStep

LEMMA RowUpdate ==
  ASSUME NEW row \in Row, NEW t \in MaybeTime
  PROVE  [row EXCEPT !.ended = t] \in Row /\ [row EXCEPT !.closes = t] \in Row
BY DEF Row

LEMMA CreateDraft ==
  ASSUME NEW a \in Adm, CreateResolve(a)
  PROVE  \E q, row :
           /\ q \in Poll /\ ~polls[q].open /\ row.open
           /\ \A b \in Adm : admin[b].pc = "create_commit" => admin[b].poll # q
           /\ admin' = [admin EXCEPT ![a] = [NoAdmin EXCEPT
                          !.pc = "create_commit", !.poll = q, !.row = row]]
<1>1. PICK q \in Poll, multiple \in BOOLEAN, duration \in Durations,
           audience \in Audiences, excluded \in SUBSET accounts :
        /\ ~polls[q].open
        /\ \A b \in Adm : admin[b].pc = "create_commit" => admin[b].poll # q
        /\ NewPollAccepted(OptionsOf[q], audience)
        /\ duration # Null => now + duration <= Horizon
        /\ admin' = [admin EXCEPT ![a] = [NoAdmin EXCEPT
                       !.pc = "create_commit", !.poll = q,
                       !.row = NewRow(multiple, duration, audience, excluded)]]
  BY DEF CreateResolve
<1>2. NewRow(multiple, duration, audience, excluded).open
  BY DEF NewRow
<1> QED
  BY <1>1, <1>2

(* So do the steps of an admin request.                                    *)
LEMMA AdminTypeInv ==
  ASSUME TypeInv, NEW a \in Adm,
         \/ CreateResolve(a) \/ EndLoad(a) \/ ExtendArrive(a)
         \/ AdminStep(a) \/ AdminDropped(a)
  PROVE  TypeInv'
<1> USE DEF TypeInv, TypeOK, RequestsNamed
<1>1. CASE CreateResolve(a)
  <2>1. PICK p \in Poll, multiple \in BOOLEAN, duration \in Durations,
             audience \in Audiences, excluded \in SUBSET accounts :
          admin' = [admin EXCEPT ![a] = [NoAdmin EXCEPT
                      !.pc = "create_commit", !.poll = p,
                      !.row = NewRow(multiple, duration, audience, excluded)]]
    BY <1>1 DEF CreateResolve
  <2> DEFINE row == NewRow(multiple, duration, audience, excluded)
             v == [NoAdmin EXCEPT !.pc = "create_commit", !.poll = p,
                                  !.row = row]
  <2>2. ClosesAt(duration, now) \in MaybeTime /\ duration \in MaybeTime
    BY PollsAssumption DEF ClosesAt, MaybeTime
  <2>3. row \in Row
    BY <2>2, PollsAssumption DEF NewRow, Row, MaybeTime
  <2>4. v \in AdminRequest /\ v.poll \in Poll /\ v.pc # "extend_write"
    BY <2>3, BlankRecords DEF NoAdmin, AdminRequest, AdminPC
  <2> QED
    BY <1>1, <2>1, <2>4, AdminUpdate DEF CreateResolve
<1>2. CASE EndLoad(a)
  <2>1. PICK p \in Poll : admin' = [admin EXCEPT ![a] = [NoAdmin EXCEPT
                             !.pc = "end_check", !.poll = p, !.row = polls[p]]]
    BY <1>2 DEF EndLoad
  <2> DEFINE v == [NoAdmin EXCEPT !.pc = "end_check", !.poll = p,
                                  !.row = polls[p]]
  <2>2. v \in AdminRequest /\ v.poll \in Poll /\ v.pc # "extend_write"
    BY BlankRecords DEF NoAdmin, AdminRequest, AdminPC
  <2> QED
    BY <1>2, <2>1, <2>2, AdminUpdate DEF EndLoad
<1>3. CASE ExtendArrive(a)
  <2>1. PICK p \in Poll, by \in Extensions :
          admin' = [admin EXCEPT ![a] = [NoAdmin EXCEPT
                      !.pc = "extend_load", !.poll = p,
                      !.seen = polls[p].closes, !.by = by]]
    BY <1>3 DEF ExtendArrive
  <2> DEFINE v == [NoAdmin EXCEPT !.pc = "extend_load", !.poll = p,
                                  !.seen = polls[p].closes, !.by = by]
  <2>2. v \in AdminRequest /\ v.poll \in Poll /\ v.pc # "extend_write"
    BY BlankRecords, PollsAssumption DEF NoAdmin, AdminRequest, AdminPC, Row
  <2> QED
    BY <1>3, <2>1, <2>2, AdminUpdate DEF ExtendArrive
<1>4. CASE CreateCommit(a)
  <2>1. polls' \in [Poll -> Row]
    BY <1>4 DEF CreateCommit, AdminRequest
  <2>2. admin' \in [Adm -> AdminRequest] /\ admin' = [admin EXCEPT ![a] = NoAdmin]
    BY <1>4, BlankRecords DEF CreateCommit, AdminDone
  <2>3. NoAdmin.pc = "idle"
    BY DEF NoAdmin
  <2> QED
    BY <1>4, <2>1, <2>2, <2>3 DEF CreateCommit
<1>5. CASE EndCheck(a)
  <2> DEFINE v == [admin[a] EXCEPT !.pc = "end_write", !.at = now, !.row = NoRow]
  <2>1. v \in AdminRequest /\ v.poll \in Poll /\ v.pc # "extend_write"
    BY <1>5, BlankRecords DEF EndCheck, AdminRequest, AdminPC
  <2>2. \/ admin' = [admin EXCEPT ![a] = v]
        \/ AdminDone(a)
    BY <1>5 DEF EndCheck, AdminRequest
  <2> QED
    BY <1>5, <2>1, <2>2, AdminUpdate, AdminDoneTypeInv DEF EndCheck
<1>6. CASE EndWrite(a)
  <2>1. polls' \in [Poll -> Row]
    <3>1. CASE UNCHANGED polls
      BY <3>1
    <3>2. CASE \E t \in admin[a].at .. now :
                 polls' = [polls EXCEPT ![admin[a].poll].ended = t]
      <4>1. PICK t \in admin[a].at .. now :
              polls' = [polls EXCEPT ![admin[a].poll].ended = t]
        BY <3>2
      <4>2. t \in MaybeTime /\ admin[a].poll \in Poll
        BY <1>6 DEF EndWrite, AdminRequest, MaybeTime
      <4> DEFINE row == [polls[admin[a].poll] EXCEPT !.ended = t]
      <4>3. row \in Row
        BY <4>2, RowUpdate
      <4>4. polls' = [polls EXCEPT ![admin[a].poll] = row]
        BY <4>1
      <4> QED
        BY <4>3, <4>4
    <3> QED
      BY <1>6, <3>1, <3>2 DEF EndWrite
  <2>2. admin' \in [Adm -> AdminRequest] /\ admin' = [admin EXCEPT ![a] = NoAdmin]
    BY <1>6, BlankRecords DEF EndWrite, AdminDone
  <2>3. NoAdmin.pc = "idle"
    BY DEF NoAdmin
  <2> QED
    BY <1>6, <2>1, <2>2, <2>3 DEF EndWrite
<1>7. CASE ExtendLoad(a)
  <2> DEFINE v == [admin[a] EXCEPT !.pc = "extend_check",
                                   !.row = polls[admin[a].poll]]
  <2>1. v \in AdminRequest /\ v.poll \in Poll /\ v.pc # "extend_write"
    BY <1>7 DEF ExtendLoad, AdminRequest, AdminPC
  <2>2. admin' = [admin EXCEPT ![a] = v]
    BY <1>7 DEF ExtendLoad, AdminRequest
  <2> QED
    BY <1>7, <2>1, <2>2, AdminUpdate DEF ExtendLoad
<1>8. CASE ExtendCheck(a)
  <2> DEFINE v == [admin[a] EXCEPT !.pc = "extend_write", !.at = now]
  <2>1. v \in AdminRequest /\ v.poll \in Poll
    BY <1>8 DEF ExtendCheck, AdminRequest, AdminPC
  <2>2. \/ admin' = [admin EXCEPT ![a] = v] /\ v.row.closes # Null
        \/ AdminDone(a)
    BY <1>8 DEF ExtendCheck, AdminRequest, ExtendRefusal
  <2> QED
    BY <1>8, <2>1, <2>2, AdminUpdate, AdminDoneTypeInv DEF ExtendCheck
<1>9. CASE ExtendWrite(a)
  <2>1. polls' \in [Poll -> Row]
    <3>1. CASE UNCHANGED polls
      BY <3>1
    <3>2. CASE ExtendMatches(a) /\ ~UNCHANGED polls
      <4>1. polls' = [polls EXCEPT ![admin[a].poll].closes =
                        admin[a].row.closes + admin[a].by]
        BY <1>9, <3>2 DEF ExtendWrite, ExtensionTarget
      <4>2. admin[a].row.closes + admin[a].by \in MaybeTime
        BY <1>9, PollsAssumption DEF ExtendWrite, AdminRequest, Row, MaybeTime
      <4>3. admin[a].poll \in Poll
        BY <1>9 DEF ExtendWrite
      <4> DEFINE row == [polls[admin[a].poll] EXCEPT
                          !.closes = admin[a].row.closes + admin[a].by]
      <4>4. row \in Row
        BY <4>2, <4>3, RowUpdate
      <4>5. polls' = [polls EXCEPT ![admin[a].poll] = row]
        BY <4>1
      <4> QED
        BY <4>4, <4>5
    <3> QED
      BY <1>9, <3>1, <3>2 DEF ExtendWrite
  <2>2. admin' \in [Adm -> AdminRequest] /\ admin' = [admin EXCEPT ![a] = NoAdmin]
    BY <1>9, BlankRecords DEF ExtendWrite, AdminDone
  <2>3. NoAdmin.pc = "idle"
    BY DEF NoAdmin
  <2> QED
    BY <1>9, <2>1, <2>2, <2>3 DEF ExtendWrite
<1>10. CASE AdminDropped(a)
  BY <1>10, AdminDoneTypeInv DEF AdminDropped
<1> QED
  BY <1>1, <1>2, <1>3, <1>4, <1>5, <1>6, <1>7, <1>8, <1>9, <1>10 DEF AdminStep

LEMMA NextTypeInv == TypeInv /\ [Next]_vars => TypeInv'
<1> SUFFICES ASSUME TypeInv, [Next]_vars PROVE TypeInv'
  OBVIOUS
<1>1. CASE Tick
  BY <1>1 DEF Tick, TypeInv, TypeOK, RequestsNamed
<1>2. CASE \E u \in User : SetFlags(u)
  BY <1>2 DEF SetFlags, TypeInv, TypeOK, RequestsNamed
<1>3. CASE \E u \in User : DeleteAccount(u)
  <2>1. PICK u \in User : DeleteAccount(u)
    BY <1>3
  <2>2. polls' \in [Poll -> Row]
    <3>1. \A p \in Poll : [polls[p] EXCEPT !.excluded = @ \ {u}] \in Row
      BY DEF TypeInv, TypeOK, Row
    <3> QED
      BY <2>1, <3>1 DEF DeleteAccount
  <2>3. ballots' \in [Poll -> [User -> SUBSET Option]]
    BY <2>1 DEF DeleteAccount, TypeInv, TypeOK
  <2> QED
    BY <2>1, <2>2, <2>3 DEF DeleteAccount, TypeInv, TypeOK, RequestsNamed
<1>4. CASE UNCHANGED vars
  BY <1>4 DEF vars, TypeInv, TypeOK, RequestsNamed
<1> QED
  BY <1>1, <1>2, <1>3, <1>4, VoteTypeInv, AdminTypeInv DEF Next

(* Every variable and every request in flight keeps its type.              *)
THEOREM TypeCorrect == Spec => []TypeOK
<1>1. TypeInv => TypeOK
  BY DEF TypeInv
<1> QED
  BY <1>1, InitTypeInv, NextTypeInv, PTL DEF Spec

----------------------------------------------------------------------------
(* What a vote relies on between its checks and its commit.                *)
VoteInv(r) ==
  LET p == vote[r].poll
      u == vote[r].user
      pc == vote[r].pc
  IN  /\ pc \in {"eligibility", "check", "delete", "insert", "commit"} =>
           polls[p].open
      /\ pc \in {"eligibility", "check"} =>
           vote[r].row.multiple = polls[p].multiple
      /\ pc \in {"check", "delete", "insert", "commit"} =>
           u \notin polls[p].excluded
      /\ pc \in {"delete", "insert", "commit"} =>
           /\ ChoiceAccepted(vote[r].chosen, polls[p].multiple)
           /\ vote[r].chosen \subseteq OptionsOf[p]
      /\ pc \in {"insert", "commit"} => vote[r].deleted = ballots[p][u]
      /\ pc = "commit" => u \in accounts

(* The poll an admin is about to insert does not exist and nobody else is  *)
(* about to insert it; the poll of any other request does exist.           *)
AdminInv(a) ==
  /\ admin[a].pc = "create_commit" =>
       /\ ~polls[admin[a].poll].open /\ admin[a].row.open
       /\ \A b \in Adm \ {a} : admin[b].pc = "create_commit" =>
            admin[b].poll # admin[a].poll
  /\ admin[a].pc \notin {"idle", "create_commit"} => polls[admin[a].poll].open

IInv ==
  /\ TypeInv
  /\ \A r \in Req : VoteInv(r)
  /\ \A a \in Adm : AdminInv(a)
  /\ OneWriterPerBallot
  /\ SingleAnswer
  /\ OnlyEntitledBallots

LEMMA InitIInv == Init => IInv
<1> SUFFICES ASSUME Init PROVE IInv
  OBVIOUS
<1>1. \A r \in Req : vote[r].pc = "idle"
  BY DEF Init, NoVote
<1>2. \A a \in Adm : admin[a].pc = "idle"
  BY DEF Init, NoAdmin
<1>3. \A r \in Req : VoteInv(r)
  BY <1>1 DEF VoteInv
<1>4. \A a \in Adm : AdminInv(a)
  BY <1>2 DEF AdminInv
<1>5. OneWriterPerBallot
  BY <1>1 DEF OneWriterPerBallot, HoldsRows
<1>6. SingleAnswer /\ OnlyEntitledBallots
  BY DEF Init, SingleAnswer, OnlyEntitledBallots
<1> QED
  BY InitTypeInv, <1>3, <1>4, <1>5, <1>6 DEF IInv

(* What normalise_choice accepts on a single-answer poll has one member.   *)
LEMMA SingletonChoice ==
  ASSUME NEW chosen, IsFiniteSet(chosen), ChoiceAccepted(chosen, FALSE)
  PROVE  \A x, y \in chosen : x = y
<1>1. Cardinality(chosen) = 1
  BY DEF ChoiceAccepted
<1> QED
  BY <1>1, FS_Singleton

(* A step of one vote that writes nothing keeps the invariant when the     *)
(* vote's own facts and its locks are right afterwards.                    *)
LEMMA QuietVote ==
  ASSUME IInv, TypeInv', NEW r \in Req, NEW v,
         vote' = [vote EXCEPT ![r] = v],
         UNCHANGED <<accounts, polls, ballots, admin>>,
         VoteInv(r)',
         \A s \in Req \ {r} : SameBallot(r, s)' =>
            /\ HoldsRows(r)' => ~HoldsGap(s)
            /\ HoldsGap(r)' => ~HoldsRows(s)
  PROVE  IInv'
<1>1. \A s \in Req \ {r} : vote'[s] = vote[s]
  BY DEF IInv, TypeInv, TypeOK
<1>2. \A s \in Req : VoteInv(s)'
  <2> SUFFICES ASSUME NEW s \in Req, s # r PROVE VoteInv(s)'
    OBVIOUS
  <2> QED
    BY <1>1 DEF IInv, VoteInv
<1>3. \A a \in Adm : AdminInv(a)'
  BY DEF IInv, AdminInv
<1>4. OneWriterPerBallot'
  <2> SUFFICES ASSUME NEW s \in Req, NEW t \in Req, s # t,
                      SameBallot(s, t)', HoldsRows(s)'
               PROVE  ~HoldsGap(t)'
    BY DEF OneWriterPerBallot
  <2>1. CASE s = r
    BY <2>1, <1>1 DEF HoldsGap
  <2>2. CASE t = r
    BY <2>2, <1>1 DEF HoldsRows, HoldsGap, SameBallot
  <2>3. CASE s # r /\ t # r
    BY <2>3, <1>1 DEF IInv, OneWriterPerBallot, HoldsRows, HoldsGap, SameBallot
  <2> QED
    BY <2>1, <2>2, <2>3
<1>5. SingleAnswer' /\ OnlyEntitledBallots'
  BY DEF IInv, SingleAnswer, OnlyEntitledBallots
<1> QED
  BY <1>2, <1>3, <1>4, <1>5 DEF IInv

(* A vote that ends without a write is such a step.                        *)
LEMMA VoteDoneIInv ==
  ASSUME IInv, TypeInv', NEW r \in Req, VoteDone(r),
         UNCHANGED <<accounts, polls, ballots, admin>>
  PROVE  IInv'
<1>1. vote' = [vote EXCEPT ![r] = NoVote] /\ vote'[r].pc = "idle"
  BY DEF VoteDone, NoVote, IInv, TypeInv, TypeOK
<1>2. VoteInv(r)' /\ ~HoldsRows(r)' /\ ~HoldsGap(r)'
  BY <1>1 DEF VoteInv, HoldsRows, HoldsGap
<1> QED
  BY <1>1, <1>2, QuietVote

LEMMA VoteStepIInv ==
  ASSUME IInv, TypeInv', NEW r \in Req,
         VoteArrive(r) \/ VoteStep(r) \/ VoteDropped(r)
  PROVE  IInv'
<1> DEFINE p == vote[r].poll
           u == vote[r].user
<1>0. vote[r] \in VoteRequest /\ vote \in [Req -> VoteRequest] /\ VoteInv(r)
  BY DEF IInv, TypeInv, TypeOK
<1>1. CASE VoteArrive(r)
  <2>0. PICK w \in User, q \in Poll, chosen \in Choices :
          vote' = [vote EXCEPT ![r] = [NoVote EXCEPT !.pc = "viewer",
                     !.user = w, !.poll = q, !.chosen = chosen]]
    BY <1>1 DEF VoteArrive
  <2> DEFINE v == [NoVote EXCEPT !.pc = "viewer", !.user = w, !.poll = q,
                                 !.chosen = chosen]
  <2>1. vote' = [vote EXCEPT ![r] = v] /\ v.pc = "viewer"
    BY <2>0 DEF NoVote
  <2>2. vote'[r].pc = "viewer"
    BY <2>1, <1>0
  <2>3. VoteInv(r)' /\ ~HoldsRows(r)' /\ ~HoldsGap(r)'
    BY <2>2 DEF VoteInv, HoldsRows, HoldsGap
  <2> QED
    BY <1>1, <2>1, <2>3, QuietVote DEF VoteArrive
<1>2. CASE VoteViewer(r)
  <2>1. CASE u \in accounts
    <3> DEFINE v == [vote[r] EXCEPT !.pc = "load", !.flags = flags[u]]
    <3>1. vote' = [vote EXCEPT ![r] = v] /\ vote'[r].pc = "load"
      BY <1>0, <1>2, <2>1 DEF VoteViewer, VoteRequest
    <3>2. VoteInv(r)' /\ ~HoldsRows(r)' /\ ~HoldsGap(r)'
      BY <3>1 DEF VoteInv, HoldsRows, HoldsGap
    <3> QED
      BY <1>2, <3>1, <3>2, QuietVote DEF VoteViewer
  <2>2. CASE u \notin accounts
    BY <1>2, <2>2, VoteDoneIInv DEF VoteViewer
  <2> QED
    BY <2>1, <2>2
<1>3. CASE VoteLoad(r)
  <2>1. CASE polls[p].open
    <3> DEFINE v == [vote[r] EXCEPT !.pc = "eligibility", !.row = polls[p]]
    <3>1. vote' = [vote EXCEPT ![r] = v]
      BY <1>0, <1>3, <2>1 DEF VoteLoad, VoteRequest
    <3>2. /\ vote'[r].pc = "eligibility" /\ vote'[r].poll = p
          /\ vote'[r].row = polls[p]
      BY <1>0, <3>1 DEF VoteRequest
    <3>3. VoteInv(r)' /\ ~HoldsRows(r)' /\ ~HoldsGap(r)'
      BY <1>3, <2>1, <3>2 DEF VoteLoad, VoteInv, HoldsRows, HoldsGap
    <3> QED
      BY <1>3, <3>1, <3>3, QuietVote DEF VoteLoad
  <2>2. CASE ~polls[p].open
    BY <1>3, <2>2, VoteDoneIInv DEF VoteLoad
  <2> QED
    BY <2>1, <2>2
<1>4. CASE VoteEligibility(r)
  <2>1. CASE Eligible(p, u, vote[r].flags)
    <3> DEFINE v == [vote[r] EXCEPT !.pc = "check", !.flags = {}]
    <3>1. vote' = [vote EXCEPT ![r] = v]
      BY <1>0, <1>4, <2>1 DEF VoteEligibility, VoteRequest
    <3>2. /\ vote'[r].pc = "check" /\ vote'[r].poll = p
          /\ vote'[r].user = u /\ vote'[r].row = vote[r].row
      BY <1>0, <3>1 DEF VoteRequest
    <3>3. VoteInv(r)' /\ ~HoldsRows(r)' /\ ~HoldsGap(r)'
      BY <1>0, <1>4, <2>1, <3>2
         DEF VoteEligibility, VoteInv, HoldsRows, HoldsGap, Eligible
    <3> QED
      BY <1>4, <3>1, <3>3, QuietVote DEF VoteEligibility
  <2>2. CASE ~Eligible(p, u, vote[r].flags)
    BY <1>4, <2>2, VoteDoneIInv DEF VoteEligibility
  <2> QED
    BY <2>1, <2>2
<1>5. CASE VoteCheck(r)
  <2>1. CASE VoteAllowed(r)
    <3> DEFINE v == [vote[r] EXCEPT !.pc = "delete", !.row = NoRow]
    <3>1. vote' = [vote EXCEPT ![r] = v]
      BY <1>0, <1>5, <2>1 DEF VoteCheck, VoteRequest
    <3>2. /\ vote'[r].pc = "delete" /\ vote'[r].poll = p
          /\ vote'[r].user = u /\ vote'[r].chosen = vote[r].chosen
      BY <1>0, <3>1 DEF VoteRequest
    <3>3. VoteInv(r)' /\ ~HoldsRows(r)' /\ ~HoldsGap(r)'
      BY <1>0, <1>5, <2>1, <3>2
         DEF VoteCheck, VoteInv, HoldsRows, HoldsGap, VoteAllowed
    <3> QED
      BY <1>5, <3>1, <3>3, QuietVote DEF VoteCheck
  <2>2. CASE ~VoteAllowed(r)
    BY <1>5, <2>2, VoteDoneIInv DEF VoteCheck
  <2> QED
    BY <2>1, <2>2
<1>6. CASE VoteDelete(r)
  <2> DEFINE v == [vote[r] EXCEPT !.pc = "insert", !.deleted = ballots[p][u]]
  <2>1. vote' = [vote EXCEPT ![r] = v]
    BY <1>0, <1>6 DEF VoteDelete, VoteRequest
  <2>2. /\ vote'[r].pc = "insert" /\ vote'[r].poll = p
        /\ vote'[r].user = u /\ vote'[r].chosen = vote[r].chosen
        /\ vote'[r].deleted = ballots[p][u]
    BY <1>0, <2>1 DEF VoteRequest
  <2>3. VoteInv(r)'
    BY <1>0, <1>6, <2>2 DEF VoteDelete, VoteInv
  <2>4. ASSUME NEW s \in Req \ {r}, SameBallot(r, s)'
        PROVE  /\ HoldsRows(r)' => ~HoldsGap(s)
               /\ HoldsGap(r)' => ~HoldsRows(s)
    <3>1. SameBallot(r, s)
      BY <1>0, <2>1, <2>2, <2>4 DEF SameBallot
    <3>2. ~HoldsRows(s)
      BY <1>6, <3>1 DEF VoteDelete
    <3>3. HoldsGap(s) => vote[s].deleted = ballots[p][u]
      BY <3>1 DEF IInv, VoteInv, HoldsGap, SameBallot
    <3> QED
      BY <2>2, <3>2, <3>3 DEF HoldsRows, HoldsGap
  <2> QED
    BY <1>6, <2>1, <2>3, <2>4, QuietVote DEF VoteDelete
<1>7. CASE VoteInsert(r)
  <2>1. CASE u \in accounts
    <3> DEFINE v == [vote[r] EXCEPT !.pc = "commit"]
    <3>1. vote' = [vote EXCEPT ![r] = v]
      BY <1>0, <1>7, <2>1 DEF VoteInsert, VoteRequest
    <3>2. /\ vote'[r].pc = "commit" /\ vote'[r].poll = p
          /\ vote'[r].user = u /\ vote'[r].chosen = vote[r].chosen
          /\ vote'[r].deleted = vote[r].deleted
      BY <1>0, <3>1 DEF VoteRequest
    <3>3. VoteInv(r)'
      BY <1>0, <1>7, <2>1, <3>2 DEF VoteInsert, VoteInv
    <3>4. \A s \in Req \ {r} : SameBallot(r, s)' => ~HoldsGap(s) /\ ~HoldsRows(s)
      BY <1>0, <1>7, <3>1, <3>2 DEF VoteInsert, SameBallot, HoldsGap, HoldsRows
    <3> QED
      BY <1>7, <3>1, <3>3, <3>4, QuietVote DEF VoteInsert
  <2>2. CASE u \notin accounts
    BY <1>7, <2>2, VoteDoneIInv DEF VoteInsert
  <2> QED
    BY <2>1, <2>2
<1>8. CASE VoteDeadlock(r) \/ VoteDropped(r)
  BY <1>8, VoteDoneIInv DEF VoteDeadlock, VoteDropped
<1>9. CASE VoteCommit(r)
  <2>1. /\ vote[r].pc = "commit" /\ p \in Poll /\ u \in User
        /\ vote' = [vote EXCEPT ![r] = NoVote]
        /\ UNCHANGED <<accounts, polls, admin>>
    BY <1>9 DEF VoteCommit, VoteDone, IInv, TypeInv, RequestsNamed
  <2>2. vote'[r].pc = "idle" /\ \A s \in Req \ {r} : vote'[s] = vote[s]
    BY <1>0, <2>1 DEF NoVote
  <2>3. /\ ballots'[p][u] = vote[r].chosen
        /\ \A q \in Poll, w \in User :
             q # p \/ w # u => ballots'[q][w] = ballots[q][w]
    BY <1>0, <1>9, <2>1 DEF VoteCommit, VoteInv, IInv, TypeInv, TypeOK
  <2>4. \A s \in Req : VoteInv(s)'
    <3>1. VoteInv(r)'
      BY <2>2 DEF VoteInv
    <3>2. ASSUME NEW s \in Req \ {r} PROVE VoteInv(s)'
      <4>1. VoteInv(s) /\ vote'[s] = vote[s]
        BY <2>2 DEF IInv
      <4>2. CASE vote[s].pc \in {"insert", "commit"}
        <5>1. ~SameBallot(r, s)
          BY <2>1, <4>2 DEF IInv, OneWriterPerBallot, HoldsRows, HoldsGap
        <5>2. vote[s].poll \in Poll /\ vote[s].user \in User
          BY <4>2 DEF IInv, TypeInv, RequestsNamed
        <5>3. ballots'[vote[s].poll][vote[s].user]
                = ballots[vote[s].poll][vote[s].user]
          BY <2>3, <5>1, <5>2 DEF SameBallot
        <5> QED
          BY <2>1, <4>1, <5>3 DEF VoteInv
      <4>3. CASE vote[s].pc \notin {"insert", "commit"}
        BY <2>1, <4>1, <4>3 DEF VoteInv
      <4> QED
        BY <4>2, <4>3
    <3> QED
      BY <3>1, <3>2
  <2>5. \A a \in Adm : AdminInv(a)'
    BY <2>1 DEF IInv, AdminInv
  <2>6. OneWriterPerBallot'
    BY <2>2 DEF IInv, OneWriterPerBallot, HoldsRows, HoldsGap, SameBallot
  <2>7. /\ ChoiceAccepted(vote[r].chosen, polls[p].multiple)
        /\ vote[r].chosen \subseteq OptionsOf[p] /\ vote[r].chosen \in SUBSET Option
        /\ polls[p].open /\ u \notin polls[p].excluded /\ u \in accounts
    BY <1>0, <2>1 DEF VoteInv, VoteRequest
  <2>8. ~polls[p].multiple => \A x, y \in vote[r].chosen : x = y
    <3>1. IsFiniteSet(vote[r].chosen)
      BY <2>1, <2>7, PollsAssumption, FS_Subset
    <3>2. ~polls[p].multiple => ChoiceAccepted(vote[r].chosen, FALSE)
      BY <2>7 DEF ChoiceAccepted
    <3> QED
      BY <3>1, <3>2, SingletonChoice
  <2>9. SingleAnswer'
    BY <2>1, <2>3, <2>8 DEF IInv, SingleAnswer
  <2>10. OnlyEntitledBallots'
    BY <2>1, <2>3, <2>7 DEF IInv, OnlyEntitledBallots
  <2> QED
    BY <2>4, <2>5, <2>6, <2>9, <2>10 DEF IInv
<1> QED
  BY <1>1, <1>2, <1>3, <1>4, <1>5, <1>6, <1>7, <1>8, <1>9 DEF VoteStep

(* A step that leaves the votes and the locks alone.                       *)
LEMMA QuietAdmin ==
  ASSUME IInv, TypeInv', UNCHANGED <<accounts, polls, ballots, vote>>,
         \A a \in Adm : AdminInv(a)'
  PROVE  IInv'
<1>1. \A r \in Req : VoteInv(r)'
  BY DEF IInv, VoteInv
<1>2. OneWriterPerBallot' /\ SingleAnswer' /\ OnlyEntitledBallots'
  BY DEF IInv, OneWriterPerBallot, HoldsRows, HoldsGap, SameBallot,
         SingleAnswer, OnlyEntitledBallots
<1> QED
  BY <1>1, <1>2 DEF IInv

(* An admin request that goes on, or ends, without inserting a poll.       *)
LEMMA AdminGoesOn ==
  ASSUME IInv, NEW a \in Adm, NEW v,
         admin' = [admin EXCEPT ![a] = v], v.pc # "create_commit",
         v.pc # "idle" => polls[v.poll].open,
         \A p \in Poll : polls'[p].open = polls[p].open,
         TypeInv'
  PROVE  \A b \in Adm : AdminInv(b)'
<1>1. admin'[a] = v /\ \A b \in Adm \ {a} : admin'[b] = admin[b]
  BY DEF IInv, TypeInv, TypeOK
<1>2. \A b \in Adm : admin'[b].pc # "idle" => admin'[b].poll \in Poll
  BY DEF TypeInv, RequestsNamed
<1>3. AdminInv(a)'
  BY <1>1, <1>2 DEF AdminInv
<1>4. ASSUME NEW b \in Adm \ {a} PROVE AdminInv(b)'
  BY <1>1, <1>2 DEF IInv, AdminInv
<1> QED
  BY <1>3, <1>4

(* The closing or ending time of a poll is no part of the invariant.       *)
LEMMA TimesOnly ==
  ASSUME IInv, TypeInv', UNCHANGED <<accounts, ballots, vote>>,
         \A p \in Poll : /\ polls'[p].open = polls[p].open
                         /\ polls'[p].multiple = polls[p].multiple
                         /\ polls'[p].excluded = polls[p].excluded,
         \A a \in Adm : AdminInv(a)'
  PROVE  IInv'
<1>1. ASSUME NEW r \in Req PROVE VoteInv(r)'
  <2>1. vote[r].pc # "idle" => vote[r].poll \in Poll
    BY DEF IInv, TypeInv, RequestsNamed
  <2> QED
    BY <2>1 DEF IInv, VoteInv
<1>2. OneWriterPerBallot' /\ SingleAnswer' /\ OnlyEntitledBallots'
  BY DEF IInv, OneWriterPerBallot, HoldsRows, HoldsGap, SameBallot,
         SingleAnswer, OnlyEntitledBallots
<1> QED
  BY <1>1, <1>2 DEF IInv

LEMMA AdminStepIInv ==
  ASSUME IInv, TypeInv', NEW a \in Adm,
         \/ CreateResolve(a) \/ EndLoad(a) \/ ExtendArrive(a)
         \/ AdminStep(a) \/ AdminDropped(a)
  PROVE  IInv'
<1> DEFINE p == admin[a].poll
<1>0. /\ admin \in [Adm -> AdminRequest] /\ admin[a] \in AdminRequest
      /\ AdminInv(a) /\ polls \in [Poll -> Row]
      /\ admin[a].pc # "idle" => p \in Poll
  BY DEF IInv, TypeInv, TypeOK, RequestsNamed
<1>d. AdminDone(a) => /\ admin' = [admin EXCEPT ![a] = NoAdmin]
                      /\ NoAdmin.pc = "idle"
  BY DEF AdminDone, NoAdmin
<1>1. CASE CreateResolve(a)
  <2>1. PICK q, row :
          /\ q \in Poll /\ ~polls[q].open /\ row.open
          /\ \A b \in Adm : admin[b].pc = "create_commit" => admin[b].poll # q
          /\ admin' = [admin EXCEPT ![a] = [NoAdmin EXCEPT
                         !.pc = "create_commit", !.poll = q, !.row = row]]
    BY <1>1, CreateDraft
  <2>2. /\ admin'[a].pc = "create_commit" /\ admin'[a].poll = q
        /\ admin'[a].row.open
        /\ \A b \in Adm \ {a} : admin'[b] = admin[b]
    BY <1>0, <2>1 DEF NoAdmin
  <2>3. UNCHANGED <<accounts, polls, ballots, vote>>
    BY <1>1 DEF CreateResolve
  <2>4. AdminInv(a)'
    BY <2>1, <2>2, <2>3 DEF AdminInv
  <2>5. ASSUME NEW b \in Adm \ {a} PROVE AdminInv(b)'
    BY <2>1, <2>2, <2>3 DEF AdminInv, IInv
  <2> QED
    BY <2>3, <2>4, <2>5, QuietAdmin
<1>2. CASE EndLoad(a)
  <2>1. PICK q \in Poll :
          /\ polls[q].open
          /\ admin' = [admin EXCEPT ![a] = [NoAdmin EXCEPT
                         !.pc = "end_check", !.poll = q, !.row = polls[q]]]
    BY <1>2 DEF EndLoad
  <2> DEFINE v == [NoAdmin EXCEPT !.pc = "end_check", !.poll = q,
                                  !.row = polls[q]]
  <2>2. v.pc = "end_check" /\ v.poll = q
    BY DEF NoAdmin
  <2>3. UNCHANGED <<accounts, polls, ballots, vote>>
    BY <1>2 DEF EndLoad
  <2> QED
    BY <2>1, <2>2, <2>3, AdminGoesOn, QuietAdmin
<1>3. CASE ExtendArrive(a)
  <2>1. PICK q \in Poll, by \in Extensions :
          /\ polls[q].open
          /\ admin' = [admin EXCEPT ![a] = [NoAdmin EXCEPT
                         !.pc = "extend_load", !.poll = q,
                         !.seen = polls[q].closes, !.by = by]]
    BY <1>3 DEF ExtendArrive
  <2> DEFINE v == [NoAdmin EXCEPT !.pc = "extend_load", !.poll = q,
                                  !.seen = polls[q].closes, !.by = by]
  <2>2. v.pc = "extend_load" /\ v.poll = q
    BY DEF NoAdmin
  <2>3. UNCHANGED <<accounts, polls, ballots, vote>>
    BY <1>3 DEF ExtendArrive
  <2> QED
    BY <2>1, <2>2, <2>3, AdminGoesOn, QuietAdmin
<1>4. CASE /\ AdminDone(a)
           /\ UNCHANGED <<accounts, polls, ballots, vote>>
  <2>1. \A b \in Adm : AdminInv(b)'
    BY <1>4, <1>d, AdminGoesOn
  <2> QED
    BY <1>4, <2>1, QuietAdmin
<1>5. CASE EndCheck(a) \/ ExtendCheck(a) \/ ExtendLoad(a)
  <2>1. UNCHANGED <<accounts, polls, ballots, vote>>
    BY <1>5 DEF EndCheck, ExtendCheck, ExtendLoad
  <2>2. PICK v : /\ admin' = [admin EXCEPT ![a] = v]
                 /\ v.pc # "create_commit"
                 /\ v.pc # "idle" => v.poll = p
    <3>1. CASE AdminDone(a)
      BY <3>1, <1>d
    <3>2. CASE EndCheck(a) /\ ~AdminDone(a)
      <4> DEFINE v == [admin[a] EXCEPT !.pc = "end_write", !.at = now,
                                       !.row = NoRow]
      <4>1. admin' = [admin EXCEPT ![a] = v] /\ v.pc = "end_write" /\ v.poll = p
        BY <1>0, <3>2 DEF EndCheck, AdminRequest
      <4> QED
        BY <4>1
    <3>3. CASE ExtendCheck(a) /\ ~AdminDone(a)
      <4> DEFINE v == [admin[a] EXCEPT !.pc = "extend_write", !.at = now]
      <4>1. admin' = [admin EXCEPT ![a] = v] /\ v.pc = "extend_write" /\ v.poll = p
        BY <1>0, <3>3 DEF ExtendCheck, AdminRequest
      <4> QED
        BY <4>1
    <3>4. CASE ExtendLoad(a)
      <4> DEFINE v == [admin[a] EXCEPT !.pc = "extend_check", !.row = polls[p]]
      <4>1. admin' = [admin EXCEPT ![a] = v] /\ v.pc = "extend_check" /\ v.poll = p
        BY <1>0, <3>4 DEF ExtendLoad, AdminRequest
      <4> QED
        BY <4>1
    <3> QED
      BY <1>5, <3>1, <3>2, <3>3, <3>4
  <2>3. polls[p].open
    BY <1>0, <1>5 DEF EndCheck, ExtendCheck, ExtendLoad, AdminInv
  <2> QED
    BY <2>1, <2>2, <2>3, AdminGoesOn, QuietAdmin
<1>6. CASE EndWrite(a) \/ ExtendWrite(a)
  <2>1. AdminDone(a) /\ UNCHANGED <<accounts, ballots, vote>>
    BY <1>6 DEF EndWrite, ExtendWrite
  <2>2. /\ p \in Poll
        /\ \/ UNCHANGED polls
           \/ \E t : polls' = [polls EXCEPT ![p].ended = t]
           \/ \E t : polls' = [polls EXCEPT ![p].closes = t]
    BY <1>0, <1>6 DEF EndWrite, ExtendWrite
  <2>3. \A q \in Poll : /\ polls'[q].open = polls[q].open
                        /\ polls'[q].multiple = polls[q].multiple
                        /\ polls'[q].excluded = polls[q].excluded
    <3>1. CASE UNCHANGED polls
      BY <3>1
    <3>2. ASSUME NEW t, polls' = [polls EXCEPT ![p].ended = t]
                        \/ polls' = [polls EXCEPT ![p].closes = t],
                 NEW q \in Poll
          PROVE  /\ polls'[q].open = polls[q].open
                 /\ polls'[q].multiple = polls[q].multiple
                 /\ polls'[q].excluded = polls[q].excluded
      BY <1>0, <2>2, <3>2 DEF Row
    <3> QED
      BY <2>2, <3>1, <3>2
  <2>4. \A b \in Adm : AdminInv(b)'
    BY <1>d, <2>1, <2>3, AdminGoesOn
  <2> QED
    BY <2>1, <2>3, <2>4, TimesOnly
<1>7. CASE CreateCommit(a)
  <2>1. CASE UNCHANGED polls
    BY <1>4, <1>7, <2>1 DEF CreateCommit
  <2>2. CASE polls' = [polls EXCEPT ![p] = admin[a].row]
    <3>1. /\ p \in Poll /\ ~polls[p].open /\ polls'[p].open
          /\ \A q \in Poll \ {p} : polls'[q] = polls[q]
          /\ UNCHANGED <<accounts, ballots, vote>>
          /\ \A b \in Adm \ {a} : admin'[b] = admin[b]
          /\ admin'[a].pc = "idle"
          /\ \A b \in Adm \ {a} :
               admin[b].pc = "create_commit" => admin[b].poll # p
      BY <1>0, <1>7, <1>d, <2>2 DEF CreateCommit, AdminInv
    <3>2. ASSUME NEW r \in Req PROVE VoteInv(r)'
      <4>1. vote[r].pc # "idle" => vote[r].poll \in Poll
        BY DEF IInv, TypeInv, RequestsNamed
      <4>2. VoteInv(r)
        BY DEF IInv
      <4> QED
        BY <3>1, <4>1, <4>2 DEF VoteInv
    <3>3. ASSUME NEW b \in Adm PROVE AdminInv(b)'
      <4>1. admin[b].pc # "idle" => admin[b].poll \in Poll
        BY DEF IInv, TypeInv, RequestsNamed
      <4>2. AdminInv(b)
        BY DEF IInv
      <4> QED
        BY <3>1, <4>1, <4>2 DEF AdminInv
    <3>4. OneWriterPerBallot'
      BY <3>1 DEF IInv, OneWriterPerBallot, HoldsRows, HoldsGap, SameBallot
    <3>5. \A u \in User : ballots[p][u] = {}
      BY <3>1 DEF IInv, OnlyEntitledBallots
    <3>6. SingleAnswer' /\ OnlyEntitledBallots'
      BY <3>1, <3>5 DEF IInv, SingleAnswer, OnlyEntitledBallots
    <3> QED
      BY <3>2, <3>3, <3>4, <3>6 DEF IInv
  <2> QED
    BY <1>7, <2>1, <2>2 DEF CreateCommit
<1>8. CASE AdminDropped(a)
  BY <1>4, <1>8 DEF AdminDropped
<1> QED
  BY <1>1, <1>2, <1>3, <1>5, <1>6, <1>7, <1>8 DEF AdminStep

LEMMA DeleteIInv ==
  ASSUME IInv, TypeInv', NEW u \in User, DeleteAccount(u)
  PROVE  IInv'
<1>1. \A p \in Poll : /\ polls'[p].open = polls[p].open
                      /\ polls'[p].multiple = polls[p].multiple
                      /\ polls'[p].excluded = polls[p].excluded \ {u}
  BY DEF DeleteAccount, IInv, TypeInv, TypeOK, Row
<1>2. \A p \in Poll : /\ ballots'[p][u] = {}
                      /\ \A w \in User \ {u} : ballots'[p][w] = ballots[p][w]
  BY DEF DeleteAccount, IInv, TypeInv, TypeOK
<1>3. accounts' = accounts \ {u} /\ UNCHANGED <<vote, admin>>
  BY DEF DeleteAccount
<1>4. ASSUME NEW r \in Req PROVE VoteInv(r)'
  <2>1. vote[r].pc # "idle" => vote[r].poll \in Poll /\ vote[r].user \in User
    BY DEF IInv, TypeInv, RequestsNamed
  <2>2. VoteInv(r)
    BY DEF IInv
  <2>3. vote[r].user = u => ~HoldsRows(r)
    BY DEF DeleteAccount
  <2> QED
    BY <1>1, <1>2, <1>3, <2>1, <2>2, <2>3 DEF VoteInv, HoldsRows
<1>5. ASSUME NEW a \in Adm PROVE AdminInv(a)'
  <2>1. admin[a].pc # "idle" => admin[a].poll \in Poll
    BY DEF IInv, TypeInv, RequestsNamed
  <2> QED
    BY <1>1, <1>3, <2>1 DEF IInv, AdminInv
<1>6. OneWriterPerBallot'
  BY <1>3 DEF IInv, OneWriterPerBallot, HoldsRows, HoldsGap, SameBallot
<1>7. SingleAnswer' /\ OnlyEntitledBallots'
  BY <1>1, <1>2, <1>3 DEF IInv, SingleAnswer, OnlyEntitledBallots
<1> QED
  BY <1>4, <1>5, <1>6, <1>7 DEF IInv

LEMMA NextIInv == IInv /\ [Next]_vars => IInv'
<1> SUFFICES ASSUME IInv, [Next]_vars PROVE IInv'
  OBVIOUS
<1>1. TypeInv'
  BY NextTypeInv DEF IInv
<1>2. CASE Tick \/ (\E u \in User : SetFlags(u)) \/ UNCHANGED vars
  <2>1. UNCHANGED <<accounts, polls, ballots, vote, admin>>
    BY <1>2 DEF Tick, SetFlags, vars
  <2>2. \A a \in Adm : AdminInv(a)'
    BY <2>1 DEF IInv, AdminInv
  <2> QED
    BY <1>1, <2>1, <2>2, QuietAdmin
<1>3. CASE \E u \in User : DeleteAccount(u)
  BY <1>1, <1>3, DeleteIInv
<1> QED
  BY <1>1, <1>2, <1>3, VoteStepIInv, AdminStepIInv DEF Next

LEMMA Invariance == Spec => []IInv
BY InitIInv, NextIInv, PTL DEF Spec

(* However many requests replace one ballot at once, however they fail and *)
(* whatever the admins do meanwhile: a single-answer poll keeps one answer *)
(* per voter, ...                                                          *)
THEOREM SingleAnswerHolds == Spec => []SingleAnswer
<1>1. IInv => SingleAnswer
  BY DEF IInv
<1> QED
  BY <1>1, Invariance, PTL

(* ... a ballot belongs to an account that exists and is not excluded, and *)
(* holds options of its own poll, ...                                      *)
THEOREM OnlyEntitledHolds == Spec => []OnlyEntitledBallots
<1>1. IInv => OnlyEntitledBallots
  BY DEF IInv
<1> QED
  BY <1>1, Invariance, PTL

(* ... and the transactions of cast_vote on one ballot take turns.         *)
THEOREM OneWriterHolds == Spec => []OneWriterPerBallot
<1>1. IInv => OneWriterPerBallot
  BY DEF IInv
<1> QED
  BY <1>1, Invariance, PTL

----------------------------------------------------------------------------
(* What each step of the handlers does to the stored polls and ballots.    *)
(* The row create_poll inserts is what its checks let through, ...         *)
Draft(p, row) ==
  /\ NewPollAccepted(OptionsOf[p], row.audience)
  /\ row.audience \in Audiences
  /\ row.duration \in Durations
  /\ row.created <= now
  /\ row.closes = ClosesAt(row.duration, row.created)
  /\ row.ended = Null

(* ... and an extension adds one of the offered spans to the closing time  *)
(* its admin was looking at.                                               *)
HandlerInv(a) ==
  /\ admin[a].pc = "create_commit" => Draft(admin[a].poll, admin[a].row)
  /\ admin[a].pc \in {"extend_load", "extend_check", "extend_write"} =>
       admin[a].by \in Extensions
  /\ admin[a].pc = "extend_write" => admin[a].row.closes = admin[a].seen

BoardInv == IInv /\ \A a \in Adm : HandlerInv(a)

LEMMA InitBoardInv == Init => BoardInv
BY InitIInv DEF Init, BoardInv, HandlerInv, NoAdmin

(* A step that replaces at most one request by one with the same promise,  *)
(* the clock not running backwards.                                        *)
LEMMA HandlerUpdate ==
  ASSUME BoardInv, NEW a \in Adm, HandlerInv(a)',
         \A b \in Adm \ {a} : admin'[b] = admin[b],
         now' \in Nat, now <= now'
  PROVE  \A b \in Adm : HandlerInv(b)'
<1> SUFFICES ASSUME NEW b \in Adm \ {a} PROVE HandlerInv(b)'
  OBVIOUS
<1>1. HandlerInv(b) /\ admin'[b] = admin[b]
  BY DEF BoardInv
<1>2. now \in Nat /\ admin[b].row.created \in Nat
  BY DEF BoardInv, IInv, TypeInv, TypeOK, AdminRequest, Row
<1> QED
  BY <1>1, <1>2 DEF HandlerInv, Draft

LEMMA HandlersKeepGoing ==
  ASSUME BoardInv, UNCHANGED admin, now' \in Nat, now <= now'
  PROVE  \A a \in Adm : HandlerInv(a)'
<1> SUFFICES ASSUME NEW a \in Adm PROVE HandlerInv(a)'
  OBVIOUS
<1>1. HandlerInv(a)
  BY DEF BoardInv
<1>2. now \in Nat /\ admin[a].row.created \in Nat
  BY DEF BoardInv, IInv, TypeInv, TypeOK, AdminRequest, Row
<1> QED
  BY <1>1, <1>2 DEF HandlerInv, Draft

(* extension_target refuses unless the closing time is the one seen.       *)
LEMMA NotRefused ==
  ASSUME NEW ended, NEW closes, NEW seen, NEW at,
         ExtendRefusal(ended, closes, seen, at) = "none"
  PROVE  closes # Null /\ closes = seen
BY DEF ExtendRefusal

LEMMA AdminHandlerInv ==
  ASSUME BoardInv, NEW a \in Adm,
         \/ CreateResolve(a) \/ EndLoad(a) \/ ExtendArrive(a)
         \/ AdminStep(a) \/ AdminDropped(a)
  PROVE  \A b \in Adm : HandlerInv(b)'
<1>0. /\ admin \in [Adm -> AdminRequest] /\ admin[a] \in AdminRequest
      /\ now \in Nat /\ HandlerInv(a)
  BY DEF BoardInv, IInv, TypeInv, TypeOK
<1>n. UNCHANGED now
  BY DEF CreateResolve, EndLoad, ExtendArrive, AdminStep, AdminDropped,
         CreateCommit, EndCheck, EndWrite, ExtendLoad, ExtendCheck, ExtendWrite
<1>u. ASSUME NEW v, admin' = [admin EXCEPT ![a] = v]
      PROVE  admin'[a] = v /\ \A b \in Adm \ {a} : admin'[b] = admin[b]
  BY <1>0, <1>u
<1>d. ASSUME AdminDone(a) PROVE \A b \in Adm : HandlerInv(b)'
  <2>1. admin'[a].pc = "idle" /\ \A b \in Adm \ {a} : admin'[b] = admin[b]
    BY <1>0, <1>d DEF AdminDone, NoAdmin
  <2>2. HandlerInv(a)'
    BY <2>1 DEF HandlerInv
  <2> QED
    BY <1>0, <1>n, <2>1, <2>2, HandlerUpdate
<1>1. CASE CreateResolve(a)
  <2>1. PICK p \in Poll, multiple \in BOOLEAN, duration \in Durations,
             audience \in Audiences, excluded \in SUBSET accounts :
          /\ ~polls[p].open
          /\ \A b \in Adm : admin[b].pc = "create_commit" => admin[b].poll # p
          /\ NewPollAccepted(OptionsOf[p], audience)
          /\ duration # Null => now + duration <= Horizon
          /\ admin' = [admin EXCEPT ![a] = [NoAdmin EXCEPT
                         !.pc = "create_commit", !.poll = p,
                         !.row = NewRow(multiple, duration, audience, excluded)]]
    BY <1>1 DEF CreateResolve
  <2> DEFINE row == NewRow(multiple, duration, audience, excluded)
             v == [NoAdmin EXCEPT !.pc = "create_commit", !.poll = p,
                                  !.row = row]
  <2>2. admin'[a] = v /\ \A b \in Adm \ {a} : admin'[b] = admin[b]
    BY <1>u, <2>1
  <2>3. v.pc = "create_commit" /\ v.poll = p /\ v.row = row
    BY DEF NoAdmin
  <2>4. Draft(p, row)
    BY <1>0, <2>1 DEF Draft, NewRow
  <2>6. HandlerInv(a)'
    <3>1. /\ admin'[a].pc = "create_commit" /\ admin'[a].poll = p
          /\ admin'[a].row = row
      BY <2>2, <2>3
    <3> HIDE DEF row, v
    <3>2. Draft(admin[a].poll, admin[a].row)'
      BY <1>n, <2>4, <3>1 DEF Draft
    <3> QED
      BY <3>1, <3>2 DEF HandlerInv
  <2> QED
    BY <1>0, <1>n, <2>2, <2>6, HandlerUpdate
<1>2. CASE EndLoad(a)
  <2>1. PICK p \in Poll : admin' = [admin EXCEPT ![a] = [NoAdmin EXCEPT
                             !.pc = "end_check", !.poll = p, !.row = polls[p]]]
    BY <1>2 DEF EndLoad
  <2>2. admin'[a].pc = "end_check" /\ \A b \in Adm \ {a} : admin'[b] = admin[b]
    BY <1>0, <2>1 DEF NoAdmin
  <2>3. HandlerInv(a)'
    BY <2>2 DEF HandlerInv
  <2> QED
    BY <1>0, <1>n, <2>2, <2>3, HandlerUpdate
<1>3. CASE ExtendArrive(a)
  <2>1. PICK p \in Poll, by \in Extensions :
          admin' = [admin EXCEPT ![a] = [NoAdmin EXCEPT
                      !.pc = "extend_load", !.poll = p,
                      !.seen = polls[p].closes, !.by = by]]
    BY <1>3 DEF ExtendArrive
  <2>2. /\ admin'[a].pc = "extend_load" /\ admin'[a].by = by
        /\ \A b \in Adm \ {a} : admin'[b] = admin[b]
    BY <1>0, <2>1 DEF NoAdmin
  <2>3. HandlerInv(a)'
    BY <2>2 DEF HandlerInv
  <2> QED
    BY <1>0, <1>n, <2>2, <2>3, HandlerUpdate
<1>4. CASE EndCheck(a)
  <2>1. CASE admin' = [admin EXCEPT ![a].pc = "end_write", ![a].at = now,
                                    ![a].row = NoRow]
    <3>1. admin'[a].pc = "end_write" /\ \A b \in Adm \ {a} : admin'[b] = admin[b]
      BY <1>0, <2>1 DEF AdminRequest
    <3>2. HandlerInv(a)'
      BY <3>1 DEF HandlerInv
    <3> QED
      BY <1>0, <1>n, <3>1, <3>2, HandlerUpdate
  <2> QED
    BY <1>4, <1>d, <2>1 DEF EndCheck
<1>5. CASE ExtendLoad(a)
  <2>1. /\ admin[a].pc = "extend_load" /\ admin'[a].pc = "extend_check"
        /\ admin'[a].by = admin[a].by
        /\ \A b \in Adm \ {a} : admin'[b] = admin[b]
    BY <1>0, <1>5 DEF ExtendLoad, AdminRequest
  <2>2. HandlerInv(a)'
    BY <1>0, <2>1 DEF HandlerInv
  <2> QED
    BY <1>0, <1>n, <2>1, <2>2, HandlerUpdate
<1>6. CASE ExtendCheck(a)
  <2>1. CASE /\ ExtendRefusal(admin[a].row.ended, admin[a].row.closes,
                              admin[a].seen, now) = "none"
             /\ admin' = [admin EXCEPT ![a].pc = "extend_write", ![a].at = now]
    <3>1. /\ admin'[a].pc = "extend_write" /\ admin'[a].by = admin[a].by
          /\ admin'[a].row = admin[a].row /\ admin'[a].seen = admin[a].seen
          /\ \A b \in Adm \ {a} : admin'[b] = admin[b]
      BY <1>0, <2>1 DEF AdminRequest
    <3>2. admin[a].row.closes = admin[a].seen
      BY <2>1, NotRefused
    <3>3. HandlerInv(a)'
      BY <1>0, <1>6, <3>1, <3>2 DEF HandlerInv, ExtendCheck
    <3> QED
      BY <1>0, <1>n, <3>1, <3>3, HandlerUpdate
  <2> QED
    BY <1>6, <1>d, <2>1 DEF ExtendCheck
<1> QED
  BY <1>1, <1>2, <1>3, <1>4, <1>5, <1>6, <1>d
     DEF AdminStep, CreateCommit, EndWrite, ExtendWrite, AdminDropped

LEMMA NextBoardInv == BoardInv /\ [Next]_vars => BoardInv'
<1> SUFFICES ASSUME BoardInv, [Next]_vars PROVE BoardInv'
  OBVIOUS
<1>1. IInv'
  BY NextIInv DEF BoardInv
<1>2. now \in Nat
  BY DEF BoardInv, IInv, TypeInv, TypeOK
<1>3. CASE Tick
  <2>1. UNCHANGED admin /\ now' \in Nat /\ now <= now'
    BY <1>2, <1>3 DEF Tick
  <2> QED
    BY <1>1, <2>1, HandlersKeepGoing DEF BoardInv
<1>4. CASE \/ \E u \in User : SetFlags(u) \/ DeleteAccount(u)
           \/ \E r \in Req : VoteArrive(r) \/ VoteStep(r) \/ VoteDropped(r)
           \/ UNCHANGED vars
  <2>1. UNCHANGED <<now, admin>>
    BY <1>4 DEF SetFlags, DeleteAccount, VoteArrive, VoteStep, VoteDropped,
       VoteViewer, VoteLoad, VoteEligibility, VoteCheck, VoteDelete,
       VoteInsert, VoteCommit, VoteDeadlock, vars
  <2> QED
    BY <1>1, <1>2, <2>1, HandlersKeepGoing DEF BoardInv
<1>5. CASE \E a \in Adm : \/ CreateResolve(a) \/ EndLoad(a) \/ ExtendArrive(a)
                          \/ AdminStep(a) \/ AdminDropped(a)
  BY <1>1, <1>5, AdminHandlerInv DEF BoardInv
<1> QED
  BY <1>3, <1>4, <1>5 DEF Next

LEMMA BoardInvariance == Spec => []BoardInv
BY InitBoardInv, NextBoardInv, PTL DEF Spec

----------------------------------------------------------------------------
(* What a request about to write relies on.                                *)
LEMMA VoteReady ==
  ASSUME IInv, NEW r \in Req, VoteCommit(r)
  PROVE  LET p == vote[r].poll
             u == vote[r].user
         IN  /\ vote[r].pc = "commit" /\ p \in Poll /\ u \in User
             /\ polls[p].open /\ u \in accounts \ polls[p].excluded
             /\ vote[r].chosen \in SUBSET OptionsOf[p]
             /\ ChoiceAccepted(vote[r].chosen, polls[p].multiple)
             /\ ballots' = [ballots EXCEPT ![p][u] = vote[r].chosen]
             /\ UNCHANGED <<now, accounts, polls>>
<1> DEFINE p == vote[r].poll
           u == vote[r].user
<1>1. /\ vote[r].pc = "commit" /\ p \in Poll /\ u \in User
      /\ VoteInv(r) /\ ballots \in [Poll -> [User -> SUBSET Option]]
  BY DEF VoteCommit, IInv, TypeInv, TypeOK, RequestsNamed
<1>2. (ballots[p][u] \ vote[r].deleted) \cup vote[r].chosen = vote[r].chosen
  BY <1>1 DEF VoteInv
<1>3. ballots' = [ballots EXCEPT ![p][u] = vote[r].chosen]
  BY <1>2 DEF VoteCommit
<1> QED
  BY <1>1, <1>3 DEF VoteInv, VoteCommit

(* An answer changes as a whole, or goes with the account.                 *)
LEMMA NextReplacesWhole ==
  ASSUME IInv, [Next]_vars, NEW p \in Poll, NEW u \in User,
         ballots'[p][u] # ballots[p][u]
  PROVE  \/ u \notin accounts'
         \/ \E r \in Req : /\ vote[r].pc = "commit"
                           /\ vote[r].poll = p /\ vote[r].user = u
                           /\ ballots'[p][u] = vote[r].chosen
<1>0. ballots \in [Poll -> [User -> SUBSET Option]]
  BY DEF IInv, TypeInv, TypeOK
<1>1. CASE UNCHANGED ballots
  BY <1>1
<1>2. ASSUME NEW r \in Req, VoteCommit(r)
      PROVE  /\ vote[r].pc = "commit" /\ vote[r].poll = p /\ vote[r].user = u
             /\ ballots'[p][u] = vote[r].chosen
  <2>1. /\ vote[r].pc = "commit"
        /\ vote[r].poll \in Poll /\ vote[r].user \in User
        /\ ballots' = [ballots EXCEPT ![vote[r].poll][vote[r].user] =
                         vote[r].chosen]
    BY <1>2, VoteReady
  <2>2. vote[r].poll # p \/ vote[r].user # u => ballots'[p][u] = ballots[p][u]
    BY <1>0, <2>1
  <2>3. vote[r].poll = p /\ vote[r].user = u
    BY <2>2
  <2> QED
    BY <1>0, <2>1, <2>3
<1>3. ASSUME NEW w \in User, DeleteAccount(w) PROVE u \notin accounts'
  BY <1>0, <1>3 DEF DeleteAccount
<1>4. \/ UNCHANGED ballots
      \/ \E r \in Req : VoteCommit(r)
      \/ \E w \in User : DeleteAccount(w)
  BY DEF Next, vars, Tick, SetFlags, VoteArrive, VoteStep, VoteDropped,
     VoteViewer, VoteLoad, VoteEligibility, VoteCheck, VoteDelete, VoteInsert,
     VoteDeadlock, CreateResolve, EndLoad, ExtendArrive, AdminStep,
     AdminDropped, CreateCommit, EndCheck, EndWrite, ExtendLoad, ExtendCheck,
     ExtendWrite
<1> QED
  BY <1>1, <1>2, <1>3, <1>4

(* However votes collide, fail or are dropped, a stored answer changes     *)
(* only to a whole ballot of its voter or goes with the account.           *)
THEOREM BallotsReplacedWholeHolds == Spec => BallotsReplacedWhole
<1>1. IInv /\ [Next]_vars => [WholeBallots]_vars
  BY NextReplacesWhole DEF WholeBallots
<1> QED
  BY <1>1, Invariance, PTL DEF Spec, BallotsReplacedWhole

----------------------------------------------------------------------------
(* An extension that writes finds the closing time its admin saw, and a    *)
(* poll nobody has ended.                                                  *)
LEMMA ExtendReady ==
  ASSUME BoardInv, NEW a \in Adm, ExtendWrite(a), ~UNCHANGED polls
  PROVE  LET p == admin[a].poll
         IN  /\ admin[a].pc = "extend_write" /\ p \in Poll
             /\ polls[p].open /\ polls[p].ended = Null
             /\ polls[p].closes # Null /\ polls[p].closes = admin[a].seen
             /\ admin[a].by \in Extensions
             /\ polls' = [polls EXCEPT ![p].closes =
                            polls[p].closes + admin[a].by]
             /\ UNCHANGED <<now, accounts, ballots>>
<1> DEFINE p == admin[a].poll
<1>1. /\ admin[a].pc = "extend_write" /\ ExtendMatches(a)
      /\ polls' = [polls EXCEPT ![p].closes =
                     ExtensionTarget(admin[a].row.closes, admin[a].by)]
      /\ UNCHANGED <<now, accounts, ballots>>
  BY DEF ExtendWrite
<1>2. p \in Poll /\ AdminInv(a) /\ HandlerInv(a) /\ admin[a].row.closes # Null
  BY <1>1 DEF BoardInv, IInv, TypeInv, RequestsNamed
<1>3. /\ polls[p].ended = Null /\ polls[p].closes = admin[a].row.closes
      /\ admin[a].row.closes = admin[a].seen /\ admin[a].by \in Extensions
      /\ polls[p].open
  BY <1>1, <1>2 DEF ExtendMatches, HandlerInv, AdminInv
<1>4. polls' = [polls EXCEPT ![p].closes = polls[p].closes + admin[a].by]
  BY <1>1, <1>3 DEF ExtensionTarget
<1> QED
  BY <1>1, <1>2, <1>3, <1>4

(* What an ending that writes finds, ...                                   *)
LEMMA EndReady ==
  ASSUME IInv, NEW a \in Adm, EndWrite(a), ~UNCHANGED polls
  PROVE  LET p == admin[a].poll
         IN  /\ p \in Poll /\ polls[p].open /\ polls[p].ended = Null
             /\ \E t \in 0 .. now : polls' = [polls EXCEPT ![p].ended = t]
             /\ UNCHANGED <<now, accounts, ballots>>
<1> DEFINE p == admin[a].poll
<1>1. /\ admin[a].pc = "end_write" /\ EndMatches(a)
      /\ \E t \in admin[a].at .. now : polls' = [polls EXCEPT ![p].ended = t]
      /\ UNCHANGED <<now, accounts, ballots>>
  BY DEF EndWrite
<1>2. /\ p \in Poll /\ AdminInv(a) /\ now \in Nat /\ admin[a].at \in Nat
  BY <1>1 DEF IInv, TypeInv, TypeOK, RequestsNamed, AdminRequest
<1>3. polls[p].open /\ polls[p].ended = Null
  BY <1>1, <1>2 DEF AdminInv, EndMatches
<1>4. admin[a].at .. now \subseteq 0 .. now
  BY <1>2
<1> QED
  BY <1>1, <1>2, <1>3, <1>4

(* ... and what a creation that inserts its poll leaves.                   *)
LEMMA CreateReady ==
  ASSUME BoardInv, NEW a \in Adm, CreateCommit(a), ~UNCHANGED polls
  PROVE  LET p == admin[a].poll
             row == admin[a].row
         IN  /\ p \in Poll /\ ~polls[p].open /\ row \in Row /\ row.open
             /\ Draft(p, row) /\ row.excluded \subseteq accounts
             /\ polls' = [polls EXCEPT ![p] = row]
             /\ UNCHANGED <<now, accounts, ballots>>
<1>1. /\ admin[a].pc = "create_commit" /\ admin[a].row.excluded \subseteq accounts
      /\ polls' = [polls EXCEPT ![admin[a].poll] = admin[a].row]
      /\ UNCHANGED <<now, accounts, ballots>>
  BY DEF CreateCommit
<1>2. /\ admin[a].poll \in Poll /\ AdminInv(a) /\ HandlerInv(a)
      /\ admin[a] \in AdminRequest
  BY <1>1 DEF BoardInv, IInv, TypeInv, TypeOK, RequestsNamed
<1> QED
  BY <1>1, <1>2 DEF AdminInv, HandlerInv, AdminRequest

(* Only three steps of a request, and a deletion, write to polls.          *)
LEMMA WhoWritesPolls ==
  ASSUME [Next]_vars
  PROVE  \/ UNCHANGED polls
         \/ \E a \in Adm : CreateCommit(a) \/ EndWrite(a) \/ ExtendWrite(a)
         \/ \E u \in User : DeleteAccount(u)
BY DEF Next, vars, Tick, SetFlags, VoteArrive, VoteStep, VoteDropped,
     VoteViewer, VoteLoad, VoteEligibility, VoteCheck, VoteDelete, VoteInsert,
     VoteCommit, VoteDeadlock, CreateResolve, EndLoad, ExtendArrive, AdminStep,
     AdminDropped, EndCheck, ExtendLoad, ExtendCheck

LEMMA NextCountsOnce ==
  ASSUME BoardInv, [Next]_vars, NEW p \in Poll,
         polls[p].open, polls'[p].closes # polls[p].closes
  PROVE  \E a \in Adm : /\ admin[a].pc = "extend_write"
                        /\ admin[a].poll = p
                        /\ admin[a].seen = polls[p].closes
                        /\ polls'[p].closes = admin[a].seen + admin[a].by
<1>0. polls \in [Poll -> Row] /\ polls[p] \in Row
  BY DEF BoardInv, IInv, TypeInv, TypeOK
<1>1. ~UNCHANGED polls
  OBVIOUS
<1>2. ASSUME NEW a \in Adm, CreateCommit(a) PROVE FALSE
  <2>1. ~polls[admin[a].poll].open
    BY <1>1, <1>2, CreateReady
  <2>2. polls' = [polls EXCEPT ![admin[a].poll] = admin[a].row]
    BY <1>1, <1>2, CreateReady
  <2> QED
    BY <1>0, <2>1, <2>2
<1>3. ASSUME NEW a \in Adm, EndWrite(a) PROVE FALSE
  <2>1. PICK t : polls' = [polls EXCEPT ![admin[a].poll].ended = t]
    BY <1>1, <1>3, EndReady DEF BoardInv
  <2> QED
    BY <1>0, <2>1 DEF Row
<1>4. ASSUME NEW u \in User, DeleteAccount(u) PROVE FALSE
  <2>1. polls'[p] = [polls[p] EXCEPT !.excluded = @ \ {u}]
    BY <1>4 DEF DeleteAccount
  <2> QED
    BY <1>0, <2>1 DEF Row
<1>5. ASSUME NEW a \in Adm, ExtendWrite(a)
      PROVE  /\ admin[a].pc = "extend_write" /\ admin[a].poll = p
             /\ admin[a].seen = polls[p].closes
             /\ polls'[p].closes = admin[a].seen + admin[a].by
  <2>1. /\ admin[a].pc = "extend_write" /\ admin[a].poll \in Poll
        /\ polls[admin[a].poll].closes = admin[a].seen
        /\ polls' = [polls EXCEPT ![admin[a].poll].closes =
                       polls[admin[a].poll].closes + admin[a].by]
    BY <1>1, <1>5, ExtendReady
  <2>2. admin[a].poll = p
    BY <1>0, <2>1
  <2>3. polls'[p].closes = polls[p].closes + admin[a].by
    BY <1>0, <2>1, <2>2 DEF Row
  <2> QED
    BY <2>1, <2>2, <2>3
<1> QED
  BY <1>1, <1>2, <1>3, <1>4, <1>5, WhoWritesPolls

(* However many admins extend, end and open polls at once, a closing time  *)
(* moves only by one extension of the time its admin was looking at.       *)
THEOREM ExtensionsCountOnceHolds == Spec => ExtensionsCountOnce
<1>1. BoardInv /\ [Next]_vars => [OneExtension]_vars
  BY NextCountsOnce DEF OneExtension
<1> QED
  BY <1>1, BoardInvariance, PTL DEF Spec, ExtensionsCountOnce

----------------------------------------------------------------------------
(* At first nobody claims anything.                                        *)
LEMMA InitIsBoards == Init => Board!Init
<1> SUFFICES ASSUME Init PROVE Board!Init
  OBVIOUS
<1>1. Answering = {} /\ Ending = {} /\ Extending = {}
  BY DEF Init, NoVote, NoAdmin, Answering, Ending, Extending, AnswerClaimed,
     EndClaimed, ExtensionClaimed
<1> QED
  BY <1>1 DEF Init, Board!Init, NoRow

(* Live polls are the same on both levels.                                 *)
LEMMA SameLive ==
  ASSUME NEW p, polls[p].open, RowLive(polls[p]) PROVE Board!Live(p)
BY DEF RowLive, IsLive, Board!Live, Board!IsLive

(* The clock only takes claims away.                                       *)
LEMMA TickDropsClaims ==
  ASSUME BoardInv, Tick
  PROVE  Answering' \subseteq Answering /\ Ending' \subseteq Ending
         /\ Extending' \subseteq Extending
<1>1. UNCHANGED <<vote, admin>> /\ now \in Nat /\ now' = now + 1
  BY DEF Tick, BoardInv, IInv, TypeInv, TypeOK
<1>2. ASSUME NEW row \in Row, IsLive(row.ended, row.closes, now') PROVE RowLive(row)
  BY <1>1, <1>2 DEF RowLive, IsLive, Row, MaybeTime
<1>3. \A r \in Req : vote[r].row \in Row
  BY DEF BoardInv, IInv, TypeInv, TypeOK, VoteRequest
<1>4. \A a \in Adm : admin[a].row \in Row
  BY DEF BoardInv, IInv, TypeInv, TypeOK, AdminRequest
<1>5. \A r \in Req : AnswerClaimed(r)' => AnswerClaimed(r) /\ AnswerClaim(r)' = AnswerClaim(r)
  BY <1>1, <1>2, <1>3 DEF AnswerClaimed, AnswerClaim, RowLive
<1>6. \A a \in Adm : EndClaimed(a)' => EndClaimed(a) /\ EndClaim(a)' = EndClaim(a)
  BY <1>1, <1>2, <1>4 DEF EndClaimed, EndClaim, RowLive
<1>7. \A a \in Adm : ExtensionClaimed(a)' =>
        ExtensionClaimed(a) /\ ExtensionClaim(a)' = ExtensionClaim(a)
  BY <1>1, <1>2, <1>4 DEF ExtensionClaimed, ExtensionClaim, RowLive
<1> QED
  BY <1>5, <1>6, <1>7 DEF Answering, Ending, Extending

(* Claims are made of the requests and the clock.                          *)
LEMMA SameVotesSameClaims ==
  UNCHANGED <<now, vote>> => UNCHANGED Answering
BY DEF Answering, AnswerClaimed, AnswerClaim, RowLive

LEMMA SameAdminsSameClaims ==
  UNCHANGED <<now, admin>> => UNCHANGED <<Ending, Extending>>
BY DEF Ending, Extending, EndClaimed, EndClaim, ExtensionClaimed, ExtensionClaim,
   RowLive

(* A step of one request disturbs no other's claim.                        *)
LEMMA VoteMoves ==
  ASSUME NEW r \in Req, \A q \in Req \ {r} : vote'[q] = vote[q], UNCHANGED now
  PROVE  /\ \A c \in Answering' \ Answering :
              /\ c = AnswerClaim(r)' /\ AnswerClaimed(r)'
              /\ ~(AnswerClaimed(r) /\ AnswerClaim(r)' = AnswerClaim(r))
         /\ AnswerClaimed(r) /\ ~AnswerClaimed(r)' =>
              Answering' = Answering \ {AnswerClaim(r)}
<1>1. \A q \in Req \ {r} : /\ AnswerClaimed(q)' <=> AnswerClaimed(q)
                           /\ AnswerClaim(q)' = AnswerClaim(q)
  BY DEF AnswerClaimed, AnswerClaim, RowLive
<1>2. \A q \in Req \ {r} : AnswerClaim(q) # AnswerClaim(r)
  BY DEF AnswerClaim
<1> QED
  BY <1>1, <1>2 DEF Answering

LEMMA AdminMoves ==
  ASSUME NEW a \in Adm, \A b \in Adm \ {a} : admin'[b] = admin[b], UNCHANGED now
  PROVE  /\ \A c \in Ending' \ Ending :
              /\ c = EndClaim(a)' /\ EndClaimed(a)'
              /\ ~(EndClaimed(a) /\ EndClaim(a)' = EndClaim(a))
         /\ EndClaimed(a) /\ ~EndClaimed(a)' => Ending' = Ending \ {EndClaim(a)}
         /\ ~EndClaimed(a) /\ ~EndClaimed(a)' => UNCHANGED Ending
         /\ \A c \in Extending' \ Extending :
              /\ c = ExtensionClaim(a)' /\ ExtensionClaimed(a)'
              /\ ~(ExtensionClaimed(a) /\ ExtensionClaim(a)' = ExtensionClaim(a))
         /\ ExtensionClaimed(a) /\ ~ExtensionClaimed(a)' =>
              Extending' = Extending \ {ExtensionClaim(a)}
         /\ ~ExtensionClaimed(a) /\ ~ExtensionClaimed(a)' => UNCHANGED Extending
<1>1. \A b \in Adm \ {a} : /\ EndClaimed(b)' <=> EndClaimed(b)
                           /\ EndClaim(b)' = EndClaim(b)
                           /\ ExtensionClaimed(b)' <=> ExtensionClaimed(b)
                           /\ ExtensionClaim(b)' = ExtensionClaim(b)
  BY DEF EndClaimed, EndClaim, ExtensionClaimed, ExtensionClaim, RowLive
<1>2. \A b \in Adm \ {a} : EndClaim(b) # EndClaim(a)
  BY DEF EndClaim
<1>3. \A b \in Adm \ {a} : ExtensionClaim(b) # ExtensionClaim(a)
  BY DEF ExtensionClaim
<1>4. \A c \in Ending' \ Ending :
        /\ c = EndClaim(a)' /\ EndClaimed(a)'
        /\ ~(EndClaimed(a) /\ EndClaim(a)' = EndClaim(a))
  BY <1>1 DEF Ending
<1>5. EndClaimed(a) /\ ~EndClaimed(a)' => Ending' = Ending \ {EndClaim(a)}
  BY <1>1, <1>2 DEF Ending
<1>6. ~EndClaimed(a) /\ ~EndClaimed(a)' => UNCHANGED Ending
  BY <1>1 DEF Ending
<1>7. \A c \in Extending' \ Extending :
        /\ c = ExtensionClaim(a)' /\ ExtensionClaimed(a)'
        /\ ~(ExtensionClaimed(a) /\ ExtensionClaim(a)' = ExtensionClaim(a))
  BY <1>1 DEF Extending
<1>8. ExtensionClaimed(a) /\ ~ExtensionClaimed(a)' =>
        Extending' = Extending \ {ExtensionClaim(a)}
  BY <1>1, <1>3 DEF Extending
<1>9. ~ExtensionClaimed(a) /\ ~ExtensionClaimed(a)' => UNCHANGED Extending
  BY <1>1 DEF Extending
<1> QED
  BY <1>4, <1>5, <1>6, <1>7, <1>8, <1>9

(* A step of a vote before its commit claims only a live poll: the one     *)
(* that load_one has just read.                                            *)
LEMMA VoteClaims ==
  ASSUME BoardInv, NEW r \in Req,
         \/ VoteArrive(r) \/ VoteViewer(r) \/ VoteLoad(r) \/ VoteEligibility(r)
         \/ VoteCheck(r) \/ VoteDelete(r) \/ VoteInsert(r) \/ VoteDeadlock(r)
         \/ VoteDropped(r)
  PROVE  Board!Claim
<1>0. vote \in [Req -> VoteRequest]
  BY DEF BoardInv, IInv, TypeInv, TypeOK
<1>1. /\ UNCHANGED <<now, accounts, polls, ballots, admin>>
      /\ \A q \in Req \ {r} : vote'[q] = vote[q]
  BY <1>0 DEF VoteArrive, VoteViewer, VoteLoad, VoteEligibility, VoteCheck, VoteDelete,
     VoteInsert, VoteDeadlock, VoteDropped, VoteDone
<1> DEFINE Kept == AnswerClaimed(r) /\ AnswerClaim(r)' = AnswerClaim(r)
           Sure == AnswerClaimed(r)' => Kept \/ Board!Live(AnswerClaim(r)'.poll)
<1>2. ASSUME VoteArrive(r) \/ VoteViewer(r) \/ VoteDeadlock(r) \/ VoteDropped(r) PROVE Sure
  <2>1. VoteArrive(r) => vote'[r].pc = "viewer"
    BY <1>0 DEF VoteArrive, NoVote
  <2>2. VoteViewer(r) => vote'[r].pc \in {"load", "idle"}
    BY <1>0 DEF VoteViewer, VoteDone, NoVote, VoteRequest
  <2>3. VoteDeadlock(r) \/ VoteDropped(r) => vote'[r].pc = "idle"
    BY <1>0 DEF VoteDeadlock, VoteDropped, VoteDone, NoVote
  <2> QED
    BY <1>2, <2>1, <2>2, <2>3 DEF AnswerClaimed
<1>3. ASSUME VoteLoad(r) PROVE Sure
  <2>1. \/ vote'[r].pc = "idle"
        \/ /\ vote'[r].pc = "eligibility" /\ vote'[r].row = polls[vote'[r].poll]
           /\ polls[vote'[r].poll].open
    BY <1>0, <1>3 DEF VoteLoad, VoteDone, NoVote, VoteRequest
  <2>2. AnswerClaimed(r)' => polls[vote'[r].poll].open /\ RowLive(polls[vote'[r].poll])
    BY <1>1, <2>1 DEF AnswerClaimed, RowLive
  <2>3. AnswerClaim(r)'.poll = vote'[r].poll
    BY DEF AnswerClaim
  <2> QED
    BY <2>2, <2>3, SameLive
<1>4. ASSUME VoteEligibility(r) PROVE Sure
  <2>1. \/ vote'[r].pc = "idle"
        \/ /\ vote[r].pc = "eligibility" /\ vote'[r].pc = "check"
           /\ vote'[r].row = vote[r].row /\ vote'[r].poll = vote[r].poll
           /\ vote'[r].user = vote[r].user /\ vote'[r].chosen = vote[r].chosen
    BY <1>0, <1>4 DEF VoteEligibility, VoteDone, NoVote, VoteRequest
  <2> QED
    BY <1>1, <2>1 DEF AnswerClaimed, AnswerClaim, RowLive
<1>5. ASSUME VoteCheck(r) PROVE Sure
  <2>1. \/ vote'[r].pc = "idle"
        \/ /\ vote[r].pc = "check" /\ vote'[r].pc = "delete" /\ VoteAllowed(r)
           /\ vote'[r].poll = vote[r].poll
           /\ vote'[r].user = vote[r].user /\ vote'[r].chosen = vote[r].chosen
    BY <1>0, <1>5 DEF VoteCheck, VoteDone, NoVote, VoteRequest
  <2> QED
    BY <1>1, <2>1 DEF AnswerClaimed, AnswerClaim, RowLive, VoteAllowed
<1>6. ASSUME VoteDelete(r) \/ VoteInsert(r) PROVE Sure
  <2>1. \/ vote'[r].pc = "idle"
        \/ /\ vote[r].pc \in {"delete", "insert"} /\ vote'[r].poll = vote[r].poll
           /\ vote'[r].user = vote[r].user /\ vote'[r].chosen = vote[r].chosen
    BY <1>0, <1>6 DEF VoteDelete, VoteInsert, VoteDone, NoVote, VoteRequest
  <2> QED
    BY <2>1 DEF AnswerClaimed, AnswerClaim
<1>7. Sure
  BY <1>2, <1>3, <1>4, <1>5, <1>6
<1>8. \A c \in Answering' \ Answering : Board!Live(c.poll)
  BY <1>1, <1>7, VoteMoves
<1> QED
  BY <1>1, <1>8, SameAdminsSameClaims DEF Board!Claim

(* So does a step of an admin's request before it writes.                  *)
LEMMA AdminClaims ==
  ASSUME BoardInv, NEW a \in Adm,
         \/ CreateResolve(a) \/ EndLoad(a) \/ EndCheck(a) \/ ExtendArrive(a)
         \/ ExtendLoad(a) \/ ExtendCheck(a) \/ AdminDropped(a)
         \/ (CreateCommit(a) \/ EndWrite(a) \/ ExtendWrite(a)) /\ UNCHANGED polls
  PROVE  Board!Claim
<1>0. admin \in [Adm -> AdminRequest]
  BY DEF BoardInv, IInv, TypeInv, TypeOK
<1>1. /\ UNCHANGED <<now, accounts, polls, ballots, vote>>
      /\ \A b \in Adm \ {a} : admin'[b] = admin[b]
  BY <1>0 DEF CreateResolve, EndLoad, EndCheck, ExtendArrive, ExtendLoad, ExtendCheck,
     AdminDropped, CreateCommit, EndWrite, ExtendWrite, AdminDone
<1> DEFINE EndSure ==
             EndClaimed(a)' => \/ EndClaimed(a) /\ EndClaim(a)' = EndClaim(a)
                               \/ Board!Live(EndClaim(a)'.poll)
           ExtensionSure ==
             ExtensionClaimed(a)' =>
               \/ ExtensionClaimed(a) /\ ExtensionClaim(a)' = ExtensionClaim(a)
               \/ /\ Board!Live(ExtensionClaim(a)'.poll)
                  /\ ExtensionClaim(a)'.from = polls[ExtensionClaim(a)'.poll].closes
<1>2. ASSUME \/ CreateResolve(a) \/ ExtendArrive(a) \/ AdminDropped(a)
             \/ CreateCommit(a) \/ EndWrite(a) \/ ExtendWrite(a)
      PROVE  EndSure /\ ExtensionSure
  <2>1. CreateResolve(a) => admin'[a].pc = "create_commit"
    <3>1. ASSUME CreateResolve(a) PROVE admin'[a].pc = "create_commit"
      <4>1. PICK q, row : admin' = [admin EXCEPT ![a] = [NoAdmin EXCEPT
                            !.pc = "create_commit", !.poll = q, !.row = row]]
        BY <3>1, CreateDraft
      <4> QED
        BY <1>0, <4>1 DEF NoAdmin
    <3> QED
      BY <3>1
  <2>2. ASSUME ExtendArrive(a) PROVE admin'[a].pc = "extend_load"
    <3>1. PICK p \in Poll, by \in Extensions :
            admin' = [admin EXCEPT ![a] = [NoAdmin EXCEPT
                        !.pc = "extend_load", !.poll = p,
                        !.seen = polls[p].closes, !.by = by]]
      BY <2>2 DEF ExtendArrive
    <3> QED
      BY <1>0, <3>1 DEF NoAdmin
  <2>3. AdminDropped(a) \/ CreateCommit(a) \/ EndWrite(a) \/ ExtendWrite(a) =>
          admin'[a].pc = "idle"
    <3>1. AdminDone(a) => admin'[a].pc = "idle"
      BY <1>0 DEF AdminDone, NoAdmin
    <3> QED
      BY <3>1 DEF AdminDropped, CreateCommit, EndWrite, ExtendWrite
  <2> QED
    BY <1>2, <2>1, <2>2, <2>3 DEF EndClaimed, ExtensionClaimed
<1>3. ASSUME EndLoad(a) PROVE EndSure /\ ExtensionSure
  <2>0. PICK p \in Poll :
          /\ polls[p].open
          /\ admin' = [admin EXCEPT ![a] = [NoAdmin EXCEPT
                         !.pc = "end_check", !.poll = p, !.row = polls[p]]]
    BY <1>3 DEF EndLoad
  <2>1. /\ admin'[a].pc = "end_check" /\ admin'[a].row = polls[admin'[a].poll]
        /\ polls[admin'[a].poll].open
    BY <1>0, <2>0 DEF NoAdmin
  <2>2. EndClaimed(a)' => Board!Live(admin'[a].poll)
    BY <1>1, <2>1, SameLive DEF EndClaimed, RowLive
  <2> QED
    BY <2>1, <2>2 DEF EndClaim, ExtensionClaimed
<1>4. ASSUME EndCheck(a) PROVE EndSure /\ ExtensionSure
  <2>1. \/ admin'[a].pc = "idle"
        \/ /\ admin[a].pc = "end_check" /\ admin'[a].pc = "end_write"
           /\ RowLive(admin[a].row) /\ admin'[a].poll = admin[a].poll
    BY <1>0, <1>4 DEF EndCheck, AdminDone, NoAdmin, AdminRequest, RowLive
  <2> QED
    BY <2>1 DEF EndClaimed, EndClaim, ExtensionClaimed
<1>5. ASSUME ExtendLoad(a) PROVE EndSure /\ ExtensionSure
  <2>1. /\ admin'[a].pc = "extend_check" /\ admin'[a].row = polls[admin'[a].poll]
        /\ admin[a].pc = "extend_load" /\ admin'[a].poll = admin[a].poll
    BY <1>0, <1>5 DEF ExtendLoad, AdminRequest
  <2>2. polls[admin'[a].poll].open
    BY <2>1 DEF BoardInv, IInv, AdminInv
  <2>3. ExtensionClaimed(a)' => Board!Live(admin'[a].poll)
    BY <1>1, <2>1, <2>2, SameLive DEF ExtensionClaimed, RowLive
  <2> QED
    BY <2>1, <2>3 DEF ExtensionClaim, EndClaimed
<1>6. ASSUME ExtendCheck(a) PROVE EndSure /\ ExtensionSure
  <2>1. \/ admin'[a].pc = "idle"
        \/ /\ admin[a].pc = "extend_check" /\ admin'[a].pc = "extend_write"
           /\ ExtendRefusal(admin[a].row.ended, admin[a].row.closes,
                            admin[a].seen, now) = "none"
           /\ admin'[a].poll = admin[a].poll /\ admin'[a].row = admin[a].row
           /\ admin'[a].by = admin[a].by
    BY <1>0, <1>6 DEF ExtendCheck, AdminDone, NoAdmin, AdminRequest
  <2>2. ExtendRefusal(admin[a].row.ended, admin[a].row.closes, admin[a].seen, now) = "none"
          => RowLive(admin[a].row)
    BY DEF ExtendRefusal, RowLive
  <2> QED
    BY <2>1, <2>2 DEF EndClaimed, ExtensionClaimed, ExtensionClaim
<1>7. EndSure /\ ExtensionSure
  BY <1>2, <1>3, <1>4, <1>5, <1>6
<1>8. \A c \in Ending' \ Ending : Board!Live(c.poll)
  BY <1>1, <1>7, AdminMoves
<1>9. \A c \in Extending' \ Extending : Board!Live(c.poll) /\ c.from = polls[c.poll].closes
  BY <1>1, <1>7, AdminMoves
<1> QED
  BY <1>1, <1>8, <1>9, SameVotesSameClaims DEF Board!Claim

(* The instance counts as this module does.                                *)
LEMMA SameCardinality ==
  ASSUME NEW S PROVE Board!Cardinality(S) = Cardinality(S)
BY DEF Cardinality, Board!Cardinality

LEMMA CreateOpens ==
  ASSUME BoardInv, NEW a \in Adm, CreateCommit(a), ~UNCHANGED polls
  PROVE  Board!Open(admin[a].poll)
<1> DEFINE p == admin[a].poll
           row == admin[a].row
<1>1. /\ p \in Poll /\ ~polls[p].open /\ row \in Row /\ row.open
      /\ Draft(p, row) /\ row.excluded \subseteq accounts
      /\ polls' = [polls EXCEPT ![p] = row]
      /\ UNCHANGED <<now, accounts, ballots>>
  BY CreateReady
<1> HIDE DEF p, row
<1>2. /\ row.multiple \in BOOLEAN /\ row.duration \in Durations
      /\ row.created \in 0 .. now /\ row.audience \in Audiences
      /\ row.excluded \in SUBSET accounts
  BY <1>1 DEF Draft, Row, BoardInv, IInv, TypeInv, TypeOK
<1>3. row = [open |-> TRUE, multiple |-> row.multiple,
             duration |-> row.duration, created |-> row.created,
             closes |-> Board!ClosesAt(row.duration, row.created),
             ended |-> Null, audience |-> row.audience,
             excluded |-> row.excluded]
  BY <1>1 DEF Draft, Row, ClosesAt, Board!ClosesAt
<1>4. Board!NewPollAccepted(OptionsOf[p], row.audience)
  BY <1>1, SameCardinality DEF Draft, NewPollAccepted, Board!NewPollAccepted, MinOptions,
     MaxOptions, Board!MinOptions, Board!MaxOptions
<1>5. UNCHANGED <<Answering, Ending, Extending>>
  <2>1. /\ admin \in [Adm -> AdminRequest] /\ admin[a].pc = "create_commit"
        /\ admin' = [admin EXCEPT ![a] = NoAdmin] /\ UNCHANGED <<now, vote>>
    BY DEF CreateCommit, AdminDone, BoardInv, IInv, TypeInv, TypeOK
  <2>2. /\ ~EndClaimed(a) /\ ~EndClaimed(a)'
        /\ ~ExtensionClaimed(a) /\ ~ExtensionClaimed(a)'
    BY <2>1 DEF EndClaimed, ExtensionClaimed, NoAdmin
  <2> QED
    BY <2>1, <2>2, AdminMoves, SameVotesSameClaims
<1> QED
  BY <1>1, <1>2, <1>3, <1>4, <1>5 DEF Board!Open, Board!claims, p

(* A commit takes the answer its request has claimed, ...                  *)
LEMMA CommitAnswers ==
  ASSUME BoardInv, NEW r \in Req, VoteCommit(r)
  PROVE  AnswerClaim(r) \in Answering /\ Board!Answer(AnswerClaim(r))
<1> DEFINE p == vote[r].poll
           u == vote[r].user
           chosen == vote[r].chosen
<1>1. /\ vote[r].pc = "commit" /\ polls[p].open /\ u \in accounts \ polls[p].excluded
      /\ chosen \in SUBSET OptionsOf[p]
      /\ ChoiceAccepted(chosen, polls[p].multiple)
      /\ ballots' = [ballots EXCEPT ![p][u] = chosen]
      /\ UNCHANGED <<now, accounts, polls>>
  BY VoteReady DEF BoardInv
<1>2. Board!ChoiceAccepted(chosen, polls[p].multiple)
  BY <1>1, SameCardinality DEF ChoiceAccepted, Board!ChoiceAccepted, MaxOptions,
     Board!MaxOptions
<1>3. /\ vote \in [Req -> VoteRequest] /\ vote' = [vote EXCEPT ![r] = NoVote]
      /\ UNCHANGED admin
  BY DEF VoteCommit, VoteDone, BoardInv, IInv, TypeInv, TypeOK
<1>4. AnswerClaimed(r) /\ ~AnswerClaimed(r)'
  BY <1>1, <1>3 DEF AnswerClaimed, NoVote
<1>5. Answering' = Answering \ {AnswerClaim(r)}
  BY <1>1, <1>3, <1>4, VoteMoves
<1>6. AnswerClaim(r) \in Answering
  BY <1>4 DEF Answering
<1>7. /\ AnswerClaim(r).poll = p /\ AnswerClaim(r).user = u
      /\ AnswerClaim(r).chosen = chosen
  BY DEF AnswerClaim
<1>8. UNCHANGED <<Ending, Extending>>
  BY <1>1, <1>3, SameAdminsSameClaims
<1> QED
  BY <1>1, <1>2, <1>5, <1>6, <1>7, <1>8 DEF Board!Answer

(* ... and so do the UPDATEs of end_poll and extend_poll.                  *)
LEMMA WriteEnds ==
  ASSUME BoardInv, NEW a \in Adm, EndWrite(a), ~UNCHANGED polls
  PROVE  EndClaim(a) \in Ending /\ Board!End(EndClaim(a))
<1> DEFINE p == admin[a].poll
<1>1. /\ p \in Poll /\ polls[p].open /\ polls[p].ended = Null
      /\ \E t \in 0 .. now : polls' = [polls EXCEPT ![p].ended = t]
      /\ UNCHANGED <<now, accounts, ballots>>
  BY EndReady DEF BoardInv
<1>2. /\ admin \in [Adm -> AdminRequest] /\ admin[a].pc = "end_write"
      /\ admin' = [admin EXCEPT ![a] = NoAdmin] /\ UNCHANGED vote
  BY DEF EndWrite, AdminDone, BoardInv, IInv, TypeInv, TypeOK
<1>3. /\ EndClaimed(a) /\ ~EndClaimed(a)'
      /\ ~ExtensionClaimed(a) /\ ~ExtensionClaimed(a)'
  BY <1>2 DEF EndClaimed, ExtensionClaimed, NoAdmin
<1>4. Ending' = Ending \ {EndClaim(a)} /\ UNCHANGED Extending
  BY <1>1, <1>2, <1>3, AdminMoves
<1>5. EndClaim(a) \in Ending /\ EndClaim(a).poll = p
  BY <1>3 DEF Ending, EndClaim
<1> QED
  BY <1>1, <1>2, <1>4, <1>5, SameVotesSameClaims DEF Board!End

LEMMA WriteExtends ==
  ASSUME BoardInv, NEW a \in Adm, ExtendWrite(a), ~UNCHANGED polls
  PROVE  ExtensionClaim(a) \in Extending /\ Board!Extend(ExtensionClaim(a))
<1> DEFINE p == admin[a].poll
<1>1. /\ polls[p].open /\ polls[p].ended = Null
      /\ polls[p].closes # Null /\ polls[p].closes = admin[a].seen
      /\ polls' = [polls EXCEPT ![p].closes = polls[p].closes + admin[a].by]
      /\ UNCHANGED <<now, accounts, ballots>>
  BY ExtendReady
<1>2. /\ admin \in [Adm -> AdminRequest] /\ admin[a].pc = "extend_write"
      /\ admin' = [admin EXCEPT ![a] = NoAdmin] /\ UNCHANGED vote
  BY DEF ExtendWrite, AdminDone, BoardInv, IInv, TypeInv, TypeOK
<1>3. /\ ExtensionClaimed(a) /\ ~ExtensionClaimed(a)'
      /\ ~EndClaimed(a) /\ ~EndClaimed(a)'
  BY <1>2 DEF EndClaimed, ExtensionClaimed, NoAdmin
<1>4. Extending' = Extending \ {ExtensionClaim(a)} /\ UNCHANGED Ending
  BY <1>1, <1>2, <1>3, AdminMoves
<1>5. admin[a].row.closes = admin[a].seen
  BY <1>2 DEF BoardInv, HandlerInv
<1>6. /\ ExtensionClaim(a) \in Extending
      /\ ExtensionClaim(a).poll = p /\ ExtensionClaim(a).ticks = admin[a].by
      /\ ExtensionClaim(a).from = polls[p].closes
  BY <1>1, <1>3, <1>5 DEF Extending, ExtensionClaim
<1> QED
  BY <1>1, <1>2, <1>4, <1>6, SameVotesSameClaims DEF Board!Extend, Board!ExtensionTarget

LEMMA NextIsBoards == BoardInv /\ [Next]_vars => [Board!Next]_Board!vars
<1> SUFFICES ASSUME BoardInv, [Next]_vars PROVE [Board!Next]_Board!vars
  OBVIOUS
<1> USE DEF Board!Next
<1>1. CASE UNCHANGED vars \/ \E u \in User : SetFlags(u)
  <2>1. UNCHANGED <<now, accounts, polls, ballots, vote, admin>>
    BY <1>1 DEF vars, SetFlags
  <2> QED
    BY <2>1, SameVotesSameClaims, SameAdminsSameClaims DEF Board!vars, Board!claims
<1>2. CASE Tick
  BY <1>2, TickDropsClaims DEF Tick, Board!Tick
<1>3. ASSUME NEW u \in User, DeleteAccount(u) PROVE Board!Next
  <2>1. UNCHANGED <<Answering, Ending, Extending>>
    BY <1>3, SameVotesSameClaims, SameAdminsSameClaims DEF DeleteAccount
  <2>2. Board!Leave(u)
    BY <1>3, <2>1 DEF DeleteAccount, Board!Leave, Board!claims
  <2> QED
    BY <2>2
<1>4. ASSUME NEW r \in Req, VoteCommit(r) PROVE Board!Next
  BY <1>4, CommitAnswers
<1>5. ASSUME NEW r \in Req,
             \/ VoteArrive(r) \/ VoteViewer(r) \/ VoteLoad(r) \/ VoteEligibility(r)
             \/ VoteCheck(r) \/ VoteDelete(r) \/ VoteInsert(r) \/ VoteDeadlock(r)
             \/ VoteDropped(r)
      PROVE  Board!Next
  BY <1>5, VoteClaims
<1>6. ASSUME NEW a \in Adm, CreateCommit(a), ~UNCHANGED polls PROVE Board!Next
  BY <1>6, CreateOpens, CreateReady
<1>7. ASSUME NEW a \in Adm, EndWrite(a), ~UNCHANGED polls PROVE Board!Next
  BY <1>7, WriteEnds
<1>8. ASSUME NEW a \in Adm, ExtendWrite(a), ~UNCHANGED polls PROVE Board!Next
  BY <1>8, WriteExtends
<1>9. ASSUME NEW a \in Adm,
             \/ CreateResolve(a) \/ EndLoad(a) \/ EndCheck(a) \/ ExtendArrive(a)
             \/ ExtendLoad(a) \/ ExtendCheck(a) \/ AdminDropped(a)
             \/ (CreateCommit(a) \/ EndWrite(a) \/ ExtendWrite(a)) /\ UNCHANGED polls
      PROVE  Board!Next
  BY <1>9, AdminClaims
<1> QED
  BY <1>1, <1>2, <1>3, <1>4, <1>5, <1>6, <1>7, <1>8, <1>9 DEF Next, VoteStep, AdminStep

(* Every handler, for all its steps, locks and failures, is one atomic     *)
(* action of PollBoard on the stored polls and ballots, or none, and acts  *)
(* only on a poll that was live while it ran.                              *)
THEOREM HandlersAreAtomic == Spec => BoardSpec
BY InitIsBoards, NextIsBoards, BoardInvariance, PTL
   DEF Spec, BoardSpec, Board!Spec
=============================================================================
