------------------------------- MODULE Polls -------------------------------
(***************************************************************************)
(* The poll endpoints of src/src/src/routes/polls.rs over the tables of    *)
(* src/src/src/db.rs: players casting and changing ballots (cast_vote),    *)
(* admins opening, ending and extending polls (create_poll, end_poll,      *)
(* extend_poll), accounts being deleted, and the clock.                    *)
(*                                                                         *)
(* A handler is a sequence of steps with an await between them, so every   *)
(* database statement is an action of its own and any other request may    *)
(* run between two of them.  Only cast_vote runs a transaction whose       *)
(* statements other requests can collide with; its row and gap locks are   *)
(* those InnoDB takes for DELETE ... WHERE and INSERT under REPEATABLE     *)
(* READ, and a transaction in flight is invisible until it commits.        *)
(*                                                                         *)
(* An operator called Name_Variant is a wrong version of Name, which the   *)
(* specification does not use: it is what Name would be after a plausible  *)
(* mistake in the code, and some property must tell the two apart.         *)
(***************************************************************************)
EXTENDS PollRules

CONSTANTS
  User,        \* account ids
  Poll,        \* poll ids AUTO_INCREMENT may hand out
  OptionsOf,   \* [Poll -> the option ids inserted with that poll]
  Choices,     \* the sets of option ids a voter may send
  Req,         \* cast_vote requests that may be in flight at once
  Adm,         \* admin requests that may be in flight at once
  Audiences,   \* the audience lists an admin may tick
  Durations,   \* ticks a new poll may run for, Null for a permanent one
  Extensions,  \* ticks an extension may add
  Horizon      \* the last tick of the clock (a bound for model checking)

ASSUME PollsAssumption ==
  /\ Null \notin User \cup Poll
  /\ OptionsOf \in [Poll -> SUBSET UNION {OptionsOf[p] : p \in Poll}]
  /\ \A p \in Poll : IsFiniteSet(OptionsOf[p])
  /\ Choices \subseteq SUBSET UNION {OptionsOf[p] : p \in Poll}
  /\ Audiences \subseteq SUBSET Audience
  /\ Durations \subseteq (Nat \ {0}) \cup {Null}
  /\ Extensions \subseteq Nat \ {0}
  /\ Horizon \in Nat

Option == UNION {OptionsOf[p] : p \in Poll}
MaybeTime == Nat \cup {Null}

VARIABLES
  now,        \* the wall clock
  accounts,   \* rows of users
  flags,      \* is_admin, is_member, is_og of every account
  polls,      \* rows of polls with their audience and exclusion rows
  ballots,    \* rows of poll_votes, by poll and user
  vote,       \* the cast_vote requests
  admin       \* the create_poll, end_poll and extend_poll requests

vars == <<now, accounts, flags, polls, ballots, vote, admin>>

----------------------------------------------------------------------------
Row == [open: BOOLEAN, multiple: BOOLEAN, duration: MaybeTime, created: Nat,
        closes: MaybeTime, ended: MaybeTime,
        audience: SUBSET Audience, excluded: SUBSET User]

(* A poll that has not been inserted; also the row of a request that has   *)
(* not loaded one.                                                         *)
NoRow == [open |-> FALSE, multiple |-> FALSE, duration |-> Null, created |-> 0,
          closes |-> Null, ended |-> Null, audience |-> {}, excluded |-> {}]

VotePC == {"idle", "viewer", "load", "eligibility", "check",
           "delete", "insert", "commit"}

VoteRequest == [pc: VotePC, user: User \cup {Null}, poll: Poll \cup {Null},
                chosen: SUBSET Option, flags: SUBSET Group, row: Row,
                deleted: SUBSET Option]

NoVote == [pc |-> "idle", user |-> Null, poll |-> Null, chosen |-> {},
           flags |-> {}, row |-> NoRow, deleted |-> {}]

AdminPC == {"idle", "create_commit", "end_check", "end_write",
            "extend_load", "extend_check", "extend_write"}

AdminRequest == [pc: AdminPC, poll: Poll \cup {Null}, row: Row,
                 seen: MaybeTime, by: Nat, at: Nat]

NoAdmin == [pc |-> "idle", poll |-> Null, row |-> NoRow,
            seen |-> Null, by |-> 0, at |-> 0]

Live(p) == polls[p].open /\ IsLive(polls[p].ended, polls[p].closes, now)

TypeOK ==
  /\ now \in Nat
  /\ accounts \subseteq User
  /\ flags \in [User -> SUBSET Group]
  /\ polls \in [Poll -> Row]
  /\ ballots \in [Poll -> [User -> SUBSET Option]]
  /\ vote \in [Req -> VoteRequest]
  /\ admin \in [Adm -> AdminRequest]

Init ==
  /\ now = 0
  /\ accounts = User
  /\ flags \in [User -> SUBSET Group]
  /\ polls = [p \in Poll |-> NoRow]
  /\ ballots = [p \in Poll |-> [u \in User |-> {}]]
  /\ vote = [r \in Req |-> NoVote]
  /\ admin = [a \in Adm |-> NoAdmin]

----------------------------------------------------------------------------
(* Locks a cast_vote transaction holds on the ballot it replaces.  The     *)
(* DELETE leaves a gap lock on the ballot's key range, and locks the rows  *)
(* it found; the INSERT locks its own rows and, for the foreign keys, the  *)
(* parent rows in polls and users.                                         *)
SameBallot(r, s) == vote[r].user = vote[s].user /\ vote[r].poll = vote[s].poll
HoldsGap(r)  == vote[r].pc \in {"insert", "commit"}
HoldsRows(r) ==
  \/ vote[r].pc = "insert" /\ vote[r].deleted # {}
  \/ vote[r].pc = "commit"

(* The request r ends, whatever its answer; an open transaction of it is   *)
(* rolled back unless the same step commits.  A request keeps the locals   *)
(* it will still read and drops the others.                                *)
VoteDone(r) == vote' = [vote EXCEPT ![r] = NoVote]

(* POST /api/polls/{id}/vote arrives.                                      *)
VoteArrive(r) ==
  /\ vote[r].pc = "idle"
  /\ \E u \in User, p \in Poll, chosen \in Choices :
       vote' = [vote EXCEPT ![r] =
                  [NoVote EXCEPT !.pc = "viewer", !.user = u, !.poll = p,
                                 !.chosen = chosen]]
  /\ UNCHANGED <<now, accounts, flags, polls, ballots, admin>>

(* viewer: the flags are read once, before anything else.                  *)
VoteViewer(r) ==
  /\ vote[r].pc = "viewer"
  /\ IF vote[r].user \in accounts
       THEN vote' = [vote EXCEPT ![r].pc = "load",
                                 ![r].flags = flags[vote[r].user]]
       ELSE VoteDone(r)
  /\ UNCHANGED <<now, accounts, flags, polls, ballots, admin>>

(* load_one.                                                               *)
VoteLoad(r) ==
  /\ vote[r].pc = "load"
  /\ IF polls[vote[r].poll].open
       THEN vote' = [vote EXCEPT ![r].pc = "eligibility",
                                 ![r].row = polls[vote[r].poll]]
       ELSE VoteDone(r)
  /\ UNCHANGED <<now, accounts, flags, polls, ballots, admin>>

(* eligibility: exclusion rows first, then the audience.                   *)
Eligible_NoExclusions(p, u, userFlags) ==
  InAudience(polls[p].audience, userFlags)

Eligible(p, u, userFlags) ==
  /\ u \notin polls[p].excluded
  /\ InAudience(polls[p].audience, userFlags)

VoteEligibility(r) ==
  /\ vote[r].pc = "eligibility"
  /\ IF Eligible(vote[r].poll, vote[r].user, vote[r].flags)
       THEN vote' = [vote EXCEPT ![r].pc = "check", ![r].flags = {}]
       ELSE VoteDone(r)
  /\ UNCHANGED <<now, accounts, flags, polls, ballots, admin>>

(* is_live of the row loaded earlier, normalise_choice, and the options'   *)
(* poll; options never change once inserted, so their query can be here.   *)
VoteAllowed_AnyOption(r) ==
  /\ IsLive(vote[r].row.ended, vote[r].row.closes, now)
  /\ ChoiceAccepted(vote[r].chosen, vote[r].row.multiple)

VoteAllowed_AnyTime(r) ==
  /\ ChoiceAccepted(vote[r].chosen, vote[r].row.multiple)
  /\ vote[r].chosen \subseteq OptionsOf[vote[r].poll]

VoteAllowed(r) ==
  /\ IsLive(vote[r].row.ended, vote[r].row.closes, now)
  /\ ChoiceAccepted(vote[r].chosen, vote[r].row.multiple)
  /\ vote[r].chosen \subseteq OptionsOf[vote[r].poll]

VoteCheck(r) ==
  /\ vote[r].pc = "check"
  /\ IF VoteAllowed(r)
       THEN vote' = [vote EXCEPT ![r].pc = "delete", ![r].row = NoRow]
       ELSE VoteDone(r)
  /\ UNCHANGED <<now, accounts, flags, polls, ballots, admin>>

(* BEGIN and DELETE FROM poll_votes: waits for rows another transaction    *)
(* has locked; a range with no rows in it is locked by both.               *)
VoteDelete_NoLock(r) ==
  /\ vote[r].pc = "delete"
  /\ vote' = [vote EXCEPT ![r].pc = "insert",
                          ![r].deleted = ballots[vote[r].poll][vote[r].user]]
  /\ UNCHANGED <<now, accounts, flags, polls, ballots, admin>>

VoteDelete_NoTransaction(r) ==
  /\ vote[r].pc = "delete"
  /\ ballots' = [ballots EXCEPT ![vote[r].poll][vote[r].user] = {}]
  /\ vote' = [vote EXCEPT ![r].pc = "insert"]
  /\ UNCHANGED <<now, accounts, flags, polls, admin>>

VoteDelete_Forgotten(r) ==
  /\ vote[r].pc = "delete"
  /\ vote' = [vote EXCEPT ![r].pc = "insert"]
  /\ UNCHANGED <<now, accounts, flags, polls, ballots, admin>>

VoteDelete(r) ==
  /\ vote[r].pc = "delete"
  /\ \A s \in Req \ {r} : SameBallot(r, s) => ~HoldsRows(s)
  /\ vote' = [vote EXCEPT ![r].pc = "insert",
                          ![r].deleted = ballots[vote[r].poll][vote[r].user]]
  /\ UNCHANGED <<now, accounts, flags, polls, ballots, admin>>

(* INSERT INTO poll_votes: waits for another transaction's gap lock, and   *)
(* fails on the foreign key when the account is gone.                      *)
VoteInsert_ErrorLost(r) ==
  /\ vote[r].pc = "insert"
  /\ \A s \in Req \ {r} : SameBallot(r, s) => ~HoldsGap(s)
  /\ vote[r].user \in accounts
  /\ vote' = [vote EXCEPT ![r].pc = "commit"]
  /\ UNCHANGED <<now, accounts, flags, polls, ballots, admin>>

VoteInsert(r) ==
  /\ vote[r].pc = "insert"
  /\ \A s \in Req \ {r} : SameBallot(r, s) => ~HoldsGap(s)
  /\ IF vote[r].user \in accounts
       THEN vote' = [vote EXCEPT ![r].pc = "commit"]
       ELSE VoteDone(r)
  /\ UNCHANGED <<now, accounts, flags, polls, ballots, admin>>

(* COMMIT makes both statements visible: the rows the DELETE found go, the *)
(* rows of the INSERT come.                                                *)
VoteCommit(r) ==
  /\ vote[r].pc = "commit"
  /\ ballots' = [ballots EXCEPT ![vote[r].poll][vote[r].user] =
                   (@ \ vote[r].deleted) \cup vote[r].chosen]
  /\ VoteDone(r)
  /\ UNCHANGED <<now, accounts, flags, polls, admin>>

(* Two transactions that wait for each other's gap lock: InnoDB rolls one  *)
(* of them back and its request answers 500.                               *)
VoteDeadlock(r) ==
  /\ vote[r].pc = "insert"
  /\ \E s \in Req \ {r} : SameBallot(r, s) /\ vote[s].pc = "insert"
  /\ VoteDone(r)
  /\ UNCHANGED <<now, accounts, flags, polls, ballots, admin>>

(* The client hangs up, the connection to the database is lost or the      *)
(* server restarts: the handler is dropped at an await.                    *)
VoteDropped(r) ==
  /\ vote[r].pc # "idle"
  /\ VoteDone(r)
  /\ UNCHANGED <<now, accounts, flags, polls, ballots, admin>>

----------------------------------------------------------------------------
AdminDone(a) == admin' = [admin EXCEPT ![a] = NoAdmin]

(* The rows create_poll inserts, opening the poll at the present time.     *)
NewRow(multiple, duration, audience, excluded) ==
  [open |-> TRUE, multiple |-> multiple, duration |-> duration,
   created |-> now, closes |-> ClosesAt(duration, now), ended |-> Null,
   audience |-> audience, excluded |-> excluded]

(* create_poll up to the transaction: the exclusion list is resolved to    *)
(* ids of existing accounts, then the opening time is taken.  Poll p names *)
(* the poll this request inserts, and OptionsOf[p] its options.            *)
CreateResolve(a) ==
  /\ admin[a].pc = "idle"
  /\ \E p \in Poll, multiple \in BOOLEAN, duration \in Durations,
        audience \in Audiences, excluded \in SUBSET accounts :
       /\ ~polls[p].open
       /\ \A b \in Adm : admin[b].pc = "create_commit" => admin[b].poll # p
       /\ NewPollAccepted(OptionsOf[p], audience)
       /\ duration # Null => now + duration <= Horizon
       /\ admin' = [admin EXCEPT ![a] = [NoAdmin EXCEPT
                      !.pc = "create_commit", !.poll = p,
                      !.row = NewRow(multiple, duration, audience, excluded)]]
  /\ UNCHANGED <<now, accounts, flags, polls, ballots, vote>>

(* The transaction of create_poll.  Nothing else can see or lock the new   *)
(* rows, so it is one step: all of them, or none when an excluded account  *)
(* was deleted meanwhile and the foreign key fails.                        *)
CreateCommit(a) ==
  /\ admin[a].pc = "create_commit"
  /\ polls' = IF admin[a].row.excluded \subseteq accounts
                THEN [polls EXCEPT ![admin[a].poll] = admin[a].row]
                ELSE polls
  /\ AdminDone(a)
  /\ UNCHANGED <<now, accounts, flags, ballots, vote>>

----------------------------------------------------------------------------
(* end_poll: load_one.                                                     *)
EndLoad(a) ==
  /\ admin[a].pc = "idle"
  /\ \E p \in Poll :
       /\ polls[p].open
       /\ admin' = [admin EXCEPT ![a] = [NoAdmin EXCEPT
                      !.pc = "end_check", !.poll = p, !.row = polls[p]]]
  /\ UNCHANGED <<now, accounts, flags, polls, ballots, vote>>

EndCheck(a) ==
  /\ admin[a].pc = "end_check"
  /\ IF IsLive(admin[a].row.ended, admin[a].row.closes, now)
       THEN admin' = [admin EXCEPT ![a].pc = "end_write", ![a].at = now,
                                   ![a].row = NoRow]
       ELSE AdminDone(a)
  /\ UNCHANGED <<now, accounts, flags, polls, ballots, vote>>

(* An UPDATE of a polls row waits for the transactions whose INSERT has    *)
(* share-locked it.                                                        *)
PollUnlocked(p) == \A r \in Req : vote[r].poll = p => vote[r].pc # "commit"

(* The WHERE clause of UPDATE polls SET ended_at.                          *)
EndMatches_Always(a) == polls[admin[a].poll].open

EndMatches(a) == polls[admin[a].poll].ended = Null

(* ended_at comes from a second call of now(), after the one of the check. *)
EndWrite(a) ==
  LET p == admin[a].poll IN
  /\ admin[a].pc = "end_write"
  /\ PollUnlocked(p)
  /\ \/ /\ EndMatches(a)
        /\ \E t \in admin[a].at .. now :
             polls' = [polls EXCEPT ![p].ended = t]
     \/ ~EndMatches(a) /\ UNCHANGED polls
  /\ AdminDone(a)
  /\ UNCHANGED <<now, accounts, flags, ballots, vote>>

----------------------------------------------------------------------------
(* extend_poll arrives with the closing time the admin's page showed.      *)
ExtendArrive(a) ==
  /\ admin[a].pc = "idle"
  /\ \E p \in Poll, by \in Extensions :
       /\ polls[p].open
       /\ polls[p].closes # Null
       /\ polls[p].closes + by <= Horizon
       /\ admin' = [admin EXCEPT ![a] = [NoAdmin EXCEPT
                      !.pc = "extend_load", !.poll = p,
                      !.seen = polls[p].closes, !.by = by]]
  /\ UNCHANGED <<now, accounts, flags, polls, ballots, vote>>

ExtendLoad(a) ==
  /\ admin[a].pc = "extend_load"
  /\ admin' = [admin EXCEPT ![a].pc = "extend_check",
                            ![a].row = polls[admin[a].poll]]
  /\ UNCHANGED <<now, accounts, flags, polls, ballots, vote>>

ExtendCheck(a) ==
  /\ admin[a].pc = "extend_check"
  /\ IF ExtendRefusal(admin[a].row.ended, admin[a].row.closes,
                      admin[a].seen, now) = "none"
       THEN admin' = [admin EXCEPT ![a].pc = "extend_write", ![a].at = now]
       ELSE AdminDone(a)
  /\ UNCHANGED <<now, accounts, flags, polls, ballots, vote>>

(* The WHERE clause of the UPDATE; at is the time of the check.            *)
ExtendMatches_Ended(a) ==
  LET row == polls[admin[a].poll] IN
  row.closes = admin[a].row.closes /\ row.closes > admin[a].at

ExtendMatches(a) ==
  LET row == polls[admin[a].poll] IN
  /\ row.ended = Null
  /\ row.closes = admin[a].row.closes
  /\ row.closes > admin[a].at

ExtendWrite(a) ==
  LET p == admin[a].poll IN
  /\ admin[a].pc = "extend_write"
  /\ PollUnlocked(p)
  /\ polls' = IF ExtendMatches(a)
                THEN [polls EXCEPT ![p].closes =
                        ExtensionTarget(admin[a].row.closes, admin[a].by)]
                ELSE polls
  /\ AdminDone(a)
  /\ UNCHANGED <<now, accounts, flags, ballots, vote>>

AdminDropped(a) ==
  /\ admin[a].pc # "idle"
  /\ AdminDone(a)
  /\ UNCHANGED <<now, accounts, flags, polls, ballots, vote>>

----------------------------------------------------------------------------
Tick ==
  /\ now < Horizon
  /\ now' = now + 1
  /\ UNCHANGED <<accounts, flags, polls, ballots, vote, admin>>

(* An admin changes an account's flags.                                    *)
SetFlags(u) ==
  /\ u \in accounts
  /\ \E new \in SUBSET Group :
       /\ new # flags[u]
       /\ flags' = [flags EXCEPT ![u] = new]
  /\ UNCHANGED <<now, accounts, polls, ballots, vote, admin>>

(* DELETE FROM users: the foreign keys take the account's ballots and      *)
(* exclusions with it, waiting for the locks a ballot in flight holds.     *)
DeleteAccount(u) ==
  /\ u \in accounts
  /\ \A r \in Req : vote[r].user = u => ~HoldsRows(r)
  /\ accounts' = accounts \ {u}
  /\ ballots' = [p \in Poll |-> [ballots[p] EXCEPT ![u] = {}]]
  /\ polls' = [p \in Poll |-> [polls[p] EXCEPT !.excluded = @ \ {u}]]
  /\ UNCHANGED <<now, flags, vote, admin>>

----------------------------------------------------------------------------
VoteStep(r) ==
  \/ VoteViewer(r) \/ VoteLoad(r) \/ VoteEligibility(r) \/ VoteCheck(r)
  \/ VoteDelete(r) \/ VoteInsert(r) \/ VoteCommit(r) \/ VoteDeadlock(r)

AdminStep(a) ==
  \/ CreateCommit(a)
  \/ EndCheck(a) \/ EndWrite(a)
  \/ ExtendLoad(a) \/ ExtendCheck(a) \/ ExtendWrite(a)

Next ==
  \/ Tick
  \/ \E u \in User : SetFlags(u) \/ DeleteAccount(u)
  \/ \E r \in Req : VoteArrive(r) \/ VoteStep(r) \/ VoteDropped(r)
  \/ \E a \in Adm : \/ CreateResolve(a) \/ EndLoad(a) \/ ExtendArrive(a)
                    \/ AdminStep(a) \/ AdminDropped(a)

Spec == Init /\ [][Next]_vars

(* A handler that can run is run; InnoDB grants a lock to those that wait  *)
(* for it in turn, hence strong fairness for steps that wait for one.      *)
Fairness ==
  /\ \A r \in Req : SF_vars(VoteStep(r))
  /\ \A a \in Adm : SF_vars(AdminStep(a))

FairSpec == Spec /\ Fairness

----------------------------------------------------------------------------
(* A poll that accepts one answer never stores two for one voter, however  *)
(* many of the voter's requests replace the ballot at once (cast_vote).    *)
SingleAnswer ==
  \A p \in Poll, u \in User :
    ~polls[p].multiple =>
      \A x, y \in ballots[p][u] : x = y

(* Whoever has a ballot is an existing account the poll does not exclude,  *)
(* and every option on it belongs to that poll: the checks of cast_vote    *)
(* still hold when its transaction commits, deleted accounts included.     *)
OnlyEntitledBallots ==
  \A p \in Poll, u \in User :
    ballots[p][u] # {} =>
      /\ u \in accounts
      /\ polls[p].open /\ u \notin polls[p].excluded
      /\ ballots[p][u] \subseteq OptionsOf[p]

(* Two ballots of one voter are never both written and uncommitted: the    *)
(* locks of DELETE and INSERT serialise the transactions of cast_vote.     *)
OneWriterPerBallot ==
  \A r, s \in Req :
    r # s /\ SameBallot(r, s) /\ HoldsRows(r) => ~HoldsGap(s)

(* What a step may do to ballots and to closing times.                     *)
WholeBallots ==
  \A p \in Poll, u \in User :
    ballots'[p][u] # ballots[p][u] =>
      \/ u \notin accounts'
      \/ \E r \in Req : /\ vote[r].pc = "commit"
                        /\ vote[r].poll = p /\ vote[r].user = u
                        /\ ballots'[p][u] = vote[r].chosen

OneExtension ==
  \A p \in Poll :
    polls[p].open /\ polls'[p].closes # polls[p].closes =>
      \E a \in Adm : /\ admin[a].pc = "extend_write"
                     /\ admin[a].poll = p
                     /\ admin[a].seen = polls[p].closes
                     /\ polls'[p].closes = admin[a].seen + admin[a].by

(* A voter's stored answer changes only to a whole ballot of that voter or *)
(* goes with the account: no failure, deadlock or dropped request between  *)
(* DELETE and INSERT discards an answer already given (cast_vote).         *)
BallotsReplacedWhole == [][WholeBallots]_vars

(* A closing time moves only by one extension added to the closing time    *)
(* the admin was looking at: two admins who extend from the same page do   *)
(* not both succeed (extend_poll, extension_target).                       *)
ExtensionsCountOnce == [][OneExtension]_vars

(* A closed poll takes no more votes, as the test of api.rs says: a ballot *)
(* is stored only while its poll is live (cast_vote).                      *)
ClosedTakesNoVotes ==
  [][\A p \in Poll, u \in accounts' :
       ballots'[p][u] # ballots[p][u] => Live(p)]_vars

(* A poll that has run out is not extended, as the comment of extend_poll  *)
(* says: a closing time moves only while the poll is live.                 *)
OnlyLiveExtended ==
  [][\A p \in Poll :
       polls[p].open /\ polls'[p].closes # polls[p].closes => Live(p)]_vars

(* Every vote request is answered, including the two whose transactions    *)
(* wait for each other.                                                    *)
VotesAnswered == \A r \in Req : vote[r].pc # "idle" ~> vote[r].pc = "idle"

(* The claims of PollBoard: a request has one from the moment it reads a   *)
(* live row, as long as that row would still pass its check.               *)
RowLive(row) == IsLive(row.ended, row.closes, now)

AnswerClaimed(r) ==
  \/ vote[r].pc \in {"delete", "insert", "commit"}
  \/ vote[r].pc \in {"eligibility", "check"} /\ RowLive(vote[r].row)

EndClaimed(a) ==
  \/ admin[a].pc = "end_write"
  \/ admin[a].pc = "end_check" /\ RowLive(admin[a].row)

ExtensionClaimed(a) ==
  \/ admin[a].pc = "extend_write"
  \/ admin[a].pc = "extend_check" /\ RowLive(admin[a].row)

AnswerClaim(r) ==
  [by |-> r, poll |-> vote[r].poll, user |-> vote[r].user, chosen |-> vote[r].chosen]
EndClaim(a) == [by |-> a, poll |-> admin[a].poll]
ExtensionClaim(a) ==
  [by |-> a, poll |-> admin[a].poll, from |-> admin[a].row.closes, ticks |-> admin[a].by]

Answering == {AnswerClaim(r) : r \in {q \in Req : AnswerClaimed(q)}}
Ending    == {EndClaim(a) : a \in {b \in Adm : EndClaimed(b)}}
Extending == {ExtensionClaim(a) : a \in {b \in Adm : ExtensionClaimed(b)}}

(* Each handler, for all its steps, takes effect as one atomic action of   *)
(* PollBoard or not at all, and only if its poll was live after it came; so *)
(* an ending is final: neither ended_at nor the closing time of an ended   *)
(* poll changes again, whatever other admins had in flight (cast_vote,     *)
(* end_poll, extend_poll).                                                 *)
Board == INSTANCE PollBoard WITH answering <- Answering, ending <- Ending,
                                extending <- Extending
BoardSpec == Board!Spec

=============================================================================
