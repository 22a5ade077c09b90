----------------------------- MODULE PollPages -----------------------------
(***************************************************************************)
(* What the poll endpoints show: the admins' pages, an account's list, one *)
(* poll and the answer to "may I vote".  A request puts its answer together*)
(* from several statements without a transaction, while ballots are cast,  *)
(* polls are opened, extended and ended, accounts change and time passes:  *)
(* each of these is one step here, the moment it commits, and Polls says   *)
(* how they come about.  Titles, names and labels are left out.            *)
(***************************************************************************)
EXTENDS PollRules, SequencesExt

CONSTANTS
  User,
  Poll,        \* ids, numbers: later polls have greater ones
  Option,      \* what any of the polls offers
  Worlds,      \* the polls, ballots and flags a run begins with
  PageSize, PastLimit,   \* PAGE_SIZE and PAST_LIMIT
  MaxChanges   \* bound on what happens around the requests

Time == Nat \cup {Null}
PollRow == [open: BOOLEAN, multiple: BOOLEAN, duration: Time, created: Nat, closes: Time,
            ended: Time, audience: SUBSET Audience, excluded: SUBSET User]

ASSUME PagesAssumption ==
  /\ IsFiniteSet(User) /\ IsFiniteSet(Poll) /\ IsFiniteSet(Option)
  /\ Poll \subseteq Nat /\ PageSize \in Nat \ {0} /\ PastLimit \in Nat \ {0}
  /\ \A w \in Worlds : /\ w.polls \in [Poll -> PollRow]
                       /\ w.ballots \in [Poll -> [User -> SUBSET Option]]
                       /\ w.flags \in [User -> SUBSET Group]

VARIABLES
  clock, polls, ballots, flags, accounts,
  changes,
  answer

pollTables == <<clock, polls, ballots, flags, accounts>>
pageVars == <<pollTables, changes, answer>>

Scene == [now |-> clock, polls |-> polls, ballots |-> ballots, flags |-> flags,
          accounts |-> accounts]

NoRequest ==
  [at |-> "idle", op |-> "none", asof |-> 0, user |-> Null, poll |-> Null, live |-> TRUE, page |-> 1,
   flags |-> {}, total |-> 0, pages |-> 0, rows |-> << >>, tally |-> << >>,
   voters |-> << >>, excluded |-> << >>, selected |-> << >>, out |-> << >>, hidden |-> 0,
   refusal |-> "none", open |-> FALSE, scenes |-> {}]

-----------------------------------------------------------------------------
(* Around a request.                                                       *)

Changed ==
  /\ changes < MaxChanges /\ changes' = changes + 1
  /\ answer' = IF answer.at = "idle" THEN answer ELSE [answer EXCEPT !.scenes = @ \cup {Scene'}]

Live(row, at) == row.open /\ IsLive(row.ended, row.closes, at)
Past(row, at) == row.open /\ PastSql(row.ended, row.closes, at)
Entitled(row, user, fl) == user \notin row.excluded /\ InAudience(row.audience, fl)

(* The polls on the side of a listing that were live, or past, at a time.  *)
Half(live, at) == {p \in Poll : IF live THEN Live(polls[p], at) ELSE Past(polls[p], at)}

TimePasses == clock' = clock + 1 /\ UNCHANGED <<polls, ballots, flags, accounts>> /\ Changed

Vote(u, p) ==
  /\ u \in accounts /\ p \in Half(TRUE, clock) /\ Entitled(polls[p], u, flags[u])
  /\ \E chosen \in SUBSET Option :
       /\ ChoiceAccepted(chosen, polls[p].multiple) /\ chosen # ballots[p][u]
       /\ ballots' = [ballots EXCEPT ![p][u] = chosen]
  /\ UNCHANGED <<clock, polls, flags, accounts>> /\ Changed

Open(p) ==
  /\ ~polls[p].open /\ \A q \in Poll : q < p => polls[q].open
  /\ polls' = [polls EXCEPT ![p].open = TRUE]
  /\ UNCHANGED <<clock, ballots, flags, accounts>> /\ Changed

End(p) ==
  /\ p \in Half(TRUE, clock)
  /\ polls' = [polls EXCEPT ![p].ended = clock]
  /\ UNCHANGED <<clock, ballots, flags, accounts>> /\ Changed

Extend(p) ==
  /\ p \in Half(TRUE, clock) /\ polls[p].closes # Null
  /\ polls' = [polls EXCEPT ![p].closes = ExtensionTarget(@, 1)]
  /\ UNCHANGED <<clock, ballots, flags, accounts>> /\ Changed

SetFlags(u) ==
  /\ u \in accounts
  /\ flags' = [flags EXCEPT ![u] = IF @ = {} THEN {"members"} ELSE {}]
  /\ UNCHANGED <<clock, polls, ballots, accounts>> /\ Changed

(* The rows of an account go with it.                                      *)
Delete(u) ==
  /\ u \in accounts
  /\ accounts' = accounts \ {u}
  /\ ballots' = [p \in Poll |-> [ballots[p] EXCEPT ![u] = {}]]
  /\ polls' = [p \in Poll |-> [polls[p] EXCEPT !.excluded = @ \ {u}]]
  /\ UNCHANGED <<clock, flags>> /\ Changed

-----------------------------------------------------------------------------
(* The two orders a listing comes in.                                      *)

SoonerClosed(p, q) ==
  LET a == polls[p].closes
      b == polls[q].closes
  IN \/ a # Null /\ b = Null
     \/ a # Null /\ b # Null /\ a < b
     \/ a = b /\ p > q

Stopped(row) == IF row.ended # Null THEN row.ended ELSE row.closes

LaterStopped(p, q) ==
  LET a == Stopped(polls[p])
      b == Stopped(polls[q])
  IN a > b \/ (a = b /\ p > q)

Ahead(p, q, live) == IF live THEN SoonerClosed(p, q) ELSE LaterStopped(p, q)

InOrder(ids, live) ==
  CHOOSE s \in SetToSeqs(ids) : \A i, j \in DOMAIN s : i < j => Ahead(s[i], s[j], live)

RowOf(p) == [id |-> p, row |-> polls[p]]
Rows(ids) == [i \in DOMAIN ids |-> RowOf(ids[i])]
Ids(rows) == {rows[i].id : i \in DOMAIN rows}

(* Mutant: the OR of the past half is not in brackets.                     *)
MineUnbracketed(user, fl, live) ==
  LET right == IF live THEN {p \in Half(TRUE, clock) : Entitled(polls[p], user, fl)}
               ELSE {p \in Half(FALSE, clock) : polls[p].ended # Null \/ Entitled(polls[p], user, fl)}
      ids   == InOrder(right, live)
  IN IF live \/ Len(ids) <= PastLimit THEN ids ELSE SubSeq(ids, 1, PastLimit)

(* list_my_polls' query.                                                   *)
Mine(user, fl, live) ==
  LET codes == AudiencesFor(fl)
      ids == InOrder({p \in Half(live, clock) : /\ user \notin polls[p].excluded
                                         /\ polls[p].audience \cap codes # {}}, live)
  IN IF live \/ Len(ids) <= PastLimit THEN ids ELSE SubSeq(ids, 1, PastLimit)

-----------------------------------------------------------------------------
(* A request arrives.                                                      *)

Begin ==
  /\ answer.at = "idle"
  /\ \/ \E live \in BOOLEAN, page \in 1 .. Cardinality(Poll) + 1 :
          answer' = [NoRequest EXCEPT !.at = "count", !.op = "pages", !.asof = clock,
                               !.live = live, !.page = page, !.scenes = {Scene}]
     \/ \E live \in BOOLEAN, u \in User :
          answer' = [NoRequest EXCEPT !.at = "viewer", !.op = "mine", !.live = live, !.user = u,
                               !.scenes = {Scene}]
     \/ \E op \in {"get", "access"}, u \in User, p \in Poll :
          answer' = [NoRequest EXCEPT !.at = "viewer", !.op = op, !.user = u, !.poll = p,
                               !.scenes = {Scene}]
  /\ UNCHANGED <<pollTables, changes>>

Step(next) == answer' = next /\ UNCHANGED <<pollTables, changes>>
Refuse(why) == Step([answer EXCEPT !.at = "done", !.refusal = why])

Viewer ==
  /\ answer.at = "viewer"
  /\ IF answer.user \notin accounts THEN Refuse("unknown")
     ELSE Step([answer EXCEPT !.flags = flags[answer.user],
                            !.at = IF answer.op = "mine" THEN "list" ELSE "load"])

(* list_polls_admin: one time, bound before the count, for both statements.*)
Count ==
  /\ answer.at = "count"
  /\ LET total == Cardinality(Half(answer.live, answer.asof))
         pages == (total + PageSize - 1) \div PageSize
         known == IF pages = 0 THEN 1 ELSE pages
     IN Step([answer EXCEPT !.at = "page", !.total = total, !.pages = known,
                          !.page = IF @ > known THEN known ELSE @])

(* Mutant: the offset counts from the page asked for.                      *)
PageOff ==
  /\ answer.at = "page"
  /\ LET ids   == InOrder(Half(answer.live, answer.asof), answer.live)
         first == answer.page * PageSize
         last  == IF first + PageSize > Len(ids) THEN Len(ids) ELSE first + PageSize
         shown == SubSeq(ids, first + 1, last)
     IN Step([answer EXCEPT !.at = IF shown = << >> THEN "done" ELSE "tally",
                            !.rows = Rows(shown)])

Page ==
  /\ answer.at = "page"
  /\ LET ids   == InOrder(Half(answer.live, answer.asof), answer.live)
         first == (answer.page - 1) * PageSize
         last  == IF first + PageSize > Len(ids) THEN Len(ids) ELSE first + PageSize
         shown == SubSeq(ids, first + 1, last)
     IN Step([answer EXCEPT !.at = IF shown = << >> THEN "done" ELSE "tally",
                            !.rows = Rows(shown)])

(* list_my_polls.                                                          *)
List ==
  /\ answer.at = "list"
  /\ LET shown == Mine(answer.user, answer.flags, answer.live)
     IN Step([answer EXCEPT !.at = IF shown = << >> THEN "hidden" ELSE "tally",
                            !.rows = Rows(shown)])

CountHidden ==
  /\ answer.at = "hidden"
  /\ Step([answer EXCEPT !.at = "done", !.hidden = Cardinality(Half(answer.live, clock))])

(* get_poll and poll_access: the row, and then whether it is for them.     *)
Load ==
  /\ answer.at = "load"
  /\ IF ~polls[answer.poll].open THEN Refuse("missing")
     ELSE Step([answer EXCEPT !.at = "exclusion", !.rows = <<RowOf(answer.poll)>>,
                            !.open = Live(polls[answer.poll], clock)])

Judged(why) ==
  IF answer.op = "get"
    THEN IF why = "none" THEN Step([answer EXCEPT !.at = "tally"]) ELSE Refuse(why)
    ELSE Step([answer EXCEPT !.at = "selected",
                           !.refusal = IF why = "none" /\ ~answer.open THEN "closed" ELSE why])

Exclusion ==
  /\ answer.at = "exclusion"
  /\ IF answer.user \in polls[answer.poll].excluded THEN Judged("excluded")
     ELSE Step([answer EXCEPT !.at = "audience"])

Audiences ==
  /\ answer.at = "audience"
  /\ Judged(IF InAudience(polls[answer.poll].audience, answer.flags) THEN "none"
            ELSE "not_eligible")

-----------------------------------------------------------------------------
(* poll_response: a statement each.  Options and audiences never change.   *)

Tally ==
  /\ answer.at = "tally"
  /\ Step([answer EXCEPT !.at = "voters",
        !.tally = [p \in Ids(answer.rows) |->
                     [o \in Option |-> Cardinality({u \in User : o \in ballots[p][u]})]]])

(* Mutant: the rows are counted, not the accounts.                         *)
VotersAsVotes ==
  /\ answer.at = "voters"
  /\ Step([answer EXCEPT !.at = "excluded",
        !.voters = [p \in Ids(answer.rows) |->
                      Cardinality({v \in User \X Option : v[2] \in ballots[p][v[1]]})]])

Voters ==
  /\ answer.at = "voters"
  /\ Step([answer EXCEPT !.at = "excluded",
        !.voters = [p \in Ids(answer.rows) |-> Cardinality({u \in User : ballots[p][u] # {}})]])

Excluded ==
  /\ answer.at = "excluded"
  /\ Step([answer EXCEPT !.at = IF answer.op = "pages" THEN "build" ELSE "selected",
        !.excluded = [p \in Ids(answer.rows) |-> Cardinality(polls[p].excluded)]])

Selected ==
  /\ answer.at = "selected"
  /\ Step([answer EXCEPT !.at = IF answer.op = "access" THEN "done" ELSE "build",
        !.selected = [p \in Ids(answer.rows) |-> ballots[p][answer.user]]])

(* Mutant: of the options that are ahead, nothing is asked.                *)
LeadingAlways(votes) == {o \in DOMAIN votes : \A other \in DOMAIN votes : votes[other] <= votes[o]}

Leading(votes) ==
  {o \in DOMAIN votes : votes[o] > 0 /\ \A other \in DOMAIN votes : votes[other] <= votes[o]}

Shown(r) ==
  LET votes == answer.tally[r.id]
  IN [id |-> r.id, votes |-> votes, voters |-> answer.voters[r.id],
      percent |-> [o \in Option |-> Percent(votes[o], answer.voters[r.id])],
      leading |-> Leading(votes),
      excluded |-> answer.excluded[r.id],
      selected |-> IF r.id \in DOMAIN answer.selected THEN answer.selected[r.id] ELSE {},
      live |-> IsLive(r.row.ended, r.row.closes, clock),
      endedEarly |-> EndedEarly(r.row.ended, r.row.closes),
      extended |-> WasExtended(r.row.duration, r.row.created, r.row.closes)]

Build ==
  /\ answer.at = "build"
  /\ Step([answer EXCEPT !.at = "done",
                         !.out = [i \in DOMAIN answer.rows |-> Shown(answer.rows[i])]])

Close ==
  /\ answer.at = "done"
  /\ Step(NoRequest)

-----------------------------------------------------------------------------
PagesInit ==
  /\ clock = 2 /\ accounts = User /\ changes = 0
  /\ \E w \in Worlds : polls = w.polls /\ ballots = w.ballots /\ flags = w.flags
  /\ answer = NoRequest

World ==
  \/ TimePasses
  \/ \E u \in User : SetFlags(u) \/ Delete(u) \/ \E p \in Poll : Vote(u, p)
  \/ \E p \in Poll : Open(p) \/ End(p) \/ Extend(p)

Reader ==
  \/ Begin \/ Viewer \/ Count \/ Page \/ List \/ CountHidden \/ Load \/ Exclusion \/ Audiences
  \/ Tally \/ Voters \/ Excluded \/ Selected \/ Build \/ Close

PagesNext == World \/ Reader

PagesSpec == PagesInit /\ [][PagesNext]_pageVars

-----------------------------------------------------------------------------
(* Properties.                                                             *)

Done  == answer.at = "done"
Undisturbed == Done /\ Cardinality(answer.scenes) = 1

(* The place of a poll among those of its half.                            *)
Rank(p, ids, live) == Cardinality({q \in ids : q = p \/ Ahead(q, p, live)})

(* A page holds the polls whose place is on it, in order, and says how many*)
(* pages there are (list_polls_admin).                                     *)
PlaceOf(p) == CHOOSE i \in DOMAIN answer.out : answer.out[i].id = p

PageIsExact ==
  answer.op = "pages" =>
    LET half == Half(answer.live, clock)
        pages == IF half = {} THEN 1 ELSE (Cardinality(half) + PageSize - 1) \div PageSize
    IN /\ answer.total = Cardinality(half) /\ answer.pages = pages
       /\ answer.page <= answer.pages
       /\ \A p \in half : p \in Ids(answer.rows) <=>
            (Rank(p, half, answer.live) - 1) \div PageSize = answer.page - 1
       /\ \A p \in Ids(answer.rows) :
            PlaceOf(p) = Rank(p, half, answer.live) - (answer.page - 1) * PageSize

(* An account's list holds the polls it is entitled to, in order, with the *)
(* number of the others when there are none (list_my_polls).               *)
ListIsExact ==
  answer.op = "mine" /\ answer.refusal = "none" =>
    LET half == Half(answer.live, clock)
        mine == {p \in half : Entitled(polls[p], answer.user, answer.flags)}
    IN /\ \A p \in Poll : p \in Ids(answer.rows) <=>
            p \in mine /\ (answer.live \/ Rank(p, mine, FALSE) <= PastLimit)
       /\ \A p \in Ids(answer.rows) : PlaceOf(p) = Rank(p, mine, answer.live)
       /\ answer.hidden = IF mine = {} THEN Cardinality(half) ELSE 0

(* Whoever is told they may vote may (poll_access).                        *)
AccessIsExact ==
  answer.op = "access" /\ answer.refusal \notin {"unknown", "missing"} =>
    (answer.refusal = "none" <=> /\ Live(polls[answer.poll], clock)
                                 /\ Entitled(polls[answer.poll], answer.user, answer.flags))

(* The figures are those of the ballots, with a leader only where somebody *)
(* voted (poll_response).                                                  *)
FiguresAreExact ==
  \A i \in DOMAIN answer.out :
    LET shown == answer.out[i]
        by    == ballots[shown.id]
        most  == {o \in Option : \A other \in Option : shown.votes[other] <= shown.votes[o]}
    IN /\ shown.live = Live(polls[shown.id], clock)
       /\ shown.leading = IF \E u \in User : by[u] # {} THEN most ELSE {}
       /\ \A o \in Option : shown.percent[o] * shown.voters
            \in 1000 * shown.votes[o] - shown.voters .. 1000 * shown.votes[o] + shown.voters

(* When nothing changes meanwhile, an answer is exact.                     *)
QuietAnswersAreExact ==
  Undisturbed => PageIsExact /\ ListIsExact /\ AccessIsExact /\ FiguresAreExact

(* Whatever changes meanwhile, every figure was true of some moment of the *)
(* request, and a poll counts as live only if it was when the page was put *)
(* together or was ended after its row was read (poll_response).           *)
FiguresWereTrue ==
  Done =>
    \A i \in DOMAIN answer.out :
      LET shown == answer.out[i]
          p     == shown.id
      IN /\ \A o \in Option : \E s \in answer.scenes :
              shown.votes[o] = Cardinality({u \in User : o \in s.ballots[p][u]})
         /\ \E s \in answer.scenes :
              shown.voters = Cardinality({u \in User : s.ballots[p][u] # {}})
         /\ \E s \in answer.scenes : shown.excluded = Cardinality(s.polls[p].excluded)
         /\ answer.op # "pages" =>
              \E s \in answer.scenes : shown.selected = s.ballots[p][answer.user]
         /\ shown.live => \E s \in answer.scenes : Live(s.polls[p], s.now)

(* No account is shown a poll that was not for it when its flags were read *)
(* (the brackets of list_my_polls, eligibility in get_poll).               *)
OnlyTheirPolls ==
  Done /\ answer.op \in {"mine", "get"} =>
    \A i \in DOMAIN answer.out : \E s \in answer.scenes :
      Entitled(s.polls[answer.out[i].id], answer.user, answer.flags)

(* Whatever changes meanwhile, an answer holds only what was true of some  *)
(* moment of its request, and only polls that were for the account.        *)
AnswersWereTrue == FiguresWereTrue /\ OnlyTheirPolls

(* An answer about polls is exact when nothing changes, and true when      *)
(* something does.                                                         *)
AnswersAreTrue == QuietAnswersAreExact /\ AnswersWereTrue

=============================================================================
