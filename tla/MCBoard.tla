------------------------------ MODULE MCBoard ------------------------------
(***************************************************************************)
(* Polls with the cast of one of two scenes, while the others stand still. *)
(* admins: two admins at one poll, which may be permanent, while a member  *)
(* votes and the clock ticks twice.  voters: two voters of a permanent     *)
(* poll, who may name a poll and an option that never come to be, and one  *)
(* admin.                                                                  *)
(***************************************************************************)
EXTENDS Polls, TLC

CONSTANTS p1, p2, o1, o2, o3, u1, u2, u3, r1, r2, r3, a1, a2, a3

VARIABLE part

TwoPolls     == p1 :> {o1, o2} @@ p2 :> {o3}   \* a poll of one option is refused
Attempts     == {{}, {o1}, {o2}, {o3}, {o1, o2}}
TickOrNever  == {1, Null}

Cast ==
  [admins |-> [users |-> {u3}, req |-> {r3}, adm |-> {a1, a2}, polls |-> {p1},
               choices |-> {{}, {o1, o2}}, audience |-> {"members"},
               groups |-> {"members"}, durations |-> {1, Null}, horizon |-> 2],
   voters |-> [users |-> {u1, u2}, req |-> {r1, r2}, adm |-> {a3}, polls |-> {p1, p2},
               choices |-> Attempts \ {{}}, audience |-> {"everyone"},
               groups |-> {}, durations |-> {Null}, horizon |-> 0]]

Actors == Cast[part]

(* Requests are about the scene's props.                                   *)
OfScene ==
  /\ \A r \in Actors.req : vote[r].pc = "viewer" =>
       /\ vote[r].user \in Actors.users
       /\ vote[r].poll \in Actors.polls /\ vote[r].chosen \in Actors.choices
  /\ \A a \in Actors.adm : admin[a].pc = "create_commit" =>
       /\ admin[a].row.audience = Actors.audience
       /\ admin[a].row.duration \in Actors.durations
       /\ admin[a].row.excluded \subseteq Actors.users
  /\ \A u \in User : flags[u] \subseteq (IF u \in Actors.users THEN Actors.groups ELSE {})

Begins == part \in DOMAIN Cast /\ Init /\ OfScene

(* Next of Polls, by the scene's cast.                                     *)
Turn ==
  /\ \/ Tick /\ now < Actors.horizon
     \/ \E u \in Actors.users : SetFlags(u) \/ DeleteAccount(u)
     \/ \E r \in Actors.req : VoteArrive(r) \/ VoteStep(r) \/ VoteDropped(r)
     \/ \E a \in Actors.adm : \/ CreateResolve(a) \/ EndLoad(a) \/ ExtendArrive(a)
                             \/ AdminStep(a) \/ AdminDropped(a)
  /\ UNCHANGED part
  /\ OfScene'

PartsSpec == Begins /\ [][Turn]_<<part, vars>>

(* Two voters and two admins never meet: one permutation swaps both pairs. *)
Symmetry == Permutations({o1, o2}) \cup Permutations({r1, r2})
              \cup {u1 :> u2 @@ u2 :> u1 @@ a1 :> a2 @@ a2 :> a1}
=============================================================================
