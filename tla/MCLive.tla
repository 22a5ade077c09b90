------------------------------- MODULE MCLive ------------------------------
(***************************************************************************)
(* What must happen in the end, in two parts of the service that share     *)
(* nothing: each behaviour is about one of them while the other stands     *)
(* still.  Two votes of one account on one poll, with an admin; and two    *)
(* requests for pictures (MCTextures).                                     *)
(***************************************************************************)
EXTENDS MCPolls

CONSTANTS u1, a1, r1, r2, None, Worlds

VARIABLES part, world, spent, hit, miss, inFlight, holder, browser

textures == <<world, spent, hit, miss, inFlight, holder, browser>>

Examples == INSTANCE MCTextures WITH
  Worlds <- << >>, Request <- {r1, r2}, MissTtl <- 1, call <- browser
MCWorlds == Examples!MCWorlds

Pictures == INSTANCE Textures WITH Request <- {r1, r2}, MissTtl <- 1, call <- browser

ASSUME Pictures!MissTtlAssumption

Begins ==
  /\ part \in {"polls", "pictures"}
  /\ Init /\ Pictures!Init
  /\ part # "pictures" => world = "nothing"

Turn ==
  /\ \/ part = "polls" /\ Next /\ UNCHANGED textures
     \/ part = "pictures" /\ Pictures!Next /\ UNCHANGED vars
  /\ UNCHANGED part

(* The fairness of Polls, and that of Textures while it is its turn.       *)
LiveSpec ==
  /\ Begins /\ [][Turn]_<<part, vars, textures>>
  /\ Fairness
  /\ WF_textures(part = "pictures" /\ Pictures!Age)
  /\ \A q \in {r1, r2} : WF_textures(part = "pictures" /\ Pictures!Step(q))

(* The picture shown is the item's own.                                    *)
RightPicture == Pictures!RightPicture

(* An item that has a picture is shown it in the end.                      *)
PictureArrives == part = "pictures" => Pictures!PictureArrives
=============================================================================
