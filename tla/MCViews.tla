------------------------------ MODULE MCViews ------------------------------
(***************************************************************************)
(* Four pages of the console that share nothing, so that each behaviour is *)
(* about one of them: what a player carries (MCViewer), the list of        *)
(* everybody who ever played, the health of the server (MCHealth), and the *)
(* log with the commands of two operators.                                 *)
(* The feed is of this module, so that its property is that of ConsoleFeed; *)
(* the other parts keep their variables in v1, v2, ...                     *)
(***************************************************************************)
EXTENDS ConsoleFeed, TLC

CONSTANTS
  Junk, s1, s2, op, q1, q2, m1, m2, alex, steve, stan,
  LivePaths, ModNamespaces, FirstKit, CreativeKit, Cells, Moves, Relic, Mutes,
  MaxTime, MaxLogins, Loads, Figures

VARIABLES part, v1, v2, v3, v4, v5, v6, v7, v8, v9, v10, v11, v12, v13

rest == <<v1, v2, v3, v4, v5, v6, v7, v8, v9, v10, v11, v12, v13>>
all == <<part, vars, rest>>

Kits == INSTANCE MCViewer WITH LivePaths <- << >>, MaxNestedItems <- 0
MCPaths == Kits!Paths
MCMods == Kits!Mods
MCKit == Kits!Kit
MCSpare == Kits!Spare
MCCells == Kits!MyCells
MCMoves == Kits!FewMoves
MCRelic == Kits!OldPlate
MCMutes == Kits!MutePaths
MCTime == Kits!TimeOf
MCLogins == Kits!LoginsOf

Carried == INSTANCE Viewer WITH
  MaxNestedItems <- 2, MaxCrashes <- 1,
  asks <- v1, past <- v2, layout <- v3, online <- v4, saving <- v5, dat <- v6, old <- v7,
  keyed <- v8, stored <- v9, style <- v10, crashes <- v11, logins <- v12, call <- v13

Players == INSTANCE Roster WITH
  Player <- {m1, m2}, Name <- {alex, steve, stan}, FirstName <- m1 :> alex @@ m2 :> steve,
  MaxEvents <- 3,
  name <- v1, on <- v2, dats <- v3, file <- v4, torn <- v5, events <- v6, call <- v7

Servers == INSTANCE MCHealth
MCLoads == Servers!AllLoads
MCFigures == Servers!Measures

Server == INSTANCE Health WITH
  MaxPlausibleTps <- 100, Request <- {s1, s2, op}, Operator <- {op}, Ttl <- 2, MaxAge <- 1,
  load <- v1, clock <- v2, since <- v3, up <- v4, sidecar <- v5, stats <- v6, status <- v7,
  entry <- v8, holder <- v9, settled <- v10, asked <- v11, drops <- v12, call <- v13

ASSUME Server!TimesAssumption

FewLines == [log |-> 2, audit |-> 1]

InCarried == part = "carried"
InPlayers == part = "players"
InServer == part = "server"
InFeed == part = "feed"

Begins ==
  /\ Init
  /\ \/ InCarried /\ Carried!Init
     \/ /\ InPlayers /\ Players!Init
        /\ v8 = None /\ v9 = None /\ v10 = None /\ v11 = None /\ v12 = None /\ v13 = None
     \/ InServer /\ Server!Init
     \/ /\ InFeed /\ v1 = None /\ v2 = None /\ v3 = None /\ v4 = None /\ v5 = None /\ v6 = None
        /\ v7 = None /\ v8 = None /\ v9 = None /\ v10 = None /\ v11 = None /\ v12 = None /\ v13 = None

Turn ==
  /\ \/ InCarried /\ Carried!Next /\ UNCHANGED vars
     \/ InPlayers /\ Players!Next /\ UNCHANGED <<v8, v9, v10, v11, v12, v13, vars>>
     \/ InServer /\ Server!Next /\ UNCHANGED vars
     \/ InFeed /\ Next /\ UNCHANGED rest
  /\ UNCHANGED part

Symmetric == Permutations({q1, q2})

ViewsSpec == Begins /\ [][Turn]_all

(* A live view shows only what the player had while it was asked.          *)
LiveIsTrue == InCarried => Carried!LiveIsTrue

(* A view of a file is one whole save.                                     *)
SavedIsWhole == InCarried => Carried!SavedIsWhole

(* The roster tells each player's presence once and their flags as they    *)
(* were.                                                                   *)
RosterIsTrue == InPlayers => Players!RosterIsTrue

(* Every figure was true within the age it is allowed.                     *)
FiguresAreTrue == InServer => Server!FiguresAreTrue

(* Callers that come together wait on one probe.                           *)
CommandsAreFew == InServer => Server!CommandsAreFew

(* Who asks after an action sees what it changed.                          *)
ActionsShow == InServer => Server!ActionsShow
=============================================================================
