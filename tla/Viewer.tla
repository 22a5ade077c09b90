------------------------------- MODULE Viewer -------------------------------
(***************************************************************************)
(* What a player carries, as the panel shows it: asked of the running      *)
(* server one path at a time, or read from the player's saved file or from *)
(* a world's stored inventory, while the player moves things, logs out and *)
(* is saved.  Time is the number of moments so far; the text of a reply or *)
(* of a file is the moment it was written at and the layout it was written *)
(* in, and is parsed when the answer is assembled.                         *)
(***************************************************************************)
EXTENDS ItemFormats, FiniteSets

CONSTANTS
  FirstKit,        \* what the player carries at first, by cell
  Cells,           \* where the player may have a stack
  Moves,           \* from which cell to which they move one
  Mutes,           \* the paths whose replies may not parse, None for none
  MaxTime,         \* bound on the moments, by the view asked for
  MaxCrashes,      \* bound on the crashes of the server
  MaxLogins        \* bound on the player's returns, likewise

VARIABLES
  asks,            \* which of the three views this behaviour is about
  past,            \* the player at every moment so far
  layout,          \* how the server writes items
  online,
  saving,          \* a save has moved the file away and not yet replaced it
  dat, old,        \* <uuid>.dat and <uuid>.dat_old
  keyed,           \* whether the plugin names its files by uuid or by name
  stored,          \* its file under each of the two
  style,           \* how it writes them
  crashes, logins,
  call             \* the request

player == <<past, online, logins>>
server == <<layout, saving, dat, old, crashes>>
plugin == <<keyed, stored, style>>
vars == <<asks, player, server, plugin, call>>

Now == Len(past)
Mine == past[Now]

NoFile == [at |-> 0]
File(at, form, whole) == [at |-> at, form |-> form, whole |-> whole]

Sources == {"live", "saved", "world"}
Idle == [at |-> "idle", source |-> "saved", wanted |-> {}, mute |-> None, begun |-> 1,
         best |-> 0, replies |-> << >>, file |-> None, seen |-> 0, body |-> None,
         ended |-> 0, answer |-> None]

-----------------------------------------------------------------------------
(* The player, the server and the plugin.                                  *)

Become(kit, mood) == Now < MaxTime[asks] /\ past' = Append(past, [kit |-> kit, mood |-> mood])

Move(from, to) ==
  /\ online /\ Mine.kit[from] # None /\ Mine.kit[to] = None
  /\ Become([Mine.kit EXCEPT ![to] = Mine.kit[from], ![from] = None], Mine.mood)
  /\ UNCHANGED <<online, logins, server, plugin, call>>

Hurt ==
  /\ online
  /\ Become(Mine.kit, Mine.mood + 1)
  /\ UNCHANGED <<online, logins, server, plugin, call>>

Login ==
  /\ ~online /\ ~saving /\ logins < MaxLogins[asks]
  /\ online' = TRUE /\ logins' = logins + 1
  /\ UNCHANGED <<past, server, plugin, call>>

(* They leave; the server's own file is left out where the plugin's are    *)
(* looked at.                                                              *)
Leave ==
  /\ online /\ asks = "world"
  /\ online' = FALSE
  /\ UNCHANGED <<past, logins, server, plugin, call>>

(* A save, at times and when a player leaves: the file is moved aside, and *)
(* the new one put in its place.                                           *)
Rotate(leaves) ==
  /\ online /\ ~saving /\ asks # "world" /\ (leaves \/ asks = "saved")
  /\ saving' = TRUE /\ old' = dat /\ dat' = NoFile
  /\ online' = ~leaves
  /\ UNCHANGED <<past, logins, layout, crashes, plugin, call>>

PutFile ==
  /\ saving
  /\ saving' = FALSE /\ dat' = File(Now, layout, TRUE)
  /\ UNCHANGED <<player, layout, old, crashes, plugin, call>>

(* The machine stops while the file is written: half of it is there, and   *)
(* the player is again what the last whole file says.                      *)
Crash ==
  /\ saving /\ crashes < MaxCrashes /\ old.at # 0 /\ old.whole
  /\ Become(past[old.at].kit, past[old.at].mood)
  /\ crashes' = crashes + 1 /\ saving' = FALSE /\ online' = FALSE
  /\ dat' = File(Now, layout, FALSE)
  /\ UNCHANGED <<layout, old, logins, plugin, call>>

(* The server is updated, and its files converted or not; the plugin names *)
(* its files by uuid from then on.                                         *)
Upgrade ==
  /\ ~online /\ ~saving /\ layout # "bare"
  /\ layout' = IF layout = "legacy" THEN "components" ELSE "bare"
  /\ dat' \in {dat, IF layout' = "bare" THEN [dat EXCEPT !.form = "converted"] ELSE dat}
  /\ keyed' = "uuid"
  /\ UNCHANGED <<player, saving, old, crashes, stored, style, call>>

(* The player leaves the world whose inventory is looked at: the plugin    *)
(* opens its file, and has written it.                                     *)
OpenStored ==
  /\ online /\ asks = "world"
  /\ stored' = [stored EXCEPT ![keyed] = File(Now, style, FALSE)]
  /\ UNCHANGED <<player, server, keyed, style, call>>

FinishStored ==
  /\ stored[keyed].at # 0 /\ ~stored[keyed].whole
  /\ stored' = [stored EXCEPT ![keyed] = File(stored[keyed].at, style, TRUE)]
  /\ UNCHANGED <<player, server, keyed, style, call>>

-----------------------------------------------------------------------------
(* The request.                                                            *)

To(next) == call' = [call EXCEPT !.at = next] /\ UNCHANGED <<player, server, plugin>>

(* The newest moment a whole file of this kind is from.                    *)
Newest(source) ==
  LET files == IF source = "world" THEN {stored["uuid"], stored["name"]} ELSE {dat, old}
  IN Max({0} \cup {f.at : f \in {g \in files : g.at # 0 /\ g.whole}})

Begin(source, wanted, mute) ==
  /\ call.at = "idle" /\ source = asks
  /\ call' = [Idle EXCEPT !.at = IF source = "live" THEN "ask"
                                 ELSE IF source = "saved" THEN "stat-dat" ELSE "stat-uuid",
                          !.source = source, !.wanted = wanted, !.mute = mute,
                          !.begun = Now, !.best = Newest(source)]
  /\ UNCHANGED <<player, server, plugin>>

(* One path of LIVE_PATHS.  The server answers in prose when the player is *)
(* not there or their data has no such path.                               *)
AskPath ==
  /\ call.at = "ask"
  /\ LET path == LivePaths[Len(call.replies) + 1]
         data == online /\ (path = "equipment" => layout = "bare")
     IN call' = [call EXCEPT
          !.replies = Append(@, [at |-> Now, form |-> layout, data |-> data]),
          !.at = IF path = Last(LivePaths) THEN "stat-dat" ELSE "ask"]
  /\ UNCHANGED <<player, server, plugin>>

(* RCON fails: what was asked so far is given up.                          *)
AskFails ==
  /\ call.at = "ask"
  /\ call' = [call EXCEPT !.replies = << >>, !.at = "stat-dat"]
  /\ UNCHANGED <<player, server, plugin>>

(* What the replies say: those in prose, and those that do not parse, are  *)
(* left out.                                                               *)
LiveRoot ==
  LET read == {i \in DOMAIN call.replies : call.replies[i].data /\ LivePaths[i] # call.mute}
      Reply(i) == Written(past[call.replies[i].at], call.replies[i].form)[LivePaths[i]]
  IN [p \in {LivePaths[i] : i \in read} |-> Reply(CHOOSE i \in read : LivePaths[i] = p)]

LiveRootIsUsable(root) == \E p \in {"Inventory", "EnderItems", "equipment"} : p \in DOMAIN root

DatOf(path) == IF path = "dat" THEN dat ELSE old
AfterFile(path) == IF path = "dat" THEN "stat-old" ELSE "answer"

(* load_snapshot: the time of a file, then the file; one that is missing,  *)
(* too large or not whole sends it to the next.                            *)
Stat(path) ==
  /\ call.at = IF path = "dat" THEN "stat-dat" ELSE "stat-old"
  /\ call' = IF DatOf(path).at = 0 THEN [call EXCEPT !.at = AfterFile(path)]
             ELSE [call EXCEPT !.at = IF path = "dat" THEN "read-dat" ELSE "read-old",
                               !.seen = DatOf(path).at]
  /\ UNCHANGED <<player, server, plugin>>

Read(path) ==
  /\ call.at = IF path = "dat" THEN "read-dat" ELSE "read-old"
  /\ call' = IF DatOf(path).at = 0 \/ ~DatOf(path).whole
             THEN [call EXCEPT !.at = AfterFile(path)]
             ELSE [call EXCEPT !.at = "answer", !.body = DatOf(path)]
  /\ UNCHANGED <<player, server, plugin>>

(* newest_file: the file under the uuid, unless the one under the name is  *)
(* newer.                                                                  *)
StatStored(key) ==
  /\ call.at = IF key = "uuid" THEN "stat-uuid" ELSE "stat-name"
  /\ LET newer == stored[key].at > (IF call.file = None THEN 0 ELSE call.seen)
     IN call' = [call EXCEPT
          !.file = IF newer THEN key ELSE @, !.seen = IF newer THEN stored[key].at ELSE @,
          !.at = IF key = "uuid" THEN "stat-name" ELSE "read-stored"]
  /\ UNCHANGED <<player, server, plugin>>

ReadStored ==
  /\ call.at = "read-stored"
  /\ call' = [call EXCEPT !.at = "answer",
       !.body = IF call.file # None /\ stored[call.file].whole THEN stored[call.file] ELSE None]
  /\ UNCHANGED <<player, server, plugin>>

FromFile == SnapshotFromRoot(Written(past[call.body.at], call.body.form))

Showing(source, vitalsSource, snapshot, vitals, profile) ==
  [source |-> source, vitalsSource |-> vitalsSource, cells |-> snapshot.cells,
   vitals |-> vitals, profile |-> profile,
   savedAt |-> IF call.body = None THEN 0 ELSE call.seen]

ShowLive(live, file) ==
  LET filled == IF call.body = None THEN [vitals |-> live.vitals, borrowed |-> FALSE]
                ELSE FillGapsFrom(live.vitals, file.vitals)
  IN Showing("live", IF filled.borrowed THEN "mixed" ELSE "live", live, filled.vitals, "")

ShowSaved(file) == Showing("saved", "saved", file, file.vitals, "")

ShowWorld(parsed) ==
  Showing("multiverse", "saved", parsed.snapshot, parsed.snapshot.vitals, parsed.profile)

(* The response: a live snapshot whose vitals the file completes, else the *)
(* file's own, else an error.                                              *)
Response ==
  IF LiveRootIsUsable(LiveRoot) THEN ShowLive(SnapshotFromRoot(LiveRoot), FromFile)
  ELSE IF call.body = None THEN None
  ELSE IF call.source = "world"
  THEN ShowWorld(CHOOSE parsed \in Parse(WrittenJson(past[call.body.at], call.body.form),
                                         call.wanted) : TRUE)
  ELSE ShowSaved(FromFile)

Answer ==
  /\ call.at = "answer"
  /\ call' = [call EXCEPT !.at = "done", !.ended = Now, !.answer = Response]
  /\ UNCHANGED <<player, server, plugin>>

Close ==
  /\ call.at = "done"
  /\ call' = Idle
  /\ UNCHANGED <<player, server, plugin>>

-----------------------------------------------------------------------------
Init ==
  /\ asks \in Sources
  /\ past = <<[kit |-> FirstKit, mood |-> 1]>>
  /\ layout \in {"legacy", "components", "bare"}
  /\ online \in BOOLEAN /\ saving = FALSE
  /\ dat = File(1, layout, TRUE) /\ old = NoFile
  /\ IF asks = "world" THEN keyed \in {"uuid", "name"} /\ style \in {"objects", "arrays", "strings"}
     ELSE keyed = "uuid" /\ style = "objects"
  /\ stored = [key \in {"uuid", "name"} |-> NoFile]
  /\ crashes = 0 /\ logins = 0
  /\ call = Idle

Play ==
  \/ \E m \in Moves : Move(m[1], m[2])
  \/ Hurt \/ Login \/ Leave \/ PutFile \/ Crash \/ Upgrade \/ OpenStored \/ FinishStored
  \/ \E leaves \in BOOLEAN : Rotate(leaves)

Serve ==
  \/ \E mute \in Mutes : Begin("live", {}, mute)
  \/ Begin("saved", {}, None)
  \/ \E wanted \in {{"CREATIVE"}, {"SPECTATOR"}} : Begin("world", wanted, None)
  \/ AskPath \/ AskFails
  \/ \E path \in {"dat", "old"} : Stat(path) \/ Read(path)
  \/ \E key \in {"uuid", "name"} : StatStored(key)
  \/ ReadStored \/ Answer \/ Close

Next == (Play \/ Serve) /\ UNCHANGED asks

Spec == Init /\ [][Next]_vars

-----------------------------------------------------------------------------
(* Properties.                                                             *)

Shown(source) == call.at = "done" /\ call.answer # None /\ call.answer.source = source
Moments == call.begun .. call.ended
KitAt(t) == [c \in Filled(past[t].kit) |-> past[t].kit[c]]
VitalsAt(t) == ReadVitals(Written(past[t], "legacy"))

(* The reply that carries a cell.                                          *)
Carrier(c, form) == CASE c[1] = "ender" -> "EnderItems"
                      [] IsWorn(c) /\ form = "bare" -> "equipment"
                      [] OTHER -> "Inventory"

(* A live view, put together from replies of different moments, in any     *)
(* layout, shows no stack where the player had none like it while they     *)
(* were asked, and misses none that stayed in its place, unless the reply  *)
(* that carries it could not be read (live_inventory, snapshot_from_root). *)
LiveCells ==
  Shown("live") =>
    /\ \A c \in DOMAIN call.answer.cells : \E t \in Moments :
         c \in Cells /\ past[t].kit[c] = call.answer.cells[c]
    /\ \A c \in Cells : \A i \in DOMAIN call.replies :
         (/\ LivePaths[i] = Carrier(c, call.replies[i].form)
          /\ call.replies[i].data /\ LivePaths[i] # call.mute
          /\ \A t \in Moments : past[t].kit[c] # None)
         => c \in DOMAIN call.answer.cells

(* vitalsSource says "live" only of vitals that were all the player's own  *)
(* while they were asked (fill_gaps_from, player_inventory).               *)
LiveVitals ==
  Shown("live") /\ call.answer.vitalsSource = "live" =>
    \A f \in VitalFields : \A v \in call.answer.vitals[f] : \E t \in Moments :
      v \in VitalsAt(t)[f]

(* A live view shows nothing of another moment than those it was asked in, *)
(* stacks and vitals alike.                                                *)
LiveIsTrue == LiveCells /\ LiveVitals

(* A view of a file, the server's or the plugin's, is one whole save: no   *)
(* older than the time it is shown with, nor than the newest whole file    *)
(* there was when it was asked for, in the profile it names.               *)
SavedIsWhole ==
  /\ Shown("saved") =>
       \E t \in call.answer.savedAt .. call.ended :
         t >= call.best /\ call.answer.cells = KitAt(t) /\ call.answer.vitals = VitalsAt(t)
  /\ Shown("multiverse") =>
       \/ call.answer.profile = "CREATIVE" /\ call.answer.cells = CreativeKit
       \/ /\ call.answer.profile # "CREATIVE"
          /\ \E t \in call.answer.savedAt .. call.ended :
               /\ t >= call.best /\ call.answer.cells = KitAt(t)
               /\ call.answer.vitals["Health"] = VitalsAt(t)["Health"]

=============================================================================
