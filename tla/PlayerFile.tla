----------------------------- MODULE PlayerFile -----------------------------
(***************************************************************************)
(* The saved file of one player, edited for an operator while the player   *)
(* is away (apply_offline_vital) and read for the panel (load_snapshot),   *)
(* beside the game server, which reads it at login and replaces it at every*)
(* save.  Whether the player is away is what module Presence believes.     *)
(***************************************************************************)
EXTENDS Presence

CONSTANTS Owner        \* the player whose file this is

VARIABLES
  dat, old, bak, tmp,  \* UUID.dat, .dat_old, .dat.apird-backup, .dat-apird-tmp
  memory,              \* the player's data in the game server, None when away
  saving,              \* between the two renames of a save
  edit,                \* what each edit or view has in hand
  audit                \* the audit row of each edit

disk == <<dat, old, bak, tmp>>
game == <<memory, saving>>
fileVars == <<disk, game, edit, audit>>
vars == <<presenceVars, fileVars>>

(* A player's data: which save of the game it comes from, the edits made   *)
(* to it, and whether a reader can parse it.                               *)
Data == [save : Nat, edits : SUBSET Request, whole : BOOLEAN]

(* touched: dat changed since the edit last looked at its time stamp.  fd: where*)
(* the file this edit has open for writing is found now.                   *)
Files == Data \cup {None}

NoEdit == [read |-> None, touched |-> FALSE, fd |-> None, found |-> "unread"]

Places == {None, "tmp", "dat", "old", "gone"}

ASSUME FilesAssumption == None \notin Data /\ None \notin {"none", "tmp", "dat", "old", "gone"}

Init ==
  /\ InitPresence
  /\ call = [q \in Request |-> Idle]
  /\ dat = [save |-> 0, edits |-> {}, whole |-> TRUE]
  /\ old \in {None, dat}
  /\ bak = None /\ tmp = None
  /\ memory = IF Owner \in joined THEN dat ELSE None
  /\ saving = FALSE
  /\ edit = [q \in Request |-> NoEdit]
  /\ audit = [q \in Request |-> "none"]

(* What a change to dat means to the edits under way.                      *)
Touched(e) == [q \in Request |-> [e[q] EXCEPT !.touched = TRUE]]

(* A file renamed to another name takes along whoever is writing it; the   *)
(* file it replaces is written to in vain from then on.                    *)
Moved(e, from, to) ==
  [q \in Request |->
     [e[q] EXCEPT !.fd = CASE @ = from -> to [] @ = to -> "gone" [] OTHER -> @]]

Readable(file) == file # None /\ file.whole

At(q, place) == call[q].at = place /\ UNCHANGED <<load, server, online, sync, cache>>

Ends(q) ==
  /\ call' = [call EXCEPT ![q] = Idle]
  /\ edit' = [edit EXCEPT ![q] = NoEdit]

-----------------------------------------------------------------------------
(* The game server.                                                        *)

ReadsOf(d, o) == IF Readable(d) THEN d ELSE IF Readable(o) THEN o
                 ELSE [save |-> 0, edits |-> {}, whole |-> TRUE]

Login ==
  /\ memory = None
  /\ Join(Owner)
  /\ memory' = ReadsOf(dat, old)
  /\ UNCHANGED <<disk, saving, edit, audit>>

(* The log tells of a leaving player before the last save is made.         *)
Logout == Leave(Owner) /\ UNCHANGED fileVars

OthersMove ==
  /\ \E n \in Name \ {Owner} : Join(n) \/ Leave(n)
  /\ UNCHANGED fileVars

(* A stopped server has saved everyone.                                    *)
ServerRestarts ==
  /\ ~saving
  /\ Restart
  /\ memory' = None
  /\ UNCHANGED <<disk, saving, edit, audit>>

Rotate ==
  /\ memory # None /\ ~saving
  /\ Spend("saves")
  /\ old' = dat /\ dat' = None
  /\ saving' = TRUE
  /\ edit' = Touched(Moved(edit, "dat", "old"))
  /\ UNCHANGED <<load, server, online, sync, cache, call, bak, tmp, memory, audit>>

Save ==
  /\ saving
  /\ dat' = [memory EXCEPT !.save = spent.saves]
  /\ memory' = IF Owner \in joined THEN dat' ELSE None
  /\ saving' = FALSE
  /\ edit' = Touched(Moved(edit, "none", "dat"))
  /\ UNCHANGED <<presenceVars, old, bak, tmp, audit>>

-----------------------------------------------------------------------------
(* POST players/{uuid}/vitals.                                             *)

(* The roster joins the online names to UUIDs through files of the server's*)
(* that may be caught half-written, and then joins none.                   *)
CheckOffline(q) ==
  /\ At(q, "listed")
  /\ \E known \in {Name, {}} :
       IF Owner \in call[q].names \cap known THEN Ends(q)
       ELSE Goes(q, "begin") /\ UNCHANGED edit
  /\ UNCHANGED <<spent, disk, game, audit>>

(* Mutant: the row is only written once the outcome is known.              *)
BeginAuditLater(q) ==
  /\ At(q, "begin")
  /\ Goes(q, "stat")
  /\ UNCHANGED <<spent, disk, game, edit, audit>>

(* The row is written before anything is done; without it nothing is.      *)
BeginAudit(q) ==
  /\ At(q, "begin")
  /\ \/ /\ audit' = [audit EXCEPT ![q] = "pending"]
        /\ Goes(q, "stat")
        /\ UNCHANGED <<spent, edit>>
     \/ Spend("faults") /\ Ends(q) /\ UNCHANGED audit
  /\ UNCHANGED <<disk, game>>

(* How it went is written after the fact; a row that cannot be written     *)
(* stays as it is, and the operator's answer does not depend on it.        *)
Settle(q, result) ==
  /\ \E r \in {result, "pending"} : audit' = [audit EXCEPT ![q] = r]
  /\ Ends(q)
  /\ UNCHANGED disk

Stat(q) ==
  /\ At(q, "stat")
  /\ \/ dat = None /\ Settle(q, "failed")
     \/ /\ dat # None
        /\ edit' = [edit EXCEPT ![q].touched = FALSE]
        /\ Goes(q, "read")
        /\ UNCHANGED <<disk, audit>>
  /\ UNCHANGED <<spent, game>>

Read(q) ==
  /\ At(q, "read")
  /\ \/ ~Readable(dat) /\ Settle(q, "failed")
     \/ /\ Readable(dat)
        /\ edit' = [edit EXCEPT ![q].read = dat]
        /\ Goes(q, "recheck")
        /\ UNCHANGED <<disk, audit>>
  /\ UNCHANGED <<spent, game>>

(* Mutant: the file only has to be there still.                            *)
RecheckExists(q) ==
  /\ At(q, "recheck")
  /\ \/ dat = None /\ Settle(q, "failed")
     \/ /\ dat # None
        /\ edit' = [edit EXCEPT ![q].touched = FALSE]
        /\ Goes(q, "backup")
        /\ UNCHANGED <<disk, audit>>
  /\ UNCHANGED <<spent, game>>

(* The server may have the file: its time stamp must be what it was.       *)
Recheck(q) ==
  /\ At(q, "recheck")
  /\ \/ (dat = None \/ edit[q].touched) /\ Settle(q, "failed")
     \/ /\ dat # None /\ ~edit[q].touched
        /\ edit' = [edit EXCEPT ![q].touched = FALSE]
        /\ Goes(q, "backup")
        /\ UNCHANGED <<disk, audit>>
  /\ UNCHANGED <<spent, game>>

Backup(q) ==
  /\ At(q, "backup")
  /\ \/ dat = None /\ Settle(q, "failed")
     \/ /\ dat # None
        /\ bak' = dat
        /\ Goes(q, "open")
        /\ UNCHANGED <<dat, old, tmp, edit, audit>>
  /\ UNCHANGED <<spent, game>>

(* Mutant: the player's own file is opened for writing.                    *)
OpenInPlace(q) ==
  /\ At(q, "open")
  /\ dat' = [save |-> 0, edits |-> {}, whole |-> FALSE]
  /\ edit' = [edit EXCEPT ![q].fd = "dat"]
  /\ Goes(q, "write")
  /\ UNCHANGED <<spent, tmp, old, bak, game, audit>>

(* The temporary file has one name, whichever edit opens and empties it.   *)
Open(q) ==
  /\ At(q, "open")
  /\ tmp' = [save |-> 0, edits |-> {}, whole |-> FALSE]
  /\ edit' = [edit EXCEPT ![q].fd = "tmp"]
  /\ Goes(q, "write")
  /\ UNCHANGED <<spent, dat, old, bak, game, audit>>

Edited(q) == [edit[q].read EXCEPT !.edits = @ \cup {q}]

(* The bytes go where the open file is by now; over another edit's bytes   *)
(* they may leave a tail of those.                                         *)
Write(q) ==
  LET Landed(old_) == {[Edited(q) EXCEPT !.whole = w] :
                        w \in IF old_.whole THEN BOOLEAN ELSE {TRUE}}
      InPlace == edit[q].fd = "dat"
  IN /\ At(q, "write")
     /\ \/ edit[q].fd = "tmp" /\ tmp' \in Landed(tmp) /\ UNCHANGED <<dat, old>>
        \/ InPlace /\ dat' \in Landed(dat) /\ UNCHANGED <<old, tmp>>
        \/ edit[q].fd = "old" /\ old' \in Landed(old) /\ UNCHANGED <<dat, tmp>>
        \/ edit[q].fd = "gone" /\ UNCHANGED <<dat, old, tmp>>
     /\ edit' = [IF InPlace THEN Touched(edit) ELSE edit EXCEPT ![q].fd = None]
     /\ Goes(q, "rename")
     /\ UNCHANGED <<spent, bak, game, audit>>

Rename(q) ==
  /\ At(q, "rename")
  /\ \/ tmp = None /\ Settle(q, "failed")
     \/ /\ tmp # None
        /\ dat' = tmp /\ tmp' = None
        /\ edit' = Touched(Moved(edit, "tmp", "dat"))
        /\ Goes(q, "settle")
        /\ UNCHANGED <<old, bak, audit>>
  /\ UNCHANGED <<spent, game>>

Succeed(q) == At(q, "settle") /\ Settle(q, "ok") /\ UNCHANGED <<spent, game>>

(* A copy, write or rename that the system refuses.                        *)
DiskFails(q) ==
  /\ \E place \in {"read", "backup", "open", "rename"} : At(q, place)
  /\ Spend("faults")
  /\ Settle(q, "failed")
  /\ UNCHANGED game

(* The process stops, or the browser goes away, between two steps.         *)
Abandon(q) ==
  /\ \E place \in {"listed", "begin", "stat", "read", "recheck", "backup",
                   "open", "write", "rename", "settle", "view", "view old"} :
       At(q, place)
  /\ Spend("faults")
  /\ Ends(q)
  /\ UNCHANGED <<disk, game, audit>>

-----------------------------------------------------------------------------
(* GET players/{uuid}/inventory: the file, or else the one before it.      *)

BeginView(q) ==
  /\ At(q, "idle") /\ load.ops[q] = "view"
  /\ Goes(q, "view")
  /\ edit' = [edit EXCEPT ![q] = NoEdit]
  /\ UNCHANGED <<spent, disk, game, audit>>

(* Mutant: only the current file is read.                                  *)
ViewCurrent(q) ==
  /\ At(q, "view")
  /\ call' = [call EXCEPT ![q] = Idle]
  /\ edit' = [edit EXCEPT ![q].found = IF Readable(dat) THEN "data" ELSE "nothing"]
  /\ UNCHANGED <<spent, disk, game, audit>>

View(q) ==
  \E place \in {"view", "view old"} :
    /\ At(q, place)
    /\ LET file == IF place = "view" THEN dat ELSE old IN
         \/ /\ Readable(file)
            /\ call' = [call EXCEPT ![q] = Idle]
            /\ edit' = [edit EXCEPT ![q].found = "data"]
         \/ /\ ~Readable(file)
            /\ IF place = "view" THEN Goes(q, "view old") /\ UNCHANGED edit
               ELSE /\ call' = [call EXCEPT ![q] = Idle]
                    /\ edit' = [edit EXCEPT ![q].found = "nothing"]
    /\ UNCHANGED <<spent, disk, game, audit>>

-----------------------------------------------------------------------------
EditStep(q) ==
  \/ CheckOffline(q) \/ BeginAudit(q) \/ Stat(q) \/ Read(q) \/ Recheck(q)
  \/ Backup(q) \/ Open(q) \/ Write(q) \/ Rename(q) \/ Succeed(q)

Panel(q) == OnlineStep(q) /\ UNCHANGED fileVars

Next ==
  \/ Login \/ Logout \/ OthersMove \/ ServerRestarts \/ Rotate \/ Save
  \/ (Tick \/ Apply) /\ UNCHANGED fileVars
  \/ \E q \in Request :
       \/ Panel(q) \/ EditStep(q) \/ BeginView(q) \/ View(q)
       \/ DiskFails(q) \/ Abandon(q)
       \/ Drop(q) /\ UNCHANGED fileVars

Spec == Init /\ [][Next]_vars

FairSpec ==
  /\ Spec
  /\ WF_vars(Tick /\ UNCHANGED fileVars)
  /\ WF_vars(Apply /\ UNCHANGED fileVars)
  /\ WF_vars(Save)
  /\ \A q \in Request : WF_vars(Panel(q)) /\ WF_vars(EditStep(q))

-----------------------------------------------------------------------------
TypeOK ==
  /\ PresenceTypeOK
  /\ dat \in Files /\ old \in Files /\ bak \in Files /\ tmp \in Files
  /\ memory \in Files /\ saving \in BOOLEAN
  /\ edit \in [Request -> [read : Files, touched : BOOLEAN, fd : Places,
                          found : {"unread", "data", "nothing"}]]
  /\ audit \in [Request -> {"none", "pending", "ok", "failed"}]

Alone == \A q, r \in Request : load.ops[q] = "edit" /\ load.ops[r] = "edit" => q = r

(* "A crash mid-write cannot leave a half-file behind" (apply_offline_vital*)
(* writes beside the file and renames): so while edits come one at a time, *)
(* whatever fails and whenever.                                            *)
NeverHalf == dat = None \/ dat.whole

(* What an edit replaces is the version it read and has backed up, unless  *)
(* the file changed after the check of its time stamp: only that last      *)
(* window can lose a save of the game or another operator's edit.          *)
ReplacesWhatItRead ==
  [][\A q \in Request :
       (call[q].at = "rename" /\ call'[q].at = "settle" /\ ~edit[q].touched)
         => dat = edit[q].read /\ bak = dat]_vars

(* Every edit in the file, in what the server holds or in the backups has  *)
(* its row: the record is made before the file is touched.                 *)
EditsRecorded ==
  \A file \in {dat, old, bak, tmp, memory} \ {None}, q \in Request :
    q \in file.edits => audit[q] # "none"

(* The panel can always show a player who has been saved: the second file  *)
(* covers what a save leaves unreadable for a moment.                      *)
ViewFindsFile == \A q \in Request : edit[q].found # "nothing"

(* So while edits come one at a time the server and the panel always have  *)
(* a whole file to read.                                                   *)
NoHalfFile == Alone => NeverHalf /\ ViewFindsFile
=============================================================================
