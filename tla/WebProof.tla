------------------------------ MODULE WebProof ------------------------------
(***************************************************************************)
(* Theorems about the databases of the site.                               *)
(*                                                                         *)
(* Projects, for any number of requests, any limits and any loads: what is *)
(* listed is stored, and the limit on projects and the quota are missed by *)
(* no more than the requests that raced.                                   *)
(*                                                                         *)
(* Site, for any columns, fixes, indexes and seeds: a start finds what it  *)
(* needs and ends with the schema whole, wherever earlier starts crashed;  *)
(* and what has ended was announced.                                       *)
(*                                                                         *)
(* ApiKeys, for any number of requests, any limits and any window: the     *)
(* limits of a key and of an address are missed by no more than the bound. *)
(*                                                                         *)
(* PollPages, for any polls, accounts and sizes of a page: an answer is    *)
(* exact when nothing changes, and true when something does.               *)
(***************************************************************************)
EXTENDS Projects, ApiKeys, Site, PollPages, TLAPS, FiniteSetTheorems, SequenceTheorems,
        WellFoundedInduction, NaturalsInduction

-----------------------------------------------------------------------------
(***************************************************************************)
(* Projects.                                                               *)
(***************************************************************************)
Ops == {"idle", "create", "delete", "upload", "replace", "delfile"}
Steps == {"none", "insert", "index", "mkdir", "metadata", "find", "rmdir", "files",
          "project", "quota", "move", "store", "unlink", "row"}
PathType == [dir: Nat, name: Nat]
RowType == [project: Nat, size: Nat, path: PathType]
CallType == [op: Ops, step: Steps, id: Nat, dir: Nat, size: Nat, path: PathType,
             row: RowType]

(* It has stored a file that no row points at yet.                         *)
Storing(r) == \/ r.op = "upload" /\ r.step = "row"
              \/ r.op = "replace" /\ r.step \in {"unlink", "row"}

(* It goes by a row that it has read.                                      *)
Reading(r) == r.op \in {"replace", "delfile"}

(* It has removed the file of row f, and not yet changed the row.          *)
Between(r, f) == Reading(r) /\ r.step = "row" /\ r.id = f

Types ==
  /\ load \in Loads /\ stored \in Nat
  /\ call \in [Requests -> CallType]
  /\ \A f \in DOMAIN files : files[f] \in RowType /\ files[f].size > 0
  /\ \A a \in DOMAIN disk : disk[a] \in Nat \ {0}
  /\ lost \subseteq DOMAIN files
  /\ \A p \in Requests : call[p].op \in {"upload", "replace"} => call[p].size > 0

(* Every name in use has been drawn.                                       *)
Drawn(n) == n \in 0 .. stored

NamesDrawn ==
  /\ \A a \in DOMAIN disk : Drawn(a.name)
  /\ \A f \in DOMAIN files : Drawn(f) /\ Drawn(files[f].path.name)
  /\ \A p \in Requests : /\ Storing(call[p]) => Drawn(call[p].path.name)
                         /\ Reading(call[p]) => Drawn(call[p].row.path.name) /\ Drawn(call[p].id)

(* A name is one row's, or one request's that has not made it a row's yet. *)
OneRow ==
  \A f, g \in DOMAIN files : files[f].path.name = files[g].path.name => f = g

OneHolder ==
  \A p \in Requests : Storing(call[p]) =>
    /\ call[p].path.name \notin DOMAIN files
    /\ \A f \in DOMAIN files : files[f].path.name # call[p].path.name
    /\ \A q \in Requests : q # p /\ Storing(call[q]) => call[q].path.name # call[p].path.name
    /\ \A q \in Requests : Reading(call[q]) =>
         call[q].row.path.name # call[p].path.name /\ call[q].id # call[p].path.name

(* A path that was read off a row is that row's or nobody's any more.      *)
RowRead ==
  \A q \in Requests : Reading(call[q]) =>
    \A f \in DOMAIN files : files[f].path.name = call[q].row.path.name => f = call[q].id

(* A replaced file stays in its directory, and what takes the file that is *)
(* put beside it takes the file, too.                                      *)
Beside ==
  \A q \in Requests : Reading(call[q]) /\ call[q].id \in DOMAIN files =>
    /\ files[call[q].id].path.dir = call[q].row.path.dir
    /\ Storing(call[q]) =>
         /\ call[q].path.dir = call[q].row.path.dir
         /\ call[q].path \notin DOMAIN disk => call[q].id \in lost

(* What was stored has the size of the upload.                             *)
StoredWhole ==
  \A p \in Requests : Storing(call[p]) /\ call[p].path \in DOMAIN disk =>
    disk[call[p].path] = call[p].size

(* ListedIsStored, unfolded.                                               *)
RowsTrue ==
  \A f \in DOMAIN files : files[f].path \in DOMAIN disk =>
    disk[files[f].path] = files[f].size

RowsStored ==
  \A f \in DOMAIN files : files[f].path \notin DOMAIN disk =>
    f \in lost \/ \E p \in Requests : Between(call[p], f)

(* What holds of files, rows and requests.                                 *)
PInv == /\ Types /\ NamesDrawn /\ OneRow /\ OneHolder /\ RowRead /\ Beside
        /\ StoredWhole /\ RowsTrue /\ RowsStored

(* It holds at the start.                                                  *)
LEMMA PInvInit == Init => PInv
<1> SUFFICES ASSUME Init PROVE PInv
  OBVIOUS
<1>1. /\ DOMAIN files = {} /\ DOMAIN disk = {} /\ lost = {} /\ stored = 0 /\ load \in Loads
      /\ call = [p \in Requests |-> Idle]
  BY DEF Init
<1>2. Idle \in CallType /\ Idle.op = "idle"
  BY DEF Idle, CallType, NoPath, NoRow, PathType, RowType, Ops, Steps
<1>3. \A p \in Requests : call[p].op = "idle"
  BY <1>1, <1>2
<1>4. \A p \in Requests : ~Storing(call[p]) /\ ~Reading(call[p])
  BY <1>3 DEF Storing, Reading
<1>5. Types
  BY <1>1, <1>2, <1>3 DEF Types
<1>6. NamesDrawn /\ OneRow /\ OneHolder /\ RowRead /\ Beside /\ StoredWhole /\ RowsTrue /\ RowsStored
  BY <1>1, <1>4 DEF NamesDrawn, OneRow, OneHolder, RowRead, Beside, StoredWhole, RowsTrue, RowsStored
<1> QED
  BY <1>5, <1>6 DEF PInv

(* A step of one request that leaves rows and files alone.                 *)
LEMMA QuietKeeps ==
  ASSUME PInv, NEW p \in Requests, NEW r \in CallType, call' = [call EXCEPT ![p] = r],
         UNCHANGED <<load, files, disk, stored>>,
         lost \subseteq lost', lost' \subseteq DOMAIN files,
         ~Storing(r), r.op \in {"upload", "replace"} => r.size > 0,
         Reading(r) => \/ Reading(call[p]) /\ r.id = call[p].id /\ r.row = call[p].row
                       \/ r.id \in DOMAIN files /\ r.row = files[r.id],
         \A f \in DOMAIN files : Between(call[p], f) => f \in lost'
  PROVE  PInv'
<1>1. /\ Types /\ NamesDrawn /\ OneRow /\ OneHolder /\ RowRead /\ Beside
      /\ StoredWhole /\ RowsTrue /\ RowsStored
  BY DEF PInv
<1>2. call \in [Requests -> CallType]
  BY <1>1 DEF Types
<1>3. call'[p] = r /\ \A q \in Requests \ {p} : call'[q] = call[q]
  BY <1>2
<1>4. Types'
  BY <1>1, <1>2, <1>3 DEF Types
<1>5. \A q \in Requests : Storing(call'[q]) => q # p /\ call'[q] = call[q] /\ Storing(call[q])
  BY <1>3
<1>6. \A q \in Requests : Reading(call'[q]) =>
        \/ Reading(call[q]) /\ call'[q].id = call[q].id /\ call'[q].row = call[q].row
        \/ call'[q].id \in DOMAIN files /\ call'[q].row = files[call'[q].id]
  BY <1>3
<1>7. NamesDrawn'
  BY <1>1, <1>5, <1>6 DEF NamesDrawn, Drawn
<1>8. OneRow' /\ RowsTrue'
  BY <1>1 DEF OneRow, RowsTrue
<1>9. OneHolder'
  BY <1>1, <1>5, <1>6 DEF OneHolder
<1>10. RowRead'
  BY <1>1, <1>6 DEF RowRead, OneRow
<1>11. Beside'
  <2> SUFFICES ASSUME NEW q \in Requests, Reading(call'[q]), call'[q].id \in DOMAIN files
               PROVE  /\ files[call'[q].id].path.dir = call'[q].row.path.dir
                      /\ Storing(call'[q]) =>
                           /\ call'[q].path.dir = call'[q].row.path.dir
                           /\ call'[q].path \notin DOMAIN disk => call'[q].id \in lost'
    BY DEF Beside
  <2>1. files[call'[q].id].path.dir = call'[q].row.path.dir
    BY <1>1, <1>6 DEF Beside
  <2>2. Storing(call'[q]) => call'[q] = call[q] /\ Reading(call[q]) /\ Storing(call[q])
    BY <1>5
  <2> QED
    BY <1>1, <2>1, <2>2 DEF Beside
<1>12. StoredWhole'
  BY <1>1, <1>5 DEF StoredWhole
<1>13. RowsStored'
  BY <1>1, <1>3 DEF RowsStored
<1> QED
  BY <1>4, <1>7, <1>8, <1>9, <1>10, <1>11, <1>12, <1>13 DEF PInv

(* A file goes to a name that no one has.                                  *)
LEMMA MoveKeeps ==
  ASSUME PInv, NEW p \in Requests, NEW r \in CallType, call' = [call EXCEPT ![p] = r],
         NEW d \in Nat, r.path = [dir |-> d, name |-> stored'], stored' = stored + 1,
         disk' = With(disk, r.path, r.size), UNCHANGED <<load, files, lost>>,
         Storing(r), r.size > 0, r.id = call[p].id, r.row = call[p].row,
         Reading(r) => Reading(call[p]) /\ d = r.row.path.dir,
         \A f \in DOMAIN files : ~Between(call[p], f)
  PROVE  PInv'
<1>1. /\ Types /\ NamesDrawn /\ OneRow /\ OneHolder /\ RowRead /\ Beside
      /\ StoredWhole /\ RowsTrue /\ RowsStored
  BY DEF PInv
<1>2. call \in [Requests -> CallType] /\ stored \in Nat /\ r.size \in Nat \ {0}
  BY <1>1 DEF Types, CallType
<1>3. call'[p] = r /\ \A q \in Requests \ {p} : call'[q] = call[q]
  BY <1>2
<1>4. /\ DOMAIN disk' = DOMAIN disk \cup {r.path}
      /\ \A a \in DOMAIN disk' : disk'[a] = IF a = r.path THEN r.size ELSE disk[a]
  BY DEF With
<1>5. r.path.name = stored + 1
  OBVIOUS
<1>6. Types'
  BY <1>1, <1>2, <1>3, <1>4 DEF Types
<1>7. \A n \in 0 .. stored : n \in 0 .. stored' /\ n # r.path.name
  BY <1>2, <1>5
<1>8. r.path.name \in 0 .. stored'
  BY <1>2, <1>5
<1>9. NamesDrawn'
  BY <1>1, <1>3, <1>4, <1>7, <1>8 DEF NamesDrawn, Drawn
<1>10. OneRow'
  BY <1>1 DEF OneRow
<1>11. \A q \in Requests : Reading(call'[q]) =>
         Reading(call[q]) /\ call'[q].id = call[q].id /\ call'[q].row = call[q].row
  BY <1>3
<1>12. /\ \A f \in DOMAIN files : f # r.path.name /\ files[f].path.name # r.path.name
       /\ \A q \in Requests : /\ Storing(call[q]) => call[q].path.name # r.path.name
                              /\ Reading(call[q]) => /\ call[q].row.path.name # r.path.name
                                                     /\ call[q].id # r.path.name
  BY <1>1, <1>7 DEF NamesDrawn, Drawn
<1>13. OneHolder'
  <2> SUFFICES ASSUME NEW h \in Requests, Storing(call'[h])
               PROVE  /\ call'[h].path.name \notin DOMAIN files
                      /\ \A f \in DOMAIN files : files[f].path.name # call'[h].path.name
                      /\ \A q \in Requests : q # h /\ Storing(call'[q]) =>
                           call'[q].path.name # call'[h].path.name
                      /\ \A q \in Requests : Reading(call'[q]) =>
                           /\ call'[q].row.path.name # call'[h].path.name
                           /\ call'[q].id # call'[h].path.name
    BY DEF OneHolder
  <2>1. CASE h = p
    BY <1>3, <1>11, <1>12, <2>1
  <2>2. CASE h # p
    <3>1. call'[h] = call[h] /\ Storing(call[h])
      BY <1>3, <2>2
    <3>2. \A q \in Requests : q # h /\ Storing(call'[q]) =>
            call'[q].path.name # call[h].path.name
      BY <1>1, <1>3, <1>12, <3>1 DEF OneHolder
    <3> QED
      BY <1>1, <1>11, <3>1, <3>2 DEF OneHolder
  <2> QED
    BY <2>1, <2>2
<1>14. RowRead'
  BY <1>1, <1>11 DEF RowRead
<1>15. Beside'
  <2> SUFFICES ASSUME NEW q \in Requests, Reading(call'[q]), call'[q].id \in DOMAIN files
               PROVE  /\ files[call'[q].id].path.dir = call'[q].row.path.dir
                      /\ Storing(call'[q]) =>
                           /\ call'[q].path.dir = call'[q].row.path.dir
                           /\ call'[q].path \notin DOMAIN disk' => call'[q].id \in lost
    BY DEF Beside
  <2>1. files[call'[q].id].path.dir = call'[q].row.path.dir
    BY <1>1, <1>11 DEF Beside
  <2>2. CASE q = p
    BY <1>3, <1>4, <2>1, <2>2
  <2>3. CASE q # p
    BY <1>1, <1>3, <1>4, <2>1, <2>3 DEF Beside
  <2> QED
    BY <2>2, <2>3
<1>16. StoredWhole'
  BY <1>1, <1>3, <1>4, <1>12 DEF StoredWhole
<1>17. RowsTrue' /\ RowsStored'
  <2>1. \A f \in DOMAIN files : /\ files[f].path \in DOMAIN disk' <=> files[f].path \in DOMAIN disk
                                /\ files[f].path \in DOMAIN disk => disk'[files[f].path] = disk[files[f].path]
    BY <1>4, <1>12
  <2>2. RowsTrue'
    BY <1>1, <2>1 DEF RowsTrue
  <2>3. \A f \in DOMAIN files : (\E q \in Requests : Between(call[q], f)) =>
          \E q \in Requests : Between(call'[q], f)
    BY <1>3
  <2> QED
    BY <1>1, <2>1, <2>2, <2>3 DEF RowsStored
<1> QED
  BY <1>6, <1>9, <1>10, <1>13, <1>14, <1>15, <1>16, <1>17 DEF PInv

(* Rows go, and what a request was about to do to one of them.             *)
LEMMA RowsGo ==
  ASSUME PInv, NEW p \in Requests, NEW r \in CallType, call' = [call EXCEPT ![p] = r],
         NEW D, files' = Without(files, D), lost' = lost \cap DOMAIN files',
         UNCHANGED <<load, disk, stored>>,
         ~Storing(r), ~Reading(r), r.op # "upload",
         \A f \in DOMAIN files : Between(call[p], f) => f \in D
  PROVE  PInv'
<1>1. /\ Types /\ NamesDrawn /\ OneRow /\ OneHolder /\ RowRead /\ Beside
      /\ StoredWhole /\ RowsTrue /\ RowsStored
  BY DEF PInv
<1>2. call \in [Requests -> CallType] /\ r.op # "replace"
  BY <1>1 DEF Types, Reading
<1>3. call'[p] = r /\ \A q \in Requests \ {p} : call'[q] = call[q]
  BY <1>2
<1>4. /\ DOMAIN files' = DOMAIN files \ D
      /\ \A f \in DOMAIN files' : f \in DOMAIN files /\ f \notin D /\ files'[f] = files[f]
  BY DEF Without
<1>5. Types'
  BY <1>1, <1>2, <1>3, <1>4 DEF Types
<1>6. \A q \in Requests : Storing(call'[q]) \/ Reading(call'[q]) => q # p /\ call'[q] = call[q]
  BY <1>3
<1>7. NamesDrawn' /\ OneRow' /\ RowRead' /\ StoredWhole' /\ RowsTrue'
  BY <1>1, <1>4, <1>6 DEF NamesDrawn, Drawn, OneRow, RowRead, StoredWhole, RowsTrue
<1>8. OneHolder'
  BY <1>1, <1>4, <1>6 DEF OneHolder
<1>9. Beside'
  BY <1>1, <1>4, <1>6 DEF Beside
<1>10. RowsStored'
  BY <1>1, <1>3, <1>4 DEF RowsStored
<1> QED
  BY <1>5, <1>7, <1>8, <1>9, <1>10 DEF PInv

(* A directory goes with the files in it, and their rows are lost.         *)
LEMMA DirectoryGoes ==
  ASSUME PInv, NEW p \in Requests, NEW r \in CallType, call' = [call EXCEPT ![p] = r],
         NEW d, disk' = Without(disk, Within(d)),
         lost' = lost \cup {f \in DOMAIN files : files[f].path.dir = d},
         UNCHANGED <<load, files, stored>>,
         ~Storing(r), ~Reading(r), r.op # "upload", ~Reading(call[p])
  PROVE  PInv'
<1>1. /\ Types /\ NamesDrawn /\ OneRow /\ OneHolder /\ RowRead /\ Beside
      /\ StoredWhole /\ RowsTrue /\ RowsStored
  BY DEF PInv
<1>2. call \in [Requests -> CallType] /\ r.op # "replace"
  BY <1>1 DEF Types, Reading
<1>3. call'[p] = r /\ \A q \in Requests \ {p} : call'[q] = call[q]
  BY <1>2
<1>4. /\ DOMAIN disk' = {a \in DOMAIN disk : a.dir # d}
      /\ \A a \in DOMAIN disk' : a \in DOMAIN disk /\ disk'[a] = disk[a]
  BY DEF Without, Within
<1>5. Types'
  BY <1>1, <1>2, <1>3, <1>4 DEF Types
<1>6. \A q \in Requests : Storing(call'[q]) \/ Reading(call'[q]) => q # p /\ call'[q] = call[q]
  BY <1>3
<1>7. NamesDrawn' /\ OneRow' /\ RowRead' /\ StoredWhole' /\ RowsTrue'
  BY <1>1, <1>4, <1>6 DEF NamesDrawn, Drawn, OneRow, RowRead, StoredWhole, RowsTrue
<1>8. OneHolder'
  BY <1>1, <1>6 DEF OneHolder
<1>9. Beside'
  BY <1>1, <1>4, <1>6 DEF Beside
<1>10. RowsStored'
  <2> SUFFICES ASSUME NEW f \in DOMAIN files, files[f].path \notin DOMAIN disk', f \notin lost'
               PROVE  \E q \in Requests : Between(call'[q], f)
    BY DEF RowsStored
  <2>1. files[f].path \notin DOMAIN disk /\ f \notin lost
    BY <1>4
  <2>2. PICK q \in Requests : Between(call[q], f)
    BY <1>1, <2>1 DEF RowsStored
  <2> QED
    BY <1>3, <2>2 DEF Between
<1> QED
  BY <1>5, <1>7, <1>8, <1>9, <1>10 DEF PInv

(* The file of a row that was read goes, before the row does or changes.   *)
LEMMA FileGoes ==
  ASSUME PInv, NEW p \in Requests, NEW r \in CallType, call' = [call EXCEPT ![p] = r],
         Reading(call[p]), Reading(r), r.step = "row",
         r.op = call[p].op, r.id = call[p].id, r.row = call[p].row,
         r.path = call[p].path, r.size = call[p].size,
         Storing(r) <=> Storing(call[p]),
         disk' = Without(disk, {call[p].row.path}),
         UNCHANGED <<load, files, lost, stored>>
  PROVE  PInv'
<1>1. /\ Types /\ NamesDrawn /\ OneRow /\ OneHolder /\ RowRead /\ Beside
      /\ StoredWhole /\ RowsTrue /\ RowsStored
  BY DEF PInv
<1>2. call \in [Requests -> CallType]
  BY <1>1 DEF Types
<1>3. call'[p] = r /\ \A q \in Requests \ {p} : call'[q] = call[q]
  BY <1>2
<1>4. /\ DOMAIN disk' = DOMAIN disk \ {call[p].row.path}
      /\ \A a \in DOMAIN disk' : a \in DOMAIN disk /\ disk'[a] = disk[a]
  BY DEF Without
<1>5. Types'
  BY <1>1, <1>2, <1>3, <1>4 DEF Types
<1>6. \A q \in Requests : /\ Storing(call'[q]) <=> Storing(call[q])
                          /\ Reading(call'[q]) <=> Reading(call[q])
                          /\ call'[q].id = call[q].id /\ call'[q].row = call[q].row
                          /\ call'[q].path = call[q].path /\ call'[q].size = call[q].size
  BY <1>3
<1>7. NamesDrawn' /\ OneRow' /\ RowRead' /\ StoredWhole' /\ RowsTrue'
  <2>1. NamesDrawn'
    BY <1>1, <1>4, <1>6 DEF NamesDrawn, Drawn
  <2>2. OneRow' /\ RowRead'
    BY <1>1, <1>6 DEF OneRow, RowRead
  <2>3. RowsTrue'
    BY <1>1, <1>4 DEF RowsTrue
  <2>4. StoredWhole'
    <3> SUFFICES ASSUME NEW q \in Requests, Storing(call'[q]), call'[q].path \in DOMAIN disk'
                 PROVE  disk'[call'[q].path] = call'[q].size
      BY DEF StoredWhole
    <3>1. Storing(call[q]) /\ call[q].path \in DOMAIN disk /\ disk'[call[q].path] = disk[call[q].path]
      BY <1>4, <1>6
    <3> QED
      BY <1>1, <1>6, <3>1 DEF StoredWhole
  <2> QED
    BY <2>1, <2>2, <2>3, <2>4
<1>8. OneHolder'
  BY <1>1, <1>6 DEF OneHolder
<1>9. Beside'
  <2>1. \A q \in Requests : Storing(call[q]) => call[q].path # call[p].row.path
    BY <1>1 DEF OneHolder
  <2> QED
    BY <1>1, <1>4, <1>6, <2>1 DEF Beside
<1>10. RowsStored'
  <2> SUFFICES ASSUME NEW f \in DOMAIN files, files[f].path \notin DOMAIN disk', f \notin lost
               PROVE  \E q \in Requests : Between(call'[q], f)
    BY DEF RowsStored
  <2>1. CASE files[f].path = call[p].row.path
    <3>1. f = call[p].id
      BY <1>1, <2>1 DEF RowRead
    <3> QED
      BY <1>3, <3>1 DEF Between
  <2>2. CASE files[f].path # call[p].row.path
    <3>1. PICK q \in Requests : Between(call[q], f)
      BY <1>1, <1>4, <2>2 DEF RowsStored
    <3> QED
      BY <1>3, <3>1 DEF Between
  <2> QED
    BY <2>1, <2>2
<1> QED
  BY <1>5, <1>7, <1>8, <1>9, <1>10 DEF PInv

(* A row for a stored file.                                                *)
LEMMA RowComes ==
  ASSUME PInv, NEW p \in Requests, NEW r \in CallType, call' = [call EXCEPT ![p] = r],
         call[p].op = "upload", call[p].step = "row",
         NEW row \in RowType, row.path = call[p].path, row.size = call[p].size,
         files' = With(files, call[p].path.name, row),
         lost' = (IF call[p].path \in DOMAIN disk
                    THEN lost ELSE lost \cup {call[p].path.name}),
         UNCHANGED <<load, disk, stored>>,
         ~Storing(r), ~Reading(r), r.op # "upload"
  PROVE  PInv'
<1>1. /\ Types /\ NamesDrawn /\ OneRow /\ OneHolder /\ RowRead /\ Beside
      /\ StoredWhole /\ RowsTrue /\ RowsStored
  BY DEF PInv
<1>2. call \in [Requests -> CallType] /\ r.op # "replace"
  BY <1>1 DEF Types, Reading
<1>3. call'[p] = r /\ \A q \in Requests \ {p} : call'[q] = call[q]
  BY <1>2
<1> DEFINE n == call[p].path.name
<1>4. /\ DOMAIN files' = DOMAIN files \cup {n}
      /\ \A f \in DOMAIN files' : files'[f] = IF f = n THEN row ELSE files[f]
  BY DEF With
<1>5. Storing(call[p]) /\ ~Reading(call[p]) /\ row.size > 0 /\ row.path.name = n
  BY <1>1 DEF Types, Storing, Reading
<1>6. /\ n \notin DOMAIN files /\ \A f \in DOMAIN files : files[f].path.name # n
      /\ \A q \in Requests : q # p /\ Storing(call[q]) => call[q].path.name # n
      /\ \A q \in Requests : Reading(call[q]) =>
           call[q].row.path.name # n /\ call[q].id # n
      /\ Drawn(n)
  BY <1>1, <1>5 DEF OneHolder, NamesDrawn
<1> HIDE DEF n
<1>7. /\ files'[n] = row
      /\ \A f \in DOMAIN files : f # n /\ f \in DOMAIN files' /\ files'[f] = files[f]
      /\ \A f \in DOMAIN files' : f = n \/ f \in DOMAIN files
  BY <1>4, <1>6
<1>8. Types'
  <2>1. \A f \in DOMAIN files' : files'[f] \in RowType /\ files'[f].size > 0
    BY <1>1, <1>4, <1>5 DEF Types
  <2>2. lost' \subseteq DOMAIN files'
    BY <1>1, <1>4 DEF Types, n
  <2> QED
    BY <1>1, <1>2, <1>3, <2>1, <2>2 DEF Types
<1>9. \A q \in Requests : Storing(call'[q]) \/ Reading(call'[q]) => q # p /\ call'[q] = call[q]
  BY <1>3
<1>10. NamesDrawn'
  BY <1>1, <1>5, <1>6, <1>7, <1>9 DEF NamesDrawn, Drawn
<1>11. OneRow'
  BY <1>1, <1>5, <1>6, <1>7 DEF OneRow
<1>12. RowRead'
  BY <1>1, <1>5, <1>6, <1>7, <1>9 DEF RowRead
<1>13. StoredWhole'
  BY <1>1, <1>9 DEF StoredWhole
<1>14. RowsTrue'
  <2>1. row.path \in DOMAIN disk => disk[row.path] = row.size
    BY <1>1, <1>5 DEF StoredWhole
  <2> QED
    BY <1>1, <1>7, <2>1 DEF RowsTrue
<1>15. OneHolder'
  BY <1>1, <1>5, <1>6, <1>7, <1>9 DEF OneHolder
<1>16. lost \subseteq lost' /\ (row.path \notin DOMAIN disk => n \in lost')
  BY DEF n
<1>17. Beside'
  <2> SUFFICES ASSUME NEW q \in Requests, Reading(call'[q]), call'[q].id \in DOMAIN files'
               PROVE  /\ files'[call'[q].id].path.dir = call'[q].row.path.dir
                      /\ Storing(call'[q]) =>
                           /\ call'[q].path.dir = call'[q].row.path.dir
                           /\ call'[q].path \notin DOMAIN disk => call'[q].id \in lost'
    BY DEF Beside
  <2>1. call'[q] = call[q] /\ Reading(call[q]) /\ call[q].id # n
    BY <1>6, <1>9
  <2>2. call[q].id \in DOMAIN files /\ files'[call[q].id] = files[call[q].id]
    BY <1>7, <2>1
  <2> QED
    BY <1>1, <1>16, <2>1, <2>2 DEF Beside
<1>18. RowsStored'
  <2> SUFFICES ASSUME NEW f \in DOMAIN files', files'[f].path \notin DOMAIN disk, f \notin lost'
               PROVE  \E q \in Requests : Between(call'[q], f)
    BY DEF RowsStored
  <2>1. f # n
    BY <1>7, <1>16
  <2>2. f \in DOMAIN files /\ files'[f] = files[f] /\ f \notin lost
    BY <1>7, <1>16, <2>1
  <2>3. PICK q \in Requests : Between(call[q], f)
    BY <1>1, <2>2 DEF RowsStored
  <2> QED
    BY <1>3, <1>5, <2>3 DEF Between
<1> QED
  BY <1>8, <1>10, <1>11, <1>12, <1>13, <1>14, <1>15, <1>17, <1>18 DEF PInv

(* A row changes over to the stored file.                                  *)
LEMMA RowChanges ==
  ASSUME PInv, NEW p \in Requests, NEW r \in CallType, call' = [call EXCEPT ![p] = r],
         call[p].op = "replace", call[p].step = "row",
         UpdateFile(call[p].id, call[p].size, call[p].path),
         UNCHANGED <<load, lost, disk, stored>>,
         ~Storing(r), ~Reading(r), r.op # "upload"
  PROVE  PInv'
<1>1. /\ Types /\ NamesDrawn /\ OneRow /\ OneHolder /\ RowRead /\ Beside
      /\ StoredWhole /\ RowsTrue /\ RowsStored
  BY DEF PInv
<1>2. call \in [Requests -> CallType] /\ r.op # "replace"
  BY <1>1 DEF Types, Reading
<1>3. call'[p] = r /\ \A q \in Requests \ {p} : call'[q] = call[q]
  BY <1>2
<1> DEFINE n == call[p].path.name
           i == call[p].id
           path == call[p].path
           size == call[p].size
<1>4. Storing(call[p]) /\ Reading(call[p]) /\ size > 0 /\ size \in Nat /\ path \in PathType
  BY <1>1, <1>2 DEF Types, Storing, Reading, CallType
<1>5. /\ DOMAIN files' = DOMAIN files
      /\ \A f \in DOMAIN files : f # i => files'[f] = files[f]
      /\ i \in DOMAIN files => /\ files'[i] \in RowType
                               /\ files'[i].size = size /\ files'[i].path = path
  <2>1. CASE i \in DOMAIN files
    <3>1. files' = [files EXCEPT ![i].size = size, ![i].path = path]
      BY <2>1 DEF UpdateFile
    <3>2. files[i] \in RowType
      BY <1>1, <2>1 DEF Types
    <3> HIDE DEF i, size, path
    <3>3. /\ DOMAIN files' = DOMAIN files
          /\ \A f \in DOMAIN files : f # i => files'[f] = files[f]
          /\ files'[i] = [files[i] EXCEPT !.size = size, !.path = path]
      BY <2>1, <3>1
    <3>4. files'[i] \in RowType /\ files'[i].size = size /\ files'[i].path = path
      BY <1>4, <3>2, <3>3 DEF RowType
    <3> QED
      BY <3>3, <3>4
  <2>2. CASE i \notin DOMAIN files
    BY <2>2 DEF UpdateFile
  <2> QED
    BY <2>1, <2>2
<1>6. /\ n \notin DOMAIN files /\ \A f \in DOMAIN files : files[f].path.name # n
      /\ \A q \in Requests : q # p /\ Storing(call[q]) => call[q].path.name # n
      /\ \A q \in Requests : Reading(call[q]) =>
           call[q].row.path.name # n /\ call[q].id # n
      /\ Drawn(n)
  BY <1>1, <1>4 DEF OneHolder, NamesDrawn
<1>7. path.name = n
  OBVIOUS
<1>8. /\ path \in DOMAIN disk => disk[path] = size
      /\ i \in DOMAIN files /\ path \notin DOMAIN disk => i \in lost
      /\ i \in DOMAIN files => path.dir = files[i].path.dir
  BY <1>1, <1>4 DEF StoredWhole, Beside
<1>9. \A f : Between(call[p], f) => f = i
  BY DEF Between
<1> HIDE DEF n, i, path, size
<1>10. Types'
  <2>1. \A f \in DOMAIN files' : files'[f] \in RowType /\ files'[f].size > 0
    BY <1>1, <1>4, <1>5 DEF Types
  <2> QED
    BY <1>1, <1>2, <1>3, <1>5, <2>1 DEF Types
<1>11. \A q \in Requests : Storing(call'[q]) \/ Reading(call'[q]) => q # p /\ call'[q] = call[q]
  BY <1>3
<1>12. NamesDrawn'
  BY <1>1, <1>5, <1>6, <1>7, <1>11 DEF NamesDrawn, Drawn
<1>13. OneRow'
  BY <1>1, <1>5, <1>6, <1>7 DEF OneRow
<1>14. RowRead'
  BY <1>1, <1>5, <1>6, <1>7, <1>11 DEF RowRead
<1>15. StoredWhole'
  BY <1>1, <1>11 DEF StoredWhole
<1>16. RowsTrue'
  BY <1>1, <1>5, <1>8 DEF RowsTrue
<1>17. OneHolder'
  BY <1>1, <1>5, <1>6, <1>7, <1>11 DEF OneHolder
<1>18. Beside'
  <2> SUFFICES ASSUME NEW q \in Requests, Reading(call'[q]), call'[q].id \in DOMAIN files
               PROVE  /\ files'[call'[q].id].path.dir = call'[q].row.path.dir
                      /\ Storing(call'[q]) =>
                           /\ call'[q].path.dir = call'[q].row.path.dir
                           /\ call'[q].path \notin DOMAIN disk => call'[q].id \in lost
    BY <1>5 DEF Beside
  <2>1. call'[q] = call[q] /\ Reading(call[q])
    BY <1>11
  <2>2. files'[call[q].id].path.dir = files[call[q].id].path.dir
    BY <1>5, <1>8, <2>1
  <2> QED
    BY <1>1, <2>1, <2>2 DEF Beside
<1>19. RowsStored'
  <2> SUFFICES ASSUME NEW f \in DOMAIN files, files'[f].path \notin DOMAIN disk, f \notin lost
               PROVE  \E q \in Requests : Between(call'[q], f)
    BY <1>5 DEF RowsStored
  <2>1. f # i
    BY <1>5, <1>8
  <2>2. PICK q \in Requests : Between(call[q], f)
    BY <1>1, <1>5, <2>1 DEF RowsStored
  <2> QED
    BY <1>3, <1>9, <2>1, <2>2
<1> QED
  BY <1>10, <1>12, <1>13, <1>14, <1>15, <1>16, <1>17, <1>18, <1>19 DEF PInv

(* Numbers of projects and directories.                                    *)
(* Ids and directories are numbers, and the directories are not infinite.  *)
Numbers == /\ made \in Nat /\ projects \subseteq Nat
           /\ dirs = [d \in DOMAIN dirs |-> dirs[d]]
           /\ \E n \in Nat : DOMAIN dirs \subseteq 0 .. n

(* The inductive invariant.                                                *)
IInv == PInv /\ Numbers

(* A request that has not begun.                                           *)
LEMMA IdleIsCall == Idle \in CallType /\ Idle.op = "idle" /\ Idle.step = "none"
BY DEF Idle, CallType, NoPath, NoRow, PathType, RowType, Ops, Steps

(* Every load has sizes that are numbers above zero.                       *)
LEMMA LoadType ==
  ASSUME PInv
  PROVE  load.sizes \subseteq Nat \ {0}
<1>1. load \in Loads /\ MaxBytes \in Nat
  BY ProjectsAssumption DEF PInv, Types
<1>2. load.sizes \subseteq 1 .. MaxBytes
  BY <1>1, ProjectsAssumption
<1> QED
  BY <1>1, <1>2

(* A request of another kind than the ones that read rows goes on.         *)
LEMMA OthersKeep ==
  ASSUME PInv, NEW p \in Requests, NEW r \in CallType, call' = [call EXCEPT ![p] = r],
         UNCHANGED <<load, files, disk, stored, lost>>, ~Storing(r), ~Reading(r),
         r.op = "upload" => r.size > 0, ~Reading(call[p])
  PROVE  PInv'
<1>1. lost \subseteq DOMAIN files
  BY DEF PInv, Types
<1>2. \A f \in DOMAIN files : ~Between(call[p], f)
  BY DEF Between
<1>3. r.op # "replace"
  BY DEF Reading
<1> QED
  BY <1>1, <1>2, <1>3, QuietKeeps

(* The invariant, handler by handler: creating a project, ...              *)
LEMMA CreateKeeps ==
  ASSUME IInv, NextIndex \in Nat, NEW p \in Requests, Create(p), load' = load
  PROVE  PInv'
<1>1. /\ call[p] \in CallType /\ made \in Nat /\ UNCHANGED <<load, files, disk, stored, lost>>
      /\ PInv
  BY DEF IInv, PInv, Types, Numbers, Create
<1>2. CASE MayCreate /\ Starts(p, "create", "insert", 0)
  <2> DEFINE r == [Idle EXCEPT !.op = "create", !.step = "insert", !.id = 0]
  <2>1. call[p] = Idle /\ call' = [call EXCEPT ![p] = r]
    BY <1>2 DEF Starts, Becomes
  <2>2. r \in CallType /\ r.op = "create" /\ call[p].op = "idle"
    BY <2>1, IdleIsCall DEF CallType, Ops, Steps
  <2> HIDE DEF r
  <2> QED
    BY <1>1, <2>1, <2>2, OthersKeep DEF Storing, Reading
<1>3. CASE At(p, "create", "insert") /\ made' = made + 1
           /\ Becomes(p, [call[p] EXCEPT !.step = "index", !.id = made'])
  <2> DEFINE r == [call[p] EXCEPT !.step = "index", !.id = made']
  <2>1. call' = [call EXCEPT ![p] = r]
    BY <1>3 DEF Becomes
  <2>2. made' \in Nat
    BY <1>1, <1>3
  <2>3. r \in CallType /\ r.op = "create" /\ call[p].op = "create"
    BY <1>1, <1>3, <2>2 DEF CallType, Ops, Steps, At
  <2> HIDE DEF r
  <2> QED
    BY <1>1, <2>1, <2>3, OthersKeep DEF Storing, Reading
<1>4. CASE At(p, "create", "index")
           /\ Becomes(p, [call[p] EXCEPT !.step = "mkdir", !.dir = NextIndex])
  <2> DEFINE r == [call[p] EXCEPT !.step = "mkdir", !.dir = NextIndex]
  <2>1. call' = [call EXCEPT ![p] = r]
    BY <1>4 DEF Becomes
  <2>2. r \in CallType /\ r.op = "create" /\ call[p].op = "create"
    BY <1>1, <1>4 DEF CallType, Ops, Steps, At
  <2> HIDE DEF r
  <2> QED
    BY <1>1, <2>1, <2>2, OthersKeep DEF Storing, Reading
<1>5. CASE At(p, "create", "mkdir") /\ Goes(p, "metadata")
  <2> DEFINE r == [call[p] EXCEPT !.step = "metadata"]
  <2>1. call' = [call EXCEPT ![p] = r]
    BY <1>5 DEF Becomes, Goes
  <2>2. r \in CallType /\ r.op = "create" /\ call[p].op = "create"
    BY <1>1, <1>5 DEF CallType, Ops, Steps, At
  <2> HIDE DEF r
  <2> QED
    BY <1>1, <2>1, <2>2, OthersKeep DEF Storing, Reading
<1>6. CASE At(p, "create", "metadata") /\ Ends(p)
  <2>1. call' = [call EXCEPT ![p] = Idle] /\ call[p].op = "create"
    BY <1>6 DEF Becomes, Ends, At
  <2> QED
    BY <1>1, <2>1, IdleIsCall, OthersKeep DEF Storing, Reading
<1> QED
  BY <1>2, <1>3, <1>4, <1>5, <1>6 DEF Create

(* ... deleting one, ...                                                   *)
LEMMA DeleteKeeps ==
  ASSUME IInv, NEW p \in Requests, DeleteProject(p), load' = load
  PROVE  PInv'
<1>1. /\ call[p] \in CallType /\ projects \subseteq Nat /\ UNCHANGED <<load, stored>>
      /\ PInv /\ lost \subseteq DOMAIN files
  BY Zenon DEF IInv, PInv, Types, Numbers, DeleteProject
<1>2. CASE /\ \E i \in projects : Starts(p, "delete", "find", i)
           /\ UNCHANGED <<projects, files, dirs, disk, lost>>
  <2>1. PICK i \in projects : Starts(p, "delete", "find", i)
    BY <1>2
  <2> DEFINE r == [Idle EXCEPT !.op = "delete", !.step = "find", !.id = i]
  <2>2. call[p] = Idle /\ call' = [call EXCEPT ![p] = r]
    BY <2>1 DEF Starts, Becomes
  <2>3. r \in CallType /\ r.op = "delete" /\ call[p].op = "idle"
    BY <1>1, <2>2, IdleIsCall DEF CallType, Ops, Steps
  <2> HIDE DEF r
  <2> QED
    BY <1>1, <1>2, <2>2, <2>3, OthersKeep DEF Storing, Reading
<1>3. CASE /\ At(p, "delete", "find") /\ Goes(p, "files")
           /\ UNCHANGED <<projects, files, dirs, disk, lost>>
  <2> DEFINE r == [call[p] EXCEPT !.step = "files"]
  <2>1. call' = [call EXCEPT ![p] = r]
    BY <1>3 DEF Becomes, Goes
  <2>2. r \in CallType /\ r.op = "delete" /\ call[p].op = "delete"
    BY <1>1, <1>3 DEF CallType, Ops, Steps, At
  <2> HIDE DEF r
  <2> QED
    BY <1>1, <1>3, <2>1, <2>2, OthersKeep DEF Storing, Reading
<1>4. CASE /\ At(p, "delete", "find")
           /\ \E d \in DirsOf(call[p].id) :
                Becomes(p, [call[p] EXCEPT !.step = "rmdir", !.dir = d])
           /\ UNCHANGED <<projects, files, dirs, disk, lost>>
  <2>1. PICK d \in DirsOf(call[p].id) : Becomes(p, [call[p] EXCEPT !.step = "rmdir", !.dir = d])
    BY Zenon, <1>4
  <2>2. d \in Nat
    BY DEF DirsOf, IInv, Numbers
  <2> DEFINE r == [call[p] EXCEPT !.step = "rmdir", !.dir = d]
  <2>3. call' = [call EXCEPT ![p] = r]
    BY <2>1 DEF Becomes
  <2>4. r \in CallType /\ r.op = "delete" /\ call[p].op = "delete"
    BY <1>1, <1>4, <2>2 DEF CallType, Ops, Steps, At
  <2> HIDE DEF r
  <2> QED
    BY <1>1, <1>4, <2>3, <2>4, OthersKeep DEF Storing, Reading
<1>5. CASE /\ At(p, "delete", "rmdir")
           /\ disk' = Without(disk, Within(call[p].dir))
           /\ lost' = lost \cup {f \in DOMAIN files : files[f].path.dir = call[p].dir}
           /\ Goes(p, "files")
           /\ UNCHANGED <<projects, files>>
  <2> DEFINE r == [call[p] EXCEPT !.step = "files"]
             d == call[p].dir
  <2>1. call' = [call EXCEPT ![p] = r]
    BY <1>5 DEF Becomes, Goes
  <2>2. r \in CallType /\ r.op = "delete" /\ call[p].op = "delete"
    BY <1>1, <1>5 DEF CallType, Ops, Steps, At
  <2>3. /\ disk' = Without(disk, Within(d))
        /\ lost' = lost \cup {f \in DOMAIN files : files[f].path.dir = d}
    BY <1>5
  <2>4. ~Storing(r) /\ ~Reading(r) /\ r.op # "upload" /\ ~Reading(call[p])
    BY <2>2 DEF Storing, Reading
  <2> HIDE DEF r, d
  <2> QED
    BY <1>1, <1>5, <2>1, <2>2, <2>3, <2>4, DirectoryGoes
<1>6. CASE /\ At(p, "delete", "files")
           /\ files' = Without(files, FilesOf(call[p].id))
           /\ Goes(p, "project")
           /\ lost' = lost \cap DOMAIN files'
           /\ UNCHANGED <<projects, dirs, disk>>
  <2> DEFINE r == [call[p] EXCEPT !.step = "project"]
             D == FilesOf(call[p].id)
  <2>1. call' = [call EXCEPT ![p] = r]
    BY <1>6 DEF Becomes, Goes
  <2>2. r \in CallType /\ r.op = "delete" /\ call[p].op = "delete"
    BY <1>1, <1>6 DEF CallType, Ops, Steps, At
  <2>3. files' = Without(files, D)
    BY <1>6
  <2>4. ~Storing(r) /\ ~Reading(r) /\ r.op # "upload" /\ \A f \in DOMAIN files : ~Between(call[p], f)
    BY <2>2 DEF Storing, Reading, Between
  <2> HIDE DEF r, D
  <2> QED
    BY <1>1, <1>6, <2>1, <2>2, <2>3, <2>4, RowsGo
<1>7. CASE /\ At(p, "delete", "project")
           /\ DropProject(call[p].id)
           /\ Ends(p)
           /\ lost' = lost \cap DOMAIN files'
           /\ UNCHANGED <<dirs, disk>>
  <2> DEFINE D == FilesOf(call[p].id)
  <2>1. call' = [call EXCEPT ![p] = Idle] /\ call[p].op = "delete"
    BY <1>7 DEF Becomes, Ends, At
  <2>2. files' = Without(files, D)
    BY <1>7 DEF DropProject
  <2>3. ~Storing(Idle) /\ ~Reading(Idle) /\ Idle.op # "upload"
        /\ \A f \in DOMAIN files : ~Between(call[p], f)
    BY <2>1, IdleIsCall DEF Storing, Reading, Between
  <2> HIDE DEF D
  <2> QED
    BY <1>1, <1>7, <2>1, <2>2, <2>3, IdleIsCall, RowsGo
<1> QED
  BY Zenon, <1>2, <1>3, <1>4, <1>5, <1>6, <1>7 DEF DeleteProject

(* ... uploading a file, ...                                               *)
LEMMA UploadKeeps ==
  ASSUME IInv, NEW p \in Requests, Upload(p), load' = load
  PROVE  PInv'
<1>1. /\ call[p] \in CallType /\ projects \subseteq Nat /\ load' = load
      /\ PInv /\ lost \subseteq DOMAIN files /\ stored \in Nat
  BY DEF IInv, PInv, Types, Numbers
<1>2. CASE /\ \E i \in projects : \E d \in DirsOf(i), s \in load.sizes :
                /\ call[p] = Idle
                /\ Becomes(p, [Idle EXCEPT !.op = "upload", !.step = "quota", !.id = i,
                                           !.dir = d, !.size = s])
           /\ UNCHANGED <<files, storage, lost>>
  <2>1. PICK i \in projects : \E d \in DirsOf(i), s \in load.sizes :
                /\ call[p] = Idle
                /\ Becomes(p, [Idle EXCEPT !.op = "upload", !.step = "quota", !.id = i,
                                           !.dir = d, !.size = s])
    BY Zenon, <1>2
  <2>2. PICK d \in DirsOf(i), s \in load.sizes :
                /\ call[p] = Idle
                /\ Becomes(p, [Idle EXCEPT !.op = "upload", !.step = "quota", !.id = i,
                                           !.dir = d, !.size = s])
    BY Zenon, <2>1
  <2>3. i \in Nat /\ d \in Nat /\ s \in Nat \ {0}
    BY <1>1, LoadType DEF DirsOf, IInv, Numbers
  <2> DEFINE r == [Idle EXCEPT !.op = "upload", !.step = "quota", !.id = i,
                               !.dir = d, !.size = s]
  <2>4. call' = [call EXCEPT ![p] = r]
    BY <2>2 DEF Becomes
  <2>5. r \in CallType /\ r.op = "upload" /\ r.step = "quota" /\ r.size = s /\ call[p].op = "idle"
    BY <2>2, <2>3, IdleIsCall DEF CallType, Ops, Steps
  <2> HIDE DEF r
  <2>6. ~Storing(r) /\ ~Reading(r) /\ ~Reading(call[p]) /\ r.size > 0
    BY <2>3, <2>5 DEF Storing, Reading
  <2> QED
    BY <1>1, <1>2, <2>4, <2>5, <2>6, OthersKeep DEF storage
<1>3. CASE At(p, "upload", "quota") /\ Goes(p, "move") /\ UNCHANGED <<files, storage, lost>>
  <2> DEFINE r == [call[p] EXCEPT !.step = "move"]
  <2>1. call' = [call EXCEPT ![p] = r]
    BY <1>3 DEF Becomes, Goes
  <2>2. /\ r \in CallType /\ r.op = "upload" /\ r.step = "move" /\ call[p].op = "upload"
        /\ r.size = call[p].size
    BY <1>1, <1>3 DEF CallType, Ops, Steps, At
  <2> HIDE DEF r
  <2>3. ~Storing(r) /\ ~Reading(r) /\ ~Reading(call[p]) /\ r.size > 0
    BY <1>1, <2>2 DEF Storing, Reading, PInv, Types
  <2> QED
    BY <1>1, <1>3, <2>1, <2>2, <2>3, OthersKeep DEF storage
<1>4. CASE At(p, "upload", "move") /\ MoveFile(p, call[p].dir, "row") /\ UNCHANGED <<files, lost>>
  <2> DEFINE d == call[p].dir
             path == [dir |-> d, name |-> stored']
             r == [call[p] EXCEPT !.step = "row", !.path = path]
  <2>1. /\ stored' = stored + 1 /\ call' = [call EXCEPT ![p] = r]
        /\ disk' = With(disk, path, call[p].size)
    BY <1>4 DEF Becomes, MoveFile
  <2>2. d \in Nat /\ path \in PathType
    BY <1>1, <2>1 DEF CallType, PathType
  <2> HIDE DEF path
  <2>3. /\ r \in CallType /\ r.op = "upload" /\ r.step = "row" /\ call[p].op = "upload"
        /\ r.size = call[p].size /\ r.id = call[p].id /\ r.row = call[p].row /\ r.path = path
    BY <1>1, <1>4, <2>2 DEF CallType, Ops, Steps, At
  <2> HIDE DEF r, d
  <2>4. /\ Storing(r) /\ ~Reading(r) /\ r.size > 0
        /\ \A f \in DOMAIN files : ~Between(call[p], f)
    BY <1>1, <2>3 DEF Storing, Reading, PInv, Types, Between
  <2>5. r.path = [dir |-> d, name |-> stored']
    BY <2>3 DEF path
  <2>6. disk' = With(disk, r.path, r.size)
    BY <2>1, <2>3
  <2> QED
    BY <1>1, <1>4, <2>1, <2>2, <2>3, <2>4, <2>5, <2>6, MoveKeeps
<1>5. CASE /\ At(p, "upload", "row")
           /\ files' = With(files, call[p].path.name,
                            [project |-> call[p].id, size |-> call[p].size, path |-> call[p].path])
           /\ lost' = IF call[p].path \in DOMAIN disk
                        THEN lost ELSE lost \cup {call[p].path.name}
           /\ Ends(p)
           /\ UNCHANGED storage
  <2> DEFINE row == [project |-> call[p].id, size |-> call[p].size, path |-> call[p].path]
  <2>1. row \in RowType /\ row.path = call[p].path /\ row.size = call[p].size
    BY <1>1 DEF CallType, RowType
  <2>2. call' = [call EXCEPT ![p] = Idle] /\ call[p].op = "upload" /\ call[p].step = "row"
    BY <1>5 DEF Becomes, Ends, At
  <2>3. ~Storing(Idle) /\ ~Reading(Idle) /\ Idle.op # "upload"
    BY IdleIsCall DEF Storing, Reading
  <2>4. /\ files' = With(files, call[p].path.name, row)
        /\ lost' = (IF call[p].path \in DOMAIN disk
                      THEN lost ELSE lost \cup {call[p].path.name})
        /\ UNCHANGED <<disk, stored>>
    BY <1>5 DEF storage
  <2> HIDE DEF row
  <2> QED
    BY <1>1, <2>1, <2>2, <2>3, <2>4, IdleIsCall, RowComes
<1> QED
  BY Zenon, <1>2, <1>3, <1>4, <1>5 DEF Upload

(* A row has a number as its id.                                           *)
LEMMA RowsTyped ==
  ASSUME PInv, NEW f \in DOMAIN files
  PROVE  f \in Nat /\ files[f] \in RowType
<1>1. f \in 0 .. stored /\ stored \in Nat
  BY DEF PInv, Types, NamesDrawn, Drawn
<1>2. files[f] \in RowType
  BY DEF PInv, Types
<1> QED
  BY <1>1, <1>2

(* ... replacing one, ...                                                  *)
LEMMA ReplaceKeeps ==
  ASSUME IInv, NEW p \in Requests, Replace(p), load' = load
  PROVE  PInv'
<1>1. /\ call[p] \in CallType /\ load' = load /\ lost' = lost
      /\ PInv /\ lost \subseteq DOMAIN files /\ stored \in Nat
      /\ \A f \in DOMAIN files : f \in Nat /\ files[f] \in RowType
  <2>1. call[p] \in CallType /\ PInv /\ lost \subseteq DOMAIN files /\ stored \in Nat
    BY DEF IInv, PInv, Types
  <2>2. lost' = lost
    BY Zenon DEF Replace
  <2> QED
    BY <2>1, <2>2, RowsTyped
<1>2. CASE /\ \E f \in DOMAIN files, s \in load.sizes :
                /\ call[p] = Idle
                /\ Becomes(p, [Idle EXCEPT !.op = "replace", !.step = "quota", !.id = f,
                                           !.size = s, !.row = files[f]])
           /\ UNCHANGED <<files, storage>>
  <2>1. PICK f \in DOMAIN files, s \in load.sizes :
                /\ call[p] = Idle
                /\ Becomes(p, [Idle EXCEPT !.op = "replace", !.step = "quota", !.id = f,
                                           !.size = s, !.row = files[f]])
    BY Zenon, <1>2
  <2>2. s \in Nat \ {0} /\ f \in Nat /\ files[f] \in RowType
    BY <1>1, LoadType
  <2> DEFINE r == [Idle EXCEPT !.op = "replace", !.step = "quota", !.id = f,
                               !.size = s, !.row = files[f]]
  <2>3. call' = [call EXCEPT ![p] = r]
    BY <2>1 DEF Becomes
  <2>4. /\ r \in CallType /\ r.op = "replace" /\ r.step = "quota" /\ r.size = s
        /\ r.id = f /\ r.row = files[f] /\ call[p].op = "idle"
    BY <2>1, <2>2, IdleIsCall DEF CallType, Ops, Steps
  <2> HIDE DEF r
  <2>5. ~Storing(r) /\ r.size > 0 /\ \A g \in DOMAIN files : ~Between(call[p], g)
    BY <2>2, <2>4 DEF Storing, Reading, Between
  <2>6. UNCHANGED <<files, disk, stored>>
    BY <1>2 DEF storage
  <2> QED
    BY <1>1, <2>3, <2>4, <2>5, <2>6, QuietKeeps
<1>3. CASE At(p, "replace", "quota") /\ Goes(p, "store") /\ UNCHANGED <<files, storage>>
  <2> DEFINE r == [call[p] EXCEPT !.step = "store"]
  <2>1. call' = [call EXCEPT ![p] = r]
    BY <1>3 DEF Becomes, Goes
  <2>2. /\ r \in CallType /\ r.op = "replace" /\ r.step = "store"
        /\ call[p].op = "replace" /\ call[p].step = "quota"
        /\ r.size = call[p].size /\ r.id = call[p].id /\ r.row = call[p].row
    BY <1>1, <1>3 DEF CallType, Ops, Steps, At
  <2> HIDE DEF r
  <2>3. /\ ~Storing(r) /\ Reading(call[p]) /\ \A g \in DOMAIN files : ~Between(call[p], g)
    BY <2>2 DEF Storing, Reading, Between
  <2>4. r.size > 0
    BY <1>1, <2>2 DEF PInv, Types
  <2>5. UNCHANGED <<files, disk, stored>>
    BY <1>3 DEF storage
  <2> QED
    BY <1>1, <2>1, <2>2, <2>3, <2>4, <2>5, QuietKeeps
<1>4. CASE At(p, "replace", "store") /\ MoveFile(p, call[p].row.path.dir, "unlink") /\ UNCHANGED files
  <2> DEFINE d == call[p].row.path.dir
             path == [dir |-> d, name |-> stored']
             r == [call[p] EXCEPT !.step = "unlink", !.path = path]
  <2>1. /\ stored' = stored + 1 /\ call' = [call EXCEPT ![p] = r]
        /\ disk' = With(disk, path, call[p].size)
    BY <1>4 DEF Becomes, MoveFile
  <2>2. d \in Nat /\ path \in PathType
    BY <1>1, <2>1 DEF CallType, PathType, RowType
  <2> HIDE DEF path
  <2>3. /\ r \in CallType /\ r.op = "replace" /\ r.step = "unlink"
        /\ call[p].op = "replace" /\ call[p].step = "store"
        /\ r.size = call[p].size /\ r.id = call[p].id /\ r.row = call[p].row /\ r.path = path
    BY <1>1, <1>4, <2>2 DEF CallType, Ops, Steps, At
  <2> HIDE DEF r
  <2>4. d = r.row.path.dir
    BY <2>3
  <2> HIDE DEF d
  <2>5. /\ Storing(r) /\ Reading(call[p]) /\ r.size > 0
        /\ \A f \in DOMAIN files : ~Between(call[p], f)
    BY <1>1, <2>3 DEF Storing, Reading, PInv, Types, Between
  <2>6. r.path = [dir |-> d, name |-> stored']
    BY <2>3 DEF path
  <2>7. disk' = With(disk, r.path, r.size)
    BY <2>1, <2>3
  <2> QED
    BY <1>1, <1>4, <2>1, <2>2, <2>3, <2>4, <2>5, <2>6, <2>7, MoveKeeps
<1>5. CASE /\ At(p, "replace", "unlink")
           /\ disk' = Without(disk, {call[p].row.path})
           /\ Goes(p, "row")
           /\ UNCHANGED <<files, dirs, stored>>
  <2> DEFINE r == [call[p] EXCEPT !.step = "row"]
  <2>1. call' = [call EXCEPT ![p] = r]
    BY <1>5 DEF Becomes, Goes
  <2>2. /\ r \in CallType /\ r.op = "replace" /\ r.step = "row"
        /\ call[p].op = "replace" /\ call[p].step = "unlink"
        /\ r.size = call[p].size /\ r.id = call[p].id /\ r.row = call[p].row
        /\ r.path = call[p].path
    BY <1>1, <1>5 DEF CallType, Ops, Steps, At
  <2> HIDE DEF r
  <2>3. Reading(call[p]) /\ Reading(r) /\ Storing(r) /\ Storing(call[p])
    BY <2>2 DEF Storing, Reading
  <2> QED
    BY <1>1, <1>5, <2>1, <2>2, <2>3, FileGoes
<1>6. CASE /\ At(p, "replace", "row")
           /\ UpdateFile(call[p].id, call[p].size, call[p].path)
           /\ Ends(p)
           /\ UNCHANGED storage
  <2>1. call' = [call EXCEPT ![p] = Idle] /\ call[p].op = "replace" /\ call[p].step = "row"
    BY <1>6 DEF Becomes, Ends, At
  <2>2. ~Storing(Idle) /\ ~Reading(Idle) /\ Idle.op # "upload"
    BY IdleIsCall DEF Storing, Reading
  <2>3. UNCHANGED <<disk, stored>>
    BY <1>6 DEF storage
  <2> QED
    BY <1>1, <1>6, <2>1, <2>2, <2>3, IdleIsCall, RowChanges
<1> QED
  BY Zenon, <1>2, <1>3, <1>4, <1>5, <1>6 DEF Replace

(* ... deleting one, ...                                                   *)
LEMMA DeleteFileKeeps ==
  ASSUME IInv, NEW p \in Requests, DeleteFile(p), load' = load
  PROVE  PInv'
<1>1. /\ call[p] \in CallType /\ UNCHANGED <<load, stored>>
      /\ PInv /\ lost \subseteq DOMAIN files
      /\ \A f \in DOMAIN files : f \in Nat /\ files[f] \in RowType
  <2>1. call[p] \in CallType /\ PInv /\ lost \subseteq DOMAIN files
    BY DEF IInv, PInv, Types
  <2>2. UNCHANGED <<load, stored>>
    BY Zenon DEF DeleteFile
  <2> QED
    BY <2>1, <2>2, RowsTyped
<1>2. CASE /\ \E f \in DOMAIN files :
                /\ call[p] = Idle
                /\ Becomes(p, [Idle EXCEPT !.op = "delfile", !.step = "unlink", !.id = f,
                                           !.row = files[f]])
           /\ UNCHANGED <<files, disk, lost>>
  <2>1. PICK f \in DOMAIN files :
                /\ call[p] = Idle
                /\ Becomes(p, [Idle EXCEPT !.op = "delfile", !.step = "unlink", !.id = f,
                                           !.row = files[f]])
    BY Zenon, <1>2
  <2>2. f \in Nat /\ files[f] \in RowType
    BY <1>1
  <2> DEFINE r == [Idle EXCEPT !.op = "delfile", !.step = "unlink", !.id = f, !.row = files[f]]
  <2>3. call' = [call EXCEPT ![p] = r]
    BY <2>1 DEF Becomes
  <2>4. /\ r \in CallType /\ r.op = "delfile" /\ r.step = "unlink"
        /\ r.id = f /\ r.row = files[f] /\ call[p].op = "idle"
    BY <2>1, <2>2, IdleIsCall DEF CallType, Ops, Steps
  <2> HIDE DEF r
  <2>5. ~Storing(r) /\ \A g \in DOMAIN files : ~Between(call[p], g)
    BY <2>4 DEF Storing, Reading, Between
  <2> QED
    BY <1>1, <1>2, <2>3, <2>4, <2>5, QuietKeeps
<1>3. CASE /\ At(p, "delfile", "unlink")
           /\ disk' = Without(disk, {call[p].row.path})
           /\ Goes(p, "row")
           /\ UNCHANGED <<files, lost>>
  <2> DEFINE r == [call[p] EXCEPT !.step = "row"]
  <2>1. call' = [call EXCEPT ![p] = r]
    BY <1>3 DEF Becomes, Goes
  <2>2. /\ r \in CallType /\ r.op = "delfile" /\ r.step = "row"
        /\ call[p].op = "delfile" /\ call[p].step = "unlink"
        /\ r.size = call[p].size /\ r.id = call[p].id /\ r.row = call[p].row
        /\ r.path = call[p].path
    BY <1>1, <1>3 DEF CallType, Ops, Steps, At
  <2> HIDE DEF r
  <2>3. Reading(call[p]) /\ Reading(r) /\ ~Storing(r) /\ ~Storing(call[p])
    BY <2>2 DEF Storing, Reading
  <2> QED
    BY <1>1, <1>3, <2>1, <2>2, <2>3, FileGoes
<1>4. CASE /\ At(p, "delfile", "row")
           /\ files' = Without(files, {call[p].id})
           /\ lost' = lost \ {call[p].id}
           /\ Ends(p)
           /\ UNCHANGED disk
  <2> DEFINE D == {call[p].id}
  <2>1. call' = [call EXCEPT ![p] = Idle]
    BY <1>4 DEF Becomes, Ends
  <2>2. files' = Without(files, D) /\ DOMAIN files' = DOMAIN files \ D
    BY <1>4 DEF Without
  <2>3. lost' = lost \cap DOMAIN files'
    BY <1>1, <1>4, <2>2
  <2>4. /\ ~Storing(Idle) /\ ~Reading(Idle) /\ Idle.op # "upload"
        /\ \A f \in DOMAIN files : Between(call[p], f) => f \in D
    BY IdleIsCall DEF Storing, Reading, Between
  <2> HIDE DEF D
  <2> QED
    BY <1>1, <1>4, <2>1, <2>2, <2>3, <2>4, IdleIsCall, RowsGo
<1> QED
  BY Zenon, <1>2, <1>3, <1>4 DEF DeleteFile

(* ... and stopping anywhere.                                              *)
LEMMA StopsKeeps ==
  ASSUME IInv, NEW p \in Requests, Stops(p), load' = load
  PROVE  PInv'
<1>1. /\ UNCHANGED <<load, files, disk, stored>> /\ PInv /\ lost \subseteq DOMAIN files
      /\ call' = [call EXCEPT ![p] = Idle]
  BY DEF IInv, PInv, Types, Stops, Ends, Becomes, tables, storage
<1>2. lost \subseteq lost' /\ lost' \subseteq DOMAIN files
  BY <1>1 DEF Stops
<1>3. \A f \in DOMAIN files : Between(call[p], f) => f \in lost'
  <2> SUFFICES ASSUME NEW f \in DOMAIN files, Between(call[p], f) PROVE f \in lost'
    OBVIOUS
  <2>1. (At(p, "replace", "row") \/ At(p, "delfile", "row")) /\ f = call[p].id
    BY DEF Between, Reading, At
  <2> QED
    BY <2>1 DEF Stops
<1>4. ~Storing(Idle) /\ ~Reading(Idle) /\ Idle.op # "upload" /\ Idle.op # "replace"
  BY IdleIsCall DEF Storing, Reading
<1> QED
  BY <1>1, <1>2, <1>3, <1>4, IdleIsCall, QuietKeeps

(* A set of numbers has a least element.                                   *)
LEMMA Least ==
  ASSUME NEW S, S \subseteq Nat, S # {}
  PROVE  \E m \in S : \A y \in S : m <= y
<1>1. PICK m \in S : \A y \in S : ~(<<y, m>> \in OpToRel(<, Nat))
  BY Zenon, NatLessThanWellFounded, WFMin
<1>2. \A y \in S : ~(y < m)
  BY <1>1 DEF OpToRel
<1> QED
  BY <1>2

(* A finite set of numbers has a greatest element.                         *)
LEMMA Greatest ==
  ASSUME NEW n \in Nat, NEW S, S \subseteq 0 .. n, S # {}
  PROVE  \E m \in S : \A y \in S : m >= y
<1> DEFINE T == {x \in 0 .. n : n - x \in S}
<1>1. T \subseteq Nat /\ T # {}
  <2>1. PICK y \in S : TRUE
    OBVIOUS
  <2>2. n - y \in 0 .. n /\ n - (n - y) = y
    BY <2>1
  <2>3. n - y \in T
    BY <2>1, <2>2
  <2>4. T \subseteq 0 .. n
    OBVIOUS
  <2> HIDE DEF T
  <2> QED
    BY <2>3, <2>4
<1>2. PICK t \in T : \A x \in T : t <= x
  <2> HIDE DEF T
  <2> QED
    BY <1>1, Least
<1>3. ASSUME NEW y \in S PROVE n - t >= y
  <2>1. n - y \in T
    OBVIOUS
  <2>2. t <= n - y
    BY <1>2, <2>1
  <2> QED
    BY <2>2
<1> QED
  BY <1>3

(* The next directory has a number.                                        *)
LEMMA NextIndexType ==
  ASSUME Numbers
  PROVE  NextIndex \in Nat
<1>1. PICK n \in Nat : DOMAIN dirs \subseteq 0 .. n
  BY DEF Numbers
<1>2. CASE dirs = << >>
  BY <1>2 DEF NextIndex
<1>3. CASE dirs # << >>
  <2> DEFINE D == DOMAIN dirs
  <2>1. D # {}
    BY SMTT(30), <1>3 DEF Numbers
  <2>2. \E m \in D : \A y \in D : m >= y
    <3> HIDE DEF D
    <3> QED
      BY <1>1, <2>1, Greatest DEF D
  <2>3. Max(D) \in D
    BY <2>2 DEF Max
  <2> QED
    BY <1>1, <1>3, <2>3 DEF NextIndex
<1> QED
  BY <1>2, <1>3

(* Another directory, in the place of one or not.                          *)
LEMMA OneMoreDir ==
  ASSUME Numbers, NEW d \in Nat, made' \in Nat, projects' \subseteq Nat,
         dirs' = With(dirs, d, 0)
  PROVE  Numbers'
<1>1. PICK n \in Nat : DOMAIN dirs \subseteq 0 .. n
  BY DEF Numbers
<1>2. DOMAIN dirs' = DOMAIN dirs \cup {d} /\ dirs' = [x \in DOMAIN dirs' |-> dirs'[x]]
  BY DEF With
<1>3. DOMAIN dirs' \subseteq 0 .. n + d /\ n + d \in Nat
  BY <1>1, <1>2
<1> QED
  BY <1>2, <1>3 DEF Numbers

(* No other directory.                                                     *)
LEMMA SameDirs ==
  ASSUME Numbers, made' \in Nat, projects' \subseteq Nat,
         dirs' = [x \in DOMAIN dirs' |-> dirs'[x]], DOMAIN dirs' \subseteq DOMAIN dirs
  PROVE  Numbers'
BY DEF Numbers

(* Ids and directories stay numbers.                                       *)
LEMMA NumbersKeep ==
  ASSUME IInv, Next
  PROVE  Numbers'
<1>1. PICK p \in Requests : \/ Create(p) \/ DeleteProject(p) \/ Upload(p) \/ Replace(p)
                            \/ DeleteFile(p) \/ Stops(p)
  BY DEF Next
<1>2. /\ made \in Nat /\ projects \subseteq Nat /\ dirs = [x \in DOMAIN dirs |-> dirs[x]]
      /\ Numbers /\ call[p].dir \in Nat /\ call[p].row.path.dir \in Nat
  BY DEF IInv, Numbers, PInv, Types, CallType, RowType, PathType
<1>3. CASE Create(p)
  <2>1. made' \in Nat /\ projects' \subseteq Nat
    BY <1>2, <1>3 DEF Create
  <2>2. \/ dirs' = dirs
        \/ dirs' = With(dirs, call[p].dir, 0)
        \/ dirs' = [dirs EXCEPT ![call[p].dir] = call[p].id]
    BY <1>3 DEF Create
  <2>3. CASE dirs' = dirs
    BY <1>2, <2>1, <2>3, SameDirs
  <2>4. CASE dirs' = With(dirs, call[p].dir, 0)
    BY <1>2, <2>1, <2>4, OneMoreDir
  <2>5. CASE dirs' = [dirs EXCEPT ![call[p].dir] = call[p].id]
    BY <1>2, <2>1, <2>5, SameDirs
  <2> QED
    BY <2>2, <2>3, <2>4, <2>5
<1>4. CASE DeleteProject(p)
  <2>1. made' = made /\ projects' \subseteq projects
    BY Zenon, <1>4 DEF DeleteProject, DropProject
  <2>2. dirs' = dirs \/ dirs' = Without(dirs, {call[p].dir})
    BY Zenon, <1>4 DEF DeleteProject
  <2>3. dirs' = [x \in DOMAIN dirs' |-> dirs'[x]] /\ DOMAIN dirs' \subseteq DOMAIN dirs
    BY <1>2, <2>2 DEF Without
  <2> QED
    BY <1>2, <2>1, <2>3, SameDirs
<1>5. CASE Upload(p) \/ Replace(p)
  <2>1. made' = made /\ projects' = projects
    BY Zenon, <1>5 DEF Upload, Replace
  <2>2. \/ dirs' = dirs
        \/ dirs' = With(dirs, call[p].dir, 0)
        \/ dirs' = With(dirs, call[p].row.path.dir, 0)
    BY Zenon, <1>5 DEF Upload, Replace, MoveFile, storage
  <2>3. CASE dirs' = dirs
    BY <1>2, <2>1, <2>3, SameDirs
  <2> QED
    BY <1>2, <2>1, <2>2, <2>3, OneMoreDir
<1>6. CASE DeleteFile(p) \/ Stops(p)
  <2>1. made' = made /\ projects' = projects /\ dirs' = dirs
    BY Zenon, <1>6 DEF DeleteFile, Stops, tables, storage
  <2> QED
    BY <1>2, <2>1, SameDirs
<1> QED
  BY <1>1, <1>3, <1>4, <1>5, <1>6

(* So every step keeps the invariant, ...                                  *)
LEMMA IInvStep ==
  ASSUME IInv, [Next]_vars
  PROVE  IInv'
<1>1. CASE Next
  <2>1. PICK p \in Requests : /\ \/ Create(p) \/ DeleteProject(p) \/ Upload(p) \/ Replace(p)
                                 \/ DeleteFile(p) \/ Stops(p)
                              /\ load' = load
    BY <1>1 DEF Next
  <2>2. NextIndex \in Nat
    BY NextIndexType DEF IInv
  <2>3. PInv'
    BY <2>1, <2>2, CreateKeeps, DeleteKeeps, UploadKeeps, ReplaceKeeps, DeleteFileKeeps, StopsKeeps
  <2> QED
    BY <1>1, <2>3, NumbersKeep DEF IInv
<1>2. CASE UNCHANGED vars
  <2>1. UNCHANGED <<load, projects, made, files, dirs, disk, stored, lost, call>>
    BY <1>2 DEF vars, tables, storage
  <2>2. Numbers'
    BY <2>1 DEF IInv, Numbers
  <2>3. PInv'
    BY <2>1 DEF IInv, PInv, Types, NamesDrawn, Drawn, OneRow, OneHolder, RowRead, Beside,
                StoredWhole, RowsTrue, RowsStored
  <2> QED
    BY <2>2, <2>3 DEF IInv
<1> QED
  BY <1>1, <1>2

(* ... which holds at the start.                                           *)
LEMMA InvariantInit == Init => IInv
<1> SUFFICES ASSUME Init PROVE Numbers
  BY PInvInit DEF IInv
<1>1. made = 0 /\ projects = {} /\ dirs = << >>
  BY DEF Init
<1>2. DOMAIN dirs = {} /\ dirs = [x \in DOMAIN dirs |-> dirs[x]]
  BY <1>1
<1>3. DOMAIN dirs \subseteq 0 .. 0
  BY <1>2
<1> QED
  BY <1>1, <1>2, <1>3 DEF Numbers

(* A file that is listed can be downloaded with the size that is listed,   *)
(* unless a request is between removing it and changing its row, was       *)
(* dropped there, or a deletion took its directory, for any number of      *)
(* requests that are interleaved in any way and stop anywhere.             *)
THEOREM ListedIsStoredHolds == Spec => []ListedIsStored
<1>1. Init => IInv
  BY InvariantInit
<1>2. IInv /\ [Next]_vars => IInv'
  BY IInvStep
<1>3. IInv => ListedIsStored
  <2> SUFFICES ASSUME IInv PROVE ListedIsStored
    OBVIOUS
  <2>1. Types /\ RowsTrue /\ RowsStored
    BY DEF IInv, PInv
  <2>2. SizesTrue
    BY <2>1 DEF SizesTrue, RowsTrue, Download
  <2>3. ASSUME NEW f \in DOMAIN files, Download(f) = 0
        PROVE  f \in lost \/ Handling(f)
    <3>1. files[f].path \notin DOMAIN disk
      BY <2>1, <2>3 DEF Download, Types
    <3>2. \A p \in Requests : Between(call[p], f) => Handling(f)
      BY DEF Between, Reading, Handling
    <3> QED
      BY <2>1, <3>1, <3>2 DEF RowsStored
  <2> QED
    BY <2>2, <2>3 DEF ListedIsStored
<1> QED
  BY <1>1, <1>2, <1>3, PTL DEF Spec

(* The creations that have been let in and have not inserted their row.    *)
Inserting == {p \in Requests : At(p, "create", "insert")}

(* There is room for all that wait, but for the requests that raced.       *)
Room ==
  /\ IsFiniteSet(projects)
  /\ Cardinality(projects) + Cardinality(Inserting) <= MaxProjects - 1 + Cardinality(Requests)

(* No more of them wait than there are requests.                           *)
LEMMA Waiting ==
  IsFiniteSet(Inserting) /\ Cardinality(Inserting) \in Nat
  /\ Cardinality(Inserting) <= Cardinality(Requests) /\ Cardinality(Requests) \in Nat
<1>1. IsFiniteSet(Requests) /\ Inserting \subseteq Requests
  BY ProjectsAssumption DEF Inserting
<1> QED
  BY <1>1, FS_Subset, FS_CardinalityType

(* A step after which fewer wait, and that adds no project.                *)
LEMMA RoomKeeps ==
  ASSUME Room, Inserting' \subseteq Inserting, projects' \subseteq projects
  PROVE  Room'
<1>1. IsFiniteSet(Inserting') /\ Cardinality(Inserting') <= Cardinality(Inserting)
      /\ Cardinality(Inserting') \in Nat
  BY Waiting, FS_Subset, FS_CardinalityType
<1>2. IsFiniteSet(projects') /\ Cardinality(projects') <= Cardinality(projects)
      /\ Cardinality(projects') \in Nat /\ Cardinality(projects) \in Nat
  BY FS_Subset, FS_CardinalityType DEF Room
<1>3. Cardinality(Inserting) \in Nat /\ Cardinality(Requests) \in Nat /\ MaxProjects \in Nat
  BY Waiting, ProjectsAssumption
<1> QED
  BY <1>1, <1>2, <1>3 DEF Room

(* A request that goes on to another step waits no longer.                 *)
LEMMA Leaves ==
  ASSUME IInv, NEW p \in Requests, NEW r, call' = [call EXCEPT ![p] = r],
         ~(r.op = "create" /\ r.step = "insert")
  PROVE  Inserting' \subseteq Inserting \ {p}
<1>1. call \in [Requests -> CallType]
  BY DEF IInv, PInv, Types
<1>2. call'[p] = r /\ \A q \in Requests \ {p} : call'[q] = call[q]
  BY <1>1
<1> QED
  BY <1>2 DEF Inserting, At

(* A request that goes anywhere else does not wait.                        *)
LEMMA OthersWait ==
  ASSUME NEW p \in Requests, call'[p].step # "insert",
         \A q \in Requests \ {p} : call'[q] = call[q]
  PROVE  Inserting' \subseteq Inserting
BY DEF Inserting, At

(* A creation is let in while there is room for all that wait.             *)
LEMMA CreateLeavesRoom ==
  ASSUME IInv, Room, NEW p \in Requests, Create(p)
  PROVE  Room'
<1>1. call[p] \in CallType /\ ~(Idle.op = "create" /\ Idle.step = "insert")
  BY IdleIsCall DEF IInv, PInv, Types
<1>2. CASE /\ MayCreate
           /\ Starts(p, "create", "insert", 0)
           /\ UNCHANGED <<projects, made, dirs>>
  <2>1. /\ IsFiniteSet(projects) /\ Cardinality(projects) \in Nat
        /\ Cardinality(projects) < MaxProjects /\ MaxProjects \in Nat
    BY <1>2, FS_CardinalityType, ProjectsAssumption DEF MayCreate, Room
  <2>2. /\ Cardinality(Inserting') \in Nat /\ Cardinality(Requests) \in Nat
        /\ Cardinality(Inserting') <= Cardinality(Requests)
    <3>1. IsFiniteSet(Requests) /\ Inserting' \subseteq Requests
      BY ProjectsAssumption DEF Inserting
    <3> QED
      BY <3>1, FS_Subset, FS_CardinalityType
  <2>3. projects' = projects
    BY <1>2
  <2> QED
    BY <2>1, <2>2, <2>3 DEF Room
<1>3. CASE /\ At(p, "create", "insert") /\ made < load.made
           /\ made' = made + 1
           /\ projects' = projects \cup {made'}
           /\ Becomes(p, [call[p] EXCEPT !.step = "index", !.id = made'])
           /\ UNCHANGED dirs
  <2>1. /\ IsFiniteSet(projects') /\ Cardinality(projects') \in Nat
        /\ Cardinality(projects') <= Cardinality(projects) + 1 /\ Cardinality(projects) \in Nat
    <3>1. IsFiniteSet(projects)
      BY DEF Room
    <3>2. /\ IsFiniteSet(projects \cup {made'})
          /\ \/ Cardinality(projects \cup {made'}) = Cardinality(projects)
             \/ Cardinality(projects \cup {made'}) = Cardinality(projects) + 1
      BY <3>1, FS_AddElement
    <3>3. Cardinality(projects) \in Nat
      BY <3>1, FS_CardinalityType
    <3> QED
      BY <1>3, <3>2, <3>3
  <2> DEFINE r == [call[p] EXCEPT !.step = "index", !.id = made']
  <2>2. call' = [call EXCEPT ![p] = r] /\ r.step = "index"
    BY <1>1, <1>3 DEF Becomes, CallType
  <2> HIDE DEF r
  <2>3. Inserting' \subseteq Inserting \ {p}
    BY <2>2, Leaves
  <2>4. p \in Inserting
    BY <1>3 DEF Inserting
  <2>5. /\ IsFiniteSet(Inserting \ {p}) /\ Cardinality(Inserting) \in Nat
        /\ Cardinality(Inserting \ {p}) = Cardinality(Inserting) - 1
    BY <2>4, Waiting, FS_RemoveElement
  <2>6. Cardinality(Inserting') \in Nat /\ Cardinality(Inserting') <= Cardinality(Inserting) - 1
    BY <2>3, <2>5, FS_Subset, FS_CardinalityType
  <2>7. MaxProjects \in Nat /\ Cardinality(Requests) \in Nat
    BY Waiting, ProjectsAssumption
  <2> QED
    BY <2>1, <2>5, <2>6, <2>7 DEF Room
<1>4. CASE /\ At(p, "create", "index")
           /\ Becomes(p, [call[p] EXCEPT !.step = "mkdir", !.dir = NextIndex])
           /\ UNCHANGED <<projects, made, dirs>>
  <2> DEFINE r == [call[p] EXCEPT !.step = "mkdir", !.dir = NextIndex]
  <2>1. call' = [call EXCEPT ![p] = r] /\ r.step = "mkdir"
    BY <1>1, <1>4 DEF Becomes, CallType
  <2> HIDE DEF r
  <2> QED
    BY <1>4, <2>1, Leaves, RoomKeeps
<1>5. CASE /\ At(p, "create", "mkdir")
           /\ dirs' = IF call[p].dir \in DOMAIN dirs THEN dirs ELSE With(dirs, call[p].dir, 0)
           /\ Goes(p, "metadata")
           /\ UNCHANGED <<projects, made>>
  <2> DEFINE r == [call[p] EXCEPT !.step = "metadata"]
  <2>1. call' = [call EXCEPT ![p] = r] /\ r.step = "metadata"
    BY <1>1, <1>5 DEF Becomes, Goes, CallType
  <2> HIDE DEF r
  <2> QED
    BY <1>5, <2>1, Leaves, RoomKeeps
<1>6. CASE /\ At(p, "create", "metadata") /\ call[p].dir \in DOMAIN dirs
           /\ dirs' = [dirs EXCEPT ![call[p].dir] = call[p].id]
           /\ Ends(p)
           /\ UNCHANGED <<projects, made>>
  <2>1. call' = [call EXCEPT ![p] = Idle]
    BY <1>6 DEF Becomes, Ends
  <2> QED
    BY <1>1, <1>6, <2>1, Leaves, RoomKeeps
<1> QED
  BY <1>2, <1>3, <1>4, <1>5, <1>6 DEF Create

(* No other handler starts a creation or adds a project.                   *)
LEMMA OthersLeaveRoom ==
  ASSUME IInv, Room, NEW p \in Requests,
         DeleteProject(p) \/ Upload(p) \/ Replace(p) \/ DeleteFile(p) \/ Stops(p)
  PROVE  Room'
<1>1. /\ call[p] \in CallType /\ Idle \in CallType
      /\ ~(Idle.op = "create" /\ Idle.step = "insert")
  BY IdleIsCall DEF IInv, PInv, Types
<1>2. projects' \subseteq projects
  BY Zenon DEF DeleteProject, DropProject, Upload, Replace, DeleteFile, Stops, tables
<1>3. call \in [Requests -> CallType]
  BY DEF IInv, PInv, Types
<1>4. CASE DeleteProject(p)
  <2>1. \/ \E i \in projects : Starts(p, "delete", "find", i)
        \/ Goes(p, "files") \/ Goes(p, "project") \/ Ends(p)
        \/ \E d \in DirsOf(call[p].id) : Becomes(p, [call[p] EXCEPT !.step = "rmdir", !.dir = d])
    BY Zenon, <1>4 DEF DeleteProject
  <2>2. call'[p].step # "insert" /\ \A q \in Requests \ {p} : call'[q] = call[q]
    BY Zenon, <1>1, <1>3, <2>1, IdleIsCall DEF Starts, Becomes, Goes, Ends, CallType
  <2> QED
    BY <1>2, <2>2, OthersWait, RoomKeeps
<1>5. CASE Upload(p)
  <2>1. \/ \E i \in projects : \E d \in DirsOf(i), s \in load.sizes :
             Becomes(p, [Idle EXCEPT !.op = "upload", !.step = "quota", !.id = i,
                                     !.dir = d, !.size = s])
        \/ Goes(p, "move") \/ Ends(p)
        \/ Becomes(p, [call[p] EXCEPT !.step = "row",
                                      !.path = [dir |-> call[p].dir, name |-> stored']])
    BY Zenon, <1>5 DEF Upload, MoveFile
  <2>2. call'[p].step # "insert" /\ \A q \in Requests \ {p} : call'[q] = call[q]
    BY Zenon, <1>1, <1>3, <2>1, IdleIsCall DEF Becomes, Goes, Ends, CallType
  <2> QED
    BY <1>2, <2>2, OthersWait, RoomKeeps
<1>6. CASE Replace(p)
  <2>1. \/ \E f \in DOMAIN files, s \in load.sizes :
             Becomes(p, [Idle EXCEPT !.op = "replace", !.step = "quota", !.id = f,
                                     !.size = s, !.row = files[f]])
        \/ Goes(p, "store") \/ Goes(p, "row") \/ Ends(p)
        \/ Becomes(p, [call[p] EXCEPT !.step = "unlink",
                         !.path = [dir |-> call[p].row.path.dir, name |-> stored']])
    BY Zenon, <1>6 DEF Replace, MoveFile
  <2>2. call'[p].step # "insert" /\ \A q \in Requests \ {p} : call'[q] = call[q]
    BY ZenonT(40), <1>1, <1>3, <2>1, IdleIsCall DEF Becomes, Goes, Ends, CallType
  <2> QED
    BY <1>2, <2>2, OthersWait, RoomKeeps
<1>7. CASE DeleteFile(p)
  <2>1. \/ \E f \in DOMAIN files :
             Becomes(p, [Idle EXCEPT !.op = "delfile", !.step = "unlink", !.id = f,
                                     !.row = files[f]])
        \/ Goes(p, "row") \/ Ends(p)
    BY Zenon, <1>7 DEF DeleteFile
  <2>2. call'[p].step # "insert" /\ \A q \in Requests \ {p} : call'[q] = call[q]
    BY Zenon, <1>1, <1>3, <2>1, IdleIsCall DEF Becomes, Goes, Ends, CallType
  <2> QED
    BY <1>2, <2>2, OthersWait, RoomKeeps
<1>8. CASE Stops(p)
  BY <1>1, <1>2, <1>8, Leaves, RoomKeeps DEF Stops, Becomes, Ends
<1> QED
  BY <1>4, <1>5, <1>6, <1>7, <1>8

(* The limit on projects is missed by no more than the creations that were *)
(* let in together, for any number of requests and any limit.              *)
THEOREM ProjectsNearLimitHolds == Spec => []ProjectsNearLimit
<1>1. Init => IInv /\ Room
  <2> SUFFICES ASSUME Init PROVE Room
    BY InvariantInit
  <2>1. projects = {} /\ IsFiniteSet(projects) /\ Cardinality(projects) = 0
    BY FS_EmptySet DEF Init
  <2>2. Inserting = {} /\ Cardinality(Inserting) = 0
    <3>1. \A p \in Requests : call[p].op = "idle"
      BY IdleIsCall DEF Init
    <3> QED
      BY <3>1, FS_EmptySet DEF Inserting, At
  <2>3. MaxProjects \in Nat \ {0} /\ Cardinality(Requests) \in Nat
    BY Waiting, ProjectsAssumption
  <2> QED
    BY <2>1, <2>2, <2>3 DEF Room
<1>2. IInv /\ Room /\ [Next]_vars => (IInv /\ Room)'
  <2> SUFFICES ASSUME IInv, Room, [Next]_vars PROVE Room'
    BY IInvStep
  <2>1. CASE Next
    BY <2>1, CreateLeavesRoom, OthersLeaveRoom DEF Next
  <2>2. CASE UNCHANGED vars
    BY <2>2 DEF vars, tables, Room, Inserting, At
  <2> QED
    BY <2>1, <2>2
<1>3. Room => ProjectsNearLimit
  <2> SUFFICES ASSUME Room PROVE ProjectsNearLimit
    OBVIOUS
  <2>1. Cardinality(projects) \in Nat
    BY FS_CardinalityType DEF Room
  <2> QED
    BY <2>1, Waiting, ProjectsAssumption DEF Room, ProjectsNearLimit
<1> QED
  BY <1>1, <1>2, <1>3, PTL DEF Spec

-----------------------------------------------------------------------------
(***************************************************************************)
(* Projects: the quota.  What is in use and what has passed the check are  *)
(* counted byte by byte.  Active are uploads and replacements, and Passed  *)
(* those of them that have passed it.                                      *)
(***************************************************************************)
Active(r) == r.op \in {"upload", "replace"}
Coming(r) == r.op = "upload" /\ r.step \in {"move", "row"}
Changing(r) == r.op = "replace" /\ r.step \in {"store", "unlink", "row"}
Passed(r) == Coming(r) \/ Changing(r)

(* The bytes of rows fs, those that a replacement among P may give to a    *)
(* row, those of the uploads among P that have no row yet, and those of    *)
(* one file.                                                               *)
BytesOf(fs) == {x \in (DOMAIN fs) \X (1 .. MaxBytes) : x[2] <= fs[x[1]].size}
ChangedBy(fs, c, P) ==
  {x \in (DOMAIN fs) \X (1 .. MaxBytes) :
     \E q \in P : Changing(c[q]) /\ c[q].id = x[1] /\ x[2] <= c[q].size}
ComingBy(c, P) == {x \in P \X (1 .. MaxBytes) : Coming(c[x[1]]) /\ x[2] <= c[x[1]].size}
FileBytes(f, size) == {f} \X (1 .. size)

(* The bytes that rows may have when what has passed lands in any order,   *)
(* and those of what has no row yet, fit but for the requests that raced.  *)
RowBytes(fs, c) == BytesOf(fs) \cup ChangedBy(fs, c, Requests)
NewBytes(c) == ComingBy(c, Requests)
Largest == Max(load.sizes)
QuotaReqs == Cardinality(Requests)
QuotaLimit == MaxBytes + (QuotaReqs - 1) * Largest
WillFit(fs, c) == Cardinality(RowBytes(fs, c)) + Cardinality(NewBytes(c)) <= QuotaLimit

(* When all requests are at it, the one that began last saw the rows as    *)
(* they are.                                                               *)
Fresh(r, fs) ==
  \/ r.op = "upload" /\ (Passed(r) => Cardinality(BytesOf(fs)) + r.size <= MaxBytes)
  \/ /\ r.op = "replace" /\ r.id \in DOMAIN fs /\ fs[r.id].size = r.row.size
     /\ Passed(r) => Cardinality(BytesOf(fs)) - r.row.size + r.size <= MaxBytes

LastIsFresh(fs, c) ==
  Requests # {} /\ (\A p \in Requests : Active(c[p])) => \E q \in Requests : Fresh(c[q], fs)

(* Every size is one of the load's.                                        *)
Size == 1 .. Largest
Sized(fs, c) ==
  /\ IsFiniteSet(DOMAIN fs)
  /\ \A f \in DOMAIN fs : fs[f].size \in Size
  /\ \A p \in Requests : /\ Active(c[p]) => c[p].size \in Size
                         /\ Reading(c[p]) => c[p].row.size \in Size

QuotaInv(fs, c) == Sized(fs, c) /\ WillFit(fs, c) /\ LastIsFresh(fs, c)

(* The sizes are numbers that fit, and there is a largest.                 *)
SizesKnown == /\ Largest \in 1 .. MaxBytes /\ MaxBytes \in Nat
              /\ \A s \in load.sizes : s \in 1 .. Largest

(* Every load has sizes like that.                                         *)
LEMMA SizesAre ==
  ASSUME load \in Loads
  PROVE  SizesKnown
<1>1. /\ MaxBytes \in Nat /\ load.sizes \subseteq 1 .. MaxBytes /\ load.sizes # {}
  BY ProjectsAssumption
<1>2. load.sizes \subseteq 0 .. MaxBytes
  BY <1>1
<1>3. \E m \in load.sizes : \A y \in load.sizes : m >= y
  BY <1>1, <1>2, Greatest
<1>4. Max(load.sizes) \in load.sizes /\ \A y \in load.sizes : Max(load.sizes) >= y
  BY <1>3 DEF Max
<1> QED
  BY <1>1, <1>4 DEF Largest, SizesKnown

(* The requests are finitely many.                                         *)
LEMMA QuotaReqsIs == QuotaReqs \in Nat /\ IsFiniteSet(Requests)
                     /\ \A p \in Requests : QuotaReqs > 0
<1>1. IsFiniteSet(Requests)
  BY ProjectsAssumption
<1>2. QuotaReqs \in Nat /\ (QuotaReqs = 0 <=> Requests = {})
  BY <1>1, FS_CardinalityType, FS_EmptySet DEF QuotaReqs
<1> QED
  BY <1>1, <1>2

(* The bytes of one file are as many as its size.                          *)
LEMMA FileBytesAre ==
  ASSUME NEW f, NEW a \in Nat \ {0}, NEW b \in Nat, a <= b + 1
  PROVE  IsFiniteSet({f} \X (a .. b)) /\ Cardinality({f} \X (a .. b)) = b - a + 1
<1>1. IsFiniteSet({f}) /\ Cardinality({f}) = 1
  BY FS_Singleton
<1>2. IsFiniteSet(a .. b) /\ Cardinality(a .. b) = b - a + 1
  <2>1. a \in Int /\ b \in Int /\ (a > b => b - a + 1 = 0)
    OBVIOUS
  <2>2. IsFiniteSet(a .. b) /\ Cardinality(a .. b) = IF a > b THEN 0 ELSE b - a + 1
    BY <2>1, FS_Interval
  <2> QED
    BY <2>1, <2>2
<1>3. /\ IsFiniteSet({f} \X (a .. b))
      /\ Cardinality({f} \X (a .. b)) = Cardinality({f}) * Cardinality(a .. b)
  BY <1>1, <1>2, FS_Product
<1> QED
  BY <1>1, <1>2, <1>3

(* A whole file has as many bytes as its size.                             *)
LEMMA WholeFile ==
  ASSUME NEW s \in Nat
  PROVE  \A f : IsFiniteSet(FileBytes(f, s)) /\ Cardinality(FileBytes(f, s)) = s
<1>1. IsFiniteSet(1 .. s) /\ Cardinality(1 .. s) = IF 1 > s THEN 0 ELSE s - 1 + 1
  BY FS_Interval
<1>2. Cardinality(1 .. s) = s
  BY <1>1
<1>3. ASSUME NEW f PROVE IsFiniteSet(FileBytes(f, s)) /\ Cardinality(FileBytes(f, s)) = s
  <2>1. IsFiniteSet({f}) /\ Cardinality({f}) = 1
    BY FS_Singleton
  <2>2. /\ IsFiniteSet({f} \X (1 .. s))
        /\ Cardinality({f} \X (1 .. s)) = Cardinality({f}) * Cardinality(1 .. s)
    BY <1>1, <2>1, FS_Product
  <2> QED
    BY <1>2, <2>1, <2>2 DEF FileBytes
<1> QED
  BY <1>3

(* All these sets are finite.                                              *)
LEMMA BytesFinite ==
  ASSUME NEW fs, NEW c, IsFiniteSet(DOMAIN fs), MaxBytes \in Nat, NEW P \in SUBSET Requests
  PROVE  /\ IsFiniteSet(BytesOf(fs)) /\ Cardinality(BytesOf(fs)) \in Nat
         /\ IsFiniteSet(ChangedBy(fs, c, P)) /\ IsFiniteSet(ComingBy(c, P))
         /\ IsFiniteSet(RowBytes(fs, c)) /\ IsFiniteSet(NewBytes(c))
         /\ Cardinality(RowBytes(fs, c)) \in Nat /\ Cardinality(NewBytes(c)) \in Nat
<1>1. IsFiniteSet(1 .. MaxBytes) /\ IsFiniteSet(Requests) /\ IsFiniteSet(P)
  BY FS_Interval, FS_Subset, QuotaReqsIs
<1>2. /\ IsFiniteSet((DOMAIN fs) \X (1 .. MaxBytes)) /\ IsFiniteSet(P \X (1 .. MaxBytes))
      /\ IsFiniteSet(Requests \X (1 .. MaxBytes))
  BY <1>1, FS_Product
<1>3. /\ BytesOf(fs) \in SUBSET ((DOMAIN fs) \X (1 .. MaxBytes))
      /\ ChangedBy(fs, c, P) \in SUBSET ((DOMAIN fs) \X (1 .. MaxBytes))
      /\ ChangedBy(fs, c, Requests) \in SUBSET ((DOMAIN fs) \X (1 .. MaxBytes))
      /\ ComingBy(c, P) \in SUBSET (P \X (1 .. MaxBytes))
      /\ ComingBy(c, Requests) \in SUBSET (Requests \X (1 .. MaxBytes))
  BY DEF BytesOf, ChangedBy, ComingBy
<1>4. /\ IsFiniteSet(BytesOf(fs)) /\ IsFiniteSet(ChangedBy(fs, c, P))
      /\ IsFiniteSet(ChangedBy(fs, c, Requests))
      /\ IsFiniteSet(ComingBy(c, P)) /\ IsFiniteSet(ComingBy(c, Requests))
  BY <1>2, <1>3, FS_Subset
<1>5. IsFiniteSet(RowBytes(fs, c)) /\ IsFiniteSet(NewBytes(c))
  BY <1>4, FS_Union DEF RowBytes, NewBytes
<1> QED
  BY <1>4, <1>5, FS_CardinalityType

(* What the requests of P bring is no more than as many of the largest:    *)
(* a byte that one brings to a row is mapped to that request.              *)
LEMMA BroughtBytes ==
  ASSUME NEW fs, NEW c, NEW P \in SUBSET Requests, IsFiniteSet(DOMAIN fs), SizesKnown,
         \A q \in P : Passed(c[q]) => c[q].size \in Size
  PROVE  Cardinality(ChangedBy(fs, c, P)) + Cardinality(ComingBy(c, P))
           <= Cardinality(P) * Largest
<1> DEFINE S == ChangedBy(fs, c, P)
           Who(x) == CHOOSE q \in P : Changing(c[q]) /\ c[q].id = x[1] /\ x[2] <= c[q].size
           T == {x \in P \X (1 .. Largest) : Changing(c[x[1]])}
           N == ComingBy(c, P)
           h == [x \in S |-> <<Who(x), x[2]>>]
<1>0. MaxBytes \in Nat /\ Largest \in Nat /\ IsFiniteSet(P)
  BY QuotaReqsIs, FS_Subset DEF SizesKnown
<1>1. ASSUME NEW x \in S
      PROVE  /\ Who(x) \in P /\ Changing(c[Who(x)]) /\ c[Who(x)].id = x[1] /\ x[2] <= c[Who(x)].size
             /\ x[2] \in 1 .. MaxBytes /\ x = <<x[1], x[2]>>
  <2>1. /\ \E q \in P : Changing(c[q]) /\ c[q].id = x[1] /\ x[2] <= c[q].size
        /\ x \in (DOMAIN fs) \X (1 .. MaxBytes)
    BY DEF ChangedBy
  <2> QED
    BY <2>1
<1>2. ASSUME NEW x \in S
      PROVE  <<Who(x), x[2]>> \in T
  <2>1. /\ Who(x) \in P /\ Changing(c[Who(x)]) /\ x[2] <= c[Who(x)].size
        /\ x[2] \in 1 .. MaxBytes
    BY <1>1
  <2> HIDE DEF Who
  <2>2. c[Who(x)].size \in 1 .. Largest
    BY <2>1 DEF Passed, Size
  <2>3. x[2] \in 1 .. Largest
    BY <1>0, <2>1, <2>2
  <2> QED
    BY <2>1, <2>3
<1>3. \A x, y \in S : <<Who(x), x[2]>> = <<Who(y), y[2]>> => x = y
  <2> SUFFICES ASSUME NEW x \in S, NEW y \in S, <<Who(x), x[2]>> = <<Who(y), y[2]>>
               PROVE  x = y
    OBVIOUS
  <2>1. c[Who(x)].id = x[1] /\ x = <<x[1], x[2]>> /\ c[Who(y)].id = y[1] /\ y = <<y[1], y[2]>>
    BY <1>1
  <2> HIDE DEF Who
  <2>2. Who(x) = Who(y) /\ x[2] = y[2]
    OBVIOUS
  <2> QED
    BY <2>1, <2>2
<1>4. h \in Injection(S, T)
  <2> HIDE DEF S, T, Who
  <2>1. h \in [S -> T]
    BY <1>2
  <2>2. \A x, y \in S : h[x] = h[y] => x = y
    BY <1>3
  <2> QED
    BY <2>1, <2>2 DEF Injection, IsInjective
<1>5. /\ IsFiniteSet(P \X (1 .. Largest))
      /\ Cardinality(P \X (1 .. Largest)) = Cardinality(P) * Largest
  <2>1. IsFiniteSet(1 .. Largest) /\ Cardinality(1 .. Largest) = Largest
    BY FS_Interval DEF SizesKnown
  <2> QED
    BY <1>0, <2>1, FS_Product
<1>6. T \cup N \in SUBSET (P \X (1 .. Largest)) /\ T \cap N = {}
  <2>1. ASSUME NEW x \in N PROVE x \in P \X (1 .. Largest) /\ x \notin T
    <3>1. x \in P \X (1 .. MaxBytes) /\ Coming(c[x[1]]) /\ x[2] <= c[x[1]].size
      BY DEF ComingBy
    <3>2. x[1] \in P /\ x[2] \in 1 .. MaxBytes /\ x = <<x[1], x[2]>>
      BY <3>1
    <3>3. c[x[1]].size \in 1 .. Largest
      BY <3>1, <3>2 DEF Passed, Size
    <3>4. x[2] \in 1 .. Largest
      BY <1>0, <3>1, <3>2, <3>3
    <3>5. ~Changing(c[x[1]])
      BY <3>1 DEF Coming, Changing
    <3> QED
      BY <3>2, <3>4, <3>5
  <2> QED
    BY <2>1
<1>7. IsFiniteSet(T \cup N) /\ IsFiniteSet(T) /\ IsFiniteSet(N)
      /\ Cardinality(T \cup N) <= Cardinality(P) * Largest
  <2> HIDE DEF T, N
  <2>1. T \in SUBSET (P \X (1 .. Largest)) /\ N \in SUBSET (P \X (1 .. Largest))
    BY <1>6
  <2> QED
    BY <1>5, <1>6, <2>1, FS_Subset
<1>8. Cardinality(T \cup N) = Cardinality(T) + Cardinality(N)
  <2> HIDE DEF T, N
  <2>1. Cardinality(T \cup N) = Cardinality(T) + Cardinality(N) - Cardinality({})
    BY <1>6, <1>7, FS_Union
  <2>2. Cardinality({}) = 0 /\ Cardinality(T) \in Nat /\ Cardinality(N) \in Nat
    BY <1>7, FS_EmptySet, FS_CardinalityType
  <2> QED
    BY <2>1, <2>2
<1>9. Cardinality(S) <= Cardinality(T) /\ IsFiniteSet(S)
  <2> HIDE DEF S, T, h
  <2> QED
    BY <1>4, <1>7, FS_Injection
<1>10. Cardinality(S) \in Nat /\ Cardinality(T) \in Nat /\ Cardinality(N) \in Nat
       /\ Cardinality(P) * Largest \in Nat
  <2>1. Cardinality(P) * Largest = Cardinality(P \X (1 .. Largest))
    BY <1>5
  <2>2. Cardinality(P \X (1 .. Largest)) \in Nat
    BY <1>5, FS_CardinalityType
  <2> HIDE DEF S, T, N
  <2> QED
    BY <1>7, <1>9, <2>1, <2>2, FS_CardinalityType
<1> HIDE DEF T
<1> QED
  BY <1>7, <1>8, <1>9, <1>10

(* A set of rows' bytes, a set of files without rows and the largest size  *)
(* for each of the requests that are not in them: there is room for them.  *)
LEMMA RoomFor ==
  ASSUME NEW fs, NEW c, Sized(fs, c), SizesKnown, NEW P \in SUBSET Requests,
         NEW A, IsFiniteSet(A), NEW N, IsFiniteSet(N),
         RowBytes(fs, c) \subseteq A \cup ChangedBy(fs, c, P),
         NewBytes(c) \subseteq N \cup ComingBy(c, P)
  PROVE  Cardinality(RowBytes(fs, c)) + Cardinality(NewBytes(c))
           <= Cardinality(A) + Cardinality(N) + Cardinality(P) * Largest
<1> DEFINE X == ChangedBy(fs, c, P)
           Y == ComingBy(c, P)
<1>1. MaxBytes \in Nat /\ Largest \in Nat /\ IsFiniteSet(P) /\ IsFiniteSet(DOMAIN fs)
  BY QuotaReqsIs, FS_Subset DEF SizesKnown, Sized
<1>2. /\ IsFiniteSet(X) /\ IsFiniteSet(Y)
      /\ Cardinality(RowBytes(fs, c)) \in Nat /\ Cardinality(NewBytes(c)) \in Nat
  BY <1>1, BytesFinite
<1>3. \A q \in P : Passed(c[q]) => c[q].size \in Size
  BY DEF Sized, Passed, Coming, Changing, Active
<1>4. Cardinality(X) + Cardinality(Y) <= Cardinality(P) * Largest
  BY <1>1, <1>3, BroughtBytes
<1> HIDE DEF X, Y
<1>5. IsFiniteSet(A \cup X) /\ IsFiniteSet(N \cup Y)
      /\ Cardinality(A \cup X) = Cardinality(A) + Cardinality(X) - Cardinality(A \cap X)
      /\ Cardinality(N \cup Y) = Cardinality(N) + Cardinality(Y) - Cardinality(N \cap Y)
  BY <1>2, FS_Union
<1>6. IsFiniteSet(A \cap X) /\ IsFiniteSet(N \cap Y)
  BY <1>2, FS_Subset
<1>7. /\ Cardinality(A \cap X) \in Nat /\ Cardinality(N \cap Y) \in Nat
      /\ Cardinality(A) \in Nat /\ Cardinality(N) \in Nat
      /\ Cardinality(X) \in Nat /\ Cardinality(Y) \in Nat
      /\ Cardinality(A \cup X) \in Nat /\ Cardinality(N \cup Y) \in Nat
      /\ Cardinality(P) \in Nat
  BY <1>1, <1>2, <1>5, <1>6, FS_CardinalityType
<1>8. /\ Cardinality(RowBytes(fs, c)) <= Cardinality(A \cup X)
      /\ Cardinality(NewBytes(c)) <= Cardinality(N \cup Y)
  BY <1>5, FS_Subset DEF X, Y
<1> DEFINE k == Cardinality(P) * Largest
<1>9. k \in Nat
  BY <1>1, <1>7
<1>10. Cardinality(X) + Cardinality(Y) <= k
  BY <1>4
<1> HIDE DEF k
<1>11. Cardinality(RowBytes(fs, c)) + Cardinality(NewBytes(c)) <= Cardinality(A) + Cardinality(N) + k
  BY <1>2, <1>5, <1>7, <1>8, <1>9, <1>10
<1> QED
  BY <1>11 DEF k

(* All requests but one, and but two.                                      *)
LEMMA FewerReqs ==
  ASSUME NEW p \in Requests
  PROVE  /\ Cardinality(Requests \ {p}) = QuotaReqs - 1 /\ QuotaReqs \in Nat \ {0}
         /\ \A q \in Requests \ {p} :
              Cardinality(Requests \ {p, q}) = QuotaReqs - 2 /\ QuotaReqs > 1
<1>1. /\ IsFiniteSet(Requests) /\ QuotaReqs \in Nat
  BY QuotaReqsIs
<1>2. /\ IsFiniteSet(Requests \ {p}) /\ Cardinality(Requests \ {p}) = QuotaReqs - 1
      /\ Cardinality(Requests \ {p}) \in Nat
  BY <1>1, FS_RemoveElement, FS_CardinalityType DEF QuotaReqs
<1>3. ASSUME NEW q \in Requests \ {p}
      PROVE  Cardinality(Requests \ {p, q}) = QuotaReqs - 2 /\ QuotaReqs > 1
  <2>1. (Requests \ {p}) \ {q} = Requests \ {p, q}
    OBVIOUS
  <2>2. /\ IsFiniteSet((Requests \ {p}) \ {q})
        /\ Cardinality((Requests \ {p}) \ {q}) = Cardinality(Requests \ {p}) - 1
        /\ Cardinality((Requests \ {p}) \ {q}) \in Nat
    BY <1>2, FS_RemoveElement, FS_CardinalityType
  <2> QED
    BY <1>1, <1>2, <2>1, <2>2
<1> QED
  BY <1>1, <1>2, <1>3

(* A row of a size that is not above s, given s bytes.                     *)
LEMMA RowGrows ==
  ASSUME NEW fs, IsFiniteSet(DOMAIN fs), SizesKnown, NEW f \in DOMAIN fs,
         fs[f].size \in Size, NEW s \in Size, fs[f].size <= s
  PROVE  /\ IsFiniteSet(BytesOf(fs) \cup FileBytes(f, s))
         /\ Cardinality(BytesOf(fs) \cup FileBytes(f, s))
              = Cardinality(BytesOf(fs)) + s - fs[f].size
<1> DEFINE a == fs[f].size
           G == {f} \X (a + 1 .. s)
           B == BytesOf(fs)
<1>1. a \in Nat \ {0} /\ s \in Nat /\ a <= s /\ s <= MaxBytes /\ MaxBytes \in Nat
  BY DEF Size, SizesKnown
<1>2. IsFiniteSet(B) /\ Cardinality(B) \in Nat
  BY <1>1, BytesFinite, QuotaReqsIs
<1>3. IsFiniteSet(G) /\ Cardinality(G) = s - a
  <2> HIDE DEF a
  <2>1. a + 1 \in Nat \ {0} /\ a + 1 <= s + 1 /\ s - (a + 1) + 1 = s - a
    BY <1>1
  <2> QED
    BY <1>1, <2>1, FileBytesAre
<1>4. B \cap G = {}
  <2>1. ASSUME NEW x \in B, x \in G PROVE FALSE
    <3>1. x[2] <= fs[x[1]].size
      BY DEF BytesOf
    <3>2. x[1] = f /\ x[2] \in a + 1 .. s
      BY <2>1
    <3>3. x[2] <= a
      BY <3>1, <3>2
    <3> HIDE DEF a
    <3> QED
      BY <1>1, <3>2, <3>3
  <2> HIDE DEF B, G
  <2> QED
    BY <2>1
<1>5. B \cup FileBytes(f, s) = B \cup G
  <2>1. ASSUME NEW n \in 1 .. s PROVE <<f, n>> \in B \cup G
    <3>1. CASE n <= a
      <4>1. <<f, n>> \in (DOMAIN fs) \X (1 .. MaxBytes)
        BY <1>1
      <4> QED
        BY <3>1, <4>1 DEF BytesOf
    <3>2. CASE n > a
      <4> HIDE DEF a
      <4> QED
        BY <1>1, <3>2
    <3> QED
      BY <1>1, <3>1, <3>2
  <2>2. a + 1 .. s \subseteq 1 .. s
    <3> HIDE DEF a
    <3> QED
      BY <1>1
  <2> HIDE DEF a, B
  <2> QED
    BY <2>1, <2>2 DEF FileBytes
<1>6. IsFiniteSet(B \cup G) /\ Cardinality(B \cup G) = Cardinality(B) + Cardinality(G) - Cardinality({})
  <2> HIDE DEF B, G
  <2> QED
    BY <1>2, <1>3, <1>4, FS_Union
<1>7. Cardinality({}) = 0
  BY FS_EmptySet
<1>8. Cardinality(B \cup G) = Cardinality(B) + s - a
  <2> HIDE DEF a, B, G
  <2> QED
    BY <1>1, <1>2, <1>3, <1>6, <1>7
<1>9. IsFiniteSet(B \cup FileBytes(f, s)) /\ Cardinality(B \cup FileBytes(f, s)) = Cardinality(B) + s - a
  <2> HIDE DEF a, B, G
  <2> QED
    BY <1>5, <1>6, <1>8
<1> QED
  BY <1>9

(* A step after which there are no more bytes to fit.                      *)
LEMMA NoMoreBytes ==
  ASSUME NEW fs, NEW c, NEW gs, NEW d, Sized(fs, c), SizesKnown, WillFit(fs, c),
         RowBytes(gs, d) \subseteq RowBytes(fs, c), NewBytes(d) \subseteq NewBytes(c)
  PROVE  WillFit(gs, d)
<1>1. MaxBytes \in Nat /\ Largest \in Nat /\ IsFiniteSet(DOMAIN fs) /\ QuotaReqs \in Nat
  BY QuotaReqsIs DEF SizesKnown, Sized
<1>2. /\ IsFiniteSet(RowBytes(fs, c)) /\ IsFiniteSet(NewBytes(c))
      /\ Cardinality(RowBytes(fs, c)) \in Nat /\ Cardinality(NewBytes(c)) \in Nat
  BY <1>1, BytesFinite
<1>3. /\ IsFiniteSet(RowBytes(gs, d)) /\ IsFiniteSet(NewBytes(d))
      /\ Cardinality(RowBytes(gs, d)) <= Cardinality(RowBytes(fs, c))
      /\ Cardinality(NewBytes(d)) <= Cardinality(NewBytes(c))
  BY <1>2, FS_Subset
<1>4. Cardinality(RowBytes(gs, d)) \in Nat /\ Cardinality(NewBytes(d)) \in Nat
  BY <1>3, FS_CardinalityType
<1> DEFINE k == QuotaLimit
<1>5. k \in Int
  <2> DEFINE m == (QuotaReqs - 1) * Largest
  <2>1. m \in Int
    BY <1>1
  <2>2. k = MaxBytes + m
    BY DEF QuotaLimit
  <2> HIDE DEF m, k
  <2> QED
    BY <1>1, <2>1, <2>2
<1>6. Cardinality(RowBytes(fs, c)) + Cardinality(NewBytes(c)) <= k
  BY DEF WillFit
<1> HIDE DEF k
<1>7. Cardinality(RowBytes(gs, d)) + Cardinality(NewBytes(d)) <= k
  BY <1>2, <1>3, <1>4, <1>5, <1>6
<1> QED
  BY <1>7 DEF WillFit, k

(* Rows go, or get the size that a replacement is to give them; and one    *)
(* row comes.                                                              *)
RowsChange(fs, gs, r) ==
  /\ DOMAIN gs \subseteq DOMAIN fs
  /\ \A f \in DOMAIN gs : \/ gs[f].size = fs[f].size
                          \/ Changing(r) /\ r.id = f /\ gs[f].size = r.size

NotRead(c, n) == \A q \in Requests : Changing(c[q]) => c[q].id # n
RowAdded(fs, gs, n, size) ==
  /\ n \notin DOMAIN fs /\ DOMAIN gs = DOMAIN fs \cup {n} /\ gs[n].size = size
  /\ \A f \in DOMAIN fs : gs[f].size = fs[f].size

(* A step of one request that brings nothing, or that gives a row the size *)
(* that it was to get.                                                     *)
LEMMA NothingComes ==
  ASSUME NEW fs, NEW c, NEW gs, NEW d, NEW p \in Requests,
         Sized(fs, c), SizesKnown, WillFit(fs, c), \A q \in Requests \ {p} : d[q] = c[q],
         Coming(d[p]) => Coming(c[p]) /\ d[p].size = c[p].size,
         Changing(d[p]) => Changing(c[p]) /\ d[p].id = c[p].id /\ d[p].size = c[p].size,
         RowsChange(fs, gs, c[p])
  PROVE  WillFit(gs, d)
<1> USE DEF RowsChange
<1>1. \A q \in Requests : /\ Coming(d[q]) => Coming(c[q]) /\ d[q].size = c[q].size
                          /\ Changing(d[q]) => /\ Changing(c[q]) /\ d[q].id = c[q].id
                                               /\ d[q].size = c[q].size
  OBVIOUS
<1>2. ASSUME NEW x \in RowBytes(gs, d) PROVE x \in RowBytes(fs, c)
  <2>1. x \in (DOMAIN gs) \X (1 .. MaxBytes)
    BY DEF RowBytes, BytesOf, ChangedBy
  <2>2. x \in (DOMAIN fs) \X (1 .. MaxBytes) /\ x[1] \in DOMAIN gs
    BY <2>1
  <2>3. CASE x[2] <= gs[x[1]].size
    <3>1. CASE gs[x[1]].size = fs[x[1]].size
      <4>1. x[2] <= fs[x[1]].size
        BY <2>3, <3>1
      <4>2. x \in BytesOf(fs)
        BY <2>2, <4>1 DEF BytesOf
      <4> QED
        BY <4>2 DEF RowBytes
    <3>2. CASE Changing(c[p]) /\ c[p].id = x[1] /\ gs[x[1]].size = c[p].size
      <4>1. Changing(c[p]) /\ c[p].id = x[1] /\ x[2] <= c[p].size
        BY <2>3, <3>2
      <4>2. x \in ChangedBy(fs, c, Requests)
        BY <2>2, <4>1 DEF ChangedBy
      <4> QED
        BY <4>2 DEF RowBytes
    <3> QED
      BY <2>2, <3>1, <3>2
  <2>4. CASE \E q \in Requests : Changing(d[q]) /\ d[q].id = x[1] /\ x[2] <= d[q].size
    <3>1. \E q \in Requests : Changing(c[q]) /\ c[q].id = x[1] /\ x[2] <= c[q].size
      BY <1>1, <2>4
    <3> QED
      BY <2>2, <3>1 DEF RowBytes, ChangedBy
  <2> QED
    BY <2>3, <2>4 DEF RowBytes, BytesOf, ChangedBy
<1>3. NewBytes(d) \subseteq NewBytes(c)
  <2> SUFFICES ASSUME NEW x \in NewBytes(d) PROVE x \in NewBytes(c)
    OBVIOUS
  <2>1. x \in Requests \X (1 .. MaxBytes) /\ Coming(d[x[1]]) /\ x[2] <= d[x[1]].size
    BY DEF NewBytes, ComingBy
  <2>2. x[1] \in Requests
    BY <2>1
  <2>3. Coming(c[x[1]]) /\ x[2] <= c[x[1]].size
    BY <1>1, <2>1, <2>2
  <2> QED
    BY <2>1, <2>3 DEF NewBytes, ComingBy
<1> QED
  BY <1>2, <1>3, NoMoreBytes

(* An upload gets its row, under a name that no replacement is at.         *)
LEMMA UploadLands ==
  ASSUME NEW fs, NEW c, NEW gs, NEW d, NEW p \in Requests,
         Sized(fs, c), SizesKnown, WillFit(fs, c), \A q \in Requests \ {p} : d[q] = c[q],
         Coming(c[p]), c[p].size \in Size, ~Passed(d[p]),
         NEW n, NotRead(c, n),
         RowAdded(fs, gs, n, c[p].size)
  PROVE  WillFit(gs, d)
<1> USE DEF RowAdded, NotRead
<1> DEFINE s == c[p].size
           R == RowBytes(fs, c)
           N == NewBytes(d)
<1>1. MaxBytes \in Nat /\ Largest \in Nat /\ IsFiniteSet(DOMAIN fs) /\ QuotaReqs \in Nat
      /\ s \in Nat \ {0} /\ s <= MaxBytes
  BY QuotaReqsIs DEF SizesKnown, Sized, Size
<1>2. /\ IsFiniteSet(R) /\ IsFiniteSet(NewBytes(c)) /\ IsFiniteSet(N)
      /\ Cardinality(R) \in Nat /\ Cardinality(NewBytes(c)) \in Nat /\ Cardinality(N) \in Nat
  BY <1>1, BytesFinite
<1>3. /\ IsFiniteSet(FileBytes(n, s)) /\ Cardinality(FileBytes(n, s)) = s
      /\ IsFiniteSet(FileBytes(p, s)) /\ Cardinality(FileBytes(p, s)) = s
  <2> HIDE DEF s
  <2>1. 1 \in Nat \ {0} /\ s \in Nat /\ 1 <= s + 1 /\ s - 1 + 1 = s
    BY <1>1
  <2> QED
    BY <2>1, WholeFile
<1>4. RowBytes(gs, d) \subseteq R \cup FileBytes(n, s)
  <2> SUFFICES ASSUME NEW x \in RowBytes(gs, d) PROVE x \in R \cup FileBytes(n, s)
    OBVIOUS
  <2>1. x \in (DOMAIN gs) \X (1 .. MaxBytes)
    BY DEF RowBytes, BytesOf, ChangedBy
  <2>2. x[1] \in DOMAIN fs \cup {n} /\ x[2] \in 1 .. MaxBytes /\ x = <<x[1], x[2]>>
    BY <2>1
  <2>3. ASSUME NEW q \in Requests, Changing(d[q]) /\ d[q].id = x[1] /\ x[2] <= d[q].size
        PROVE  Changing(c[q]) /\ c[q].id = x[1] /\ x[2] <= c[q].size
    BY <2>3 DEF Passed
  <2>4. CASE x[1] = n
    <3>1. x[2] <= s
      <4>1. x[2] <= gs[n].size
        BY <2>3, <2>4 DEF RowBytes, BytesOf, ChangedBy
      <4> QED
        BY <4>1
    <3>2. x[2] \in 1 .. s
      <4> HIDE DEF s
      <4> QED
        BY <1>1, <2>2, <3>1
    <3> QED
      BY <2>2, <2>4, <3>2 DEF FileBytes
  <2>5. CASE x[1] # n
    <3>1. x \in (DOMAIN fs) \X (1 .. MaxBytes)
      BY <2>2, <2>5
    <3>2. CASE x[2] <= gs[x[1]].size
      BY <2>2, <2>5, <3>1, <3>2 DEF RowBytes, BytesOf
    <3>3. CASE \E q \in Requests : Changing(d[q]) /\ d[q].id = x[1] /\ x[2] <= d[q].size
      BY <2>3, <3>1, <3>3 DEF RowBytes, ChangedBy
    <3> QED
      BY <3>2, <3>3 DEF RowBytes, BytesOf, ChangedBy
  <2> QED
    BY <2>4, <2>5
<1>5. N \cup FileBytes(p, s) \subseteq NewBytes(c)
  <2>1. ASSUME NEW x \in N PROVE x \in NewBytes(c)
    <3>1. x \in Requests \X (1 .. MaxBytes) /\ Coming(d[x[1]]) /\ x[2] <= d[x[1]].size
      BY DEF NewBytes, ComingBy
    <3>2. x[1] \in Requests \ {p}
      BY <3>1 DEF Passed
    <3>3. d[x[1]] = c[x[1]]
      BY <3>2
    <3> QED
      BY <3>1, <3>3 DEF NewBytes, ComingBy
  <2>2. ASSUME NEW x \in FileBytes(p, s) PROVE x \in NewBytes(c)
    <3>1. x[1] = p /\ x[2] \in 1 .. s /\ x = <<x[1], x[2]>>
      BY DEF FileBytes
    <3>2. x[2] \in 1 .. MaxBytes /\ x[2] <= s
      <4> HIDE DEF s
      <4> QED
        BY <1>1, <3>1
    <3>3. x \in Requests \X (1 .. MaxBytes)
      BY <3>1, <3>2
    <3> QED
      BY <3>1, <3>2, <3>3 DEF NewBytes, ComingBy
  <2> HIDE DEF N
  <2> QED
    BY <2>1, <2>2
<1>6. N \cap FileBytes(p, s) = {}
  <2>1. ASSUME NEW x \in N, x \in FileBytes(p, s) PROVE FALSE
    <3>1. Coming(d[x[1]])
      BY DEF NewBytes, ComingBy
    <3>2. x[1] = p
      BY <2>1 DEF FileBytes
    <3> QED
      BY <3>1, <3>2 DEF Passed
  <2> HIDE DEF N
  <2> QED
    BY <2>1
<1> DEFINE k == QuotaLimit
<1>7. k \in Int
  <2> DEFINE m == (QuotaReqs - 1) * Largest
  <2>1. m \in Int
    BY <1>1
  <2>2. k = MaxBytes + m
    BY DEF QuotaLimit
  <2> HIDE DEF m, k
  <2> QED
    BY <1>1, <2>1, <2>2
<1>8. Cardinality(R) + Cardinality(NewBytes(c)) <= k
  BY DEF WillFit
<1>9. /\ IsFiniteSet(RowBytes(gs, d)) /\ Cardinality(RowBytes(gs, d)) <= Cardinality(R) + s
      /\ Cardinality(RowBytes(gs, d)) \in Nat
  <2> HIDE DEF R, s
  <2>1. /\ IsFiniteSet(R \cup FileBytes(n, s))
        /\ Cardinality(R \cup FileBytes(n, s)) = Cardinality(R) + s - Cardinality(R \cap FileBytes(n, s))
    BY <1>2, <1>3, FS_Union
  <2>2. IsFiniteSet(R \cap FileBytes(n, s)) /\ Cardinality(R \cap FileBytes(n, s)) \in Nat
    BY <1>2, FS_Subset, FS_CardinalityType
  <2>3. /\ IsFiniteSet(RowBytes(gs, d))
        /\ Cardinality(RowBytes(gs, d)) <= Cardinality(R \cup FileBytes(n, s))
        /\ Cardinality(RowBytes(gs, d)) \in Nat
    BY <1>4, <2>1, FS_Subset, FS_CardinalityType
  <2> QED
    BY <1>1, <1>2, <2>1, <2>2, <2>3
<1>10. Cardinality(N) + s <= Cardinality(NewBytes(c))
  <2> HIDE DEF N, s
  <2> DEFINE F == FileBytes(p, s)
  <2>0. IsFiniteSet(N) /\ IsFiniteSet(F) /\ N \cap F = {} /\ Cardinality(F) = s
    BY <1>2, <1>3, <1>6
  <2> HIDE DEF F, R, k
  <2>1. IsFiniteSet(N \cup F) /\ Cardinality(N \cup F) = Cardinality(N) + s - Cardinality({})
    BY <2>0, FS_Union
  <2>2. Cardinality(N \cup F) <= Cardinality(NewBytes(c)) /\ Cardinality({}) = 0
    BY <1>2, <1>5, FS_Subset, FS_EmptySet DEF F
  <2> QED
    BY <1>1, <1>2, <2>1, <2>2
<1>11. Cardinality(RowBytes(gs, d)) + Cardinality(N) <= k
  <2> HIDE DEF N, R, s, k
  <2> QED
    BY <1>1, <1>2, <1>7, <1>8, <1>9, <1>10
<1> QED
  BY <1>11 DEF WillFit

(* The numbers that the limit is made of.                                  *)
LEMMA LimitIs ==
  ASSUME SizesKnown, NEW p \in Requests
  PROVE  /\ QuotaLimit = MaxBytes + Cardinality(Requests \ {p}) * Largest
         /\ \A q \in Requests \ {p} :
              QuotaLimit = MaxBytes + Largest + Cardinality(Requests \ {p, q}) * Largest
         /\ QuotaLimit \in Nat /\ MaxBytes \in Nat /\ Largest \in Nat
         /\ Cardinality(Requests \ {p}) * Largest \in Nat
         /\ \A q \in Requests \ {p} : Cardinality(Requests \ {p, q}) * Largest \in Nat
<1>1. MaxBytes \in Nat /\ Largest \in Nat
  BY DEF SizesKnown
<1>2. Cardinality(Requests \ {p}) = QuotaReqs - 1 /\ QuotaReqs \in Nat \ {0}
  BY FewerReqs
<1>3. ASSUME NEW n \in Nat, NEW m \in Nat PROVE n * m \in Nat /\ (n + 1) * m = m + n * m
  BY <1>3
<1>4. QuotaReqs - 1 \in Nat
  BY <1>2
<1>5. (QuotaReqs - 1) * Largest \in Nat
  BY <1>1, <1>3, <1>4
<1>6. ASSUME NEW q \in Requests \ {p}
      PROVE  /\ QuotaLimit = MaxBytes + Largest + Cardinality(Requests \ {p, q}) * Largest
             /\ Cardinality(Requests \ {p, q}) * Largest \in Nat
  <2>1. Cardinality(Requests \ {p, q}) = QuotaReqs - 2 /\ QuotaReqs > 1
    BY FewerReqs
  <2>2. QuotaReqs - 2 \in Nat /\ QuotaReqs - 1 = (QuotaReqs - 2) + 1
    BY <1>2, <2>1
  <2>3. (QuotaReqs - 1) * Largest = Largest + (QuotaReqs - 2) * Largest
        /\ (QuotaReqs - 2) * Largest \in Nat
    BY <1>1, <1>3, <2>2
  <2> QED
    BY <1>1, <2>1, <2>3 DEF QuotaLimit
<1> QED
  BY <1>1, <1>2, <1>5, <1>6 DEF QuotaLimit

(* When an upload has passed a check that would let it pass now, all that  *)
(* has passed fits.                                                        *)
LEMMA UploadFits ==
  ASSUME NEW fs, NEW c, Sized(fs, c), SizesKnown, NEW p \in Requests, Coming(c[p]),
         Cardinality(BytesOf(fs)) + c[p].size <= MaxBytes
  PROVE  WillFit(fs, c)
<1> DEFINE s == c[p].size
           A == BytesOf(fs)
           N == FileBytes(p, s)
           P == Requests \ {p}
           k == Cardinality(P) * Largest
           x == Cardinality(RowBytes(fs, c))
           y == Cardinality(NewBytes(c))
<1>1. s \in 1 .. Largest /\ MaxBytes \in Nat /\ Largest \in 1 .. MaxBytes /\ IsFiniteSet(DOMAIN fs)
  BY DEF SizesKnown, Sized, Active, Coming, Size
<1>2. s \in Nat /\ s <= MaxBytes
  BY <1>1
<1>3. IsFiniteSet(A) /\ Cardinality(A) \in Nat /\ x \in Nat /\ y \in Nat
  BY <1>1, BytesFinite, QuotaReqsIs
<1>4. IsFiniteSet(N) /\ Cardinality(N) = s
  BY <1>2, WholeFile
<1>5. RowBytes(fs, c) \subseteq A \cup ChangedBy(fs, c, P)
  <2>1. ~Changing(c[p])
    BY DEF Coming, Changing
  <2> QED
    BY <2>1 DEF RowBytes, ChangedBy
<1>6. NewBytes(c) \subseteq N \cup ComingBy(c, P)
  <2> SUFFICES ASSUME NEW z \in NewBytes(c), z \notin ComingBy(c, P) PROVE z \in N
    OBVIOUS
  <2>1. z \in Requests \X (1 .. MaxBytes) /\ Coming(c[z[1]]) /\ z[2] <= c[z[1]].size
    BY DEF NewBytes, ComingBy
  <2>2. z[1] \in Requests /\ z[2] \in 1 .. MaxBytes /\ z = <<z[1], z[2]>>
    BY <2>1
  <2>3. z[1] = p
    <3> SUFFICES ASSUME z[1] # p PROVE FALSE
      OBVIOUS
    <3>1. z \in P \X (1 .. MaxBytes)
      BY <2>2
    <3> HIDE DEF P
    <3> QED
      BY <2>1, <3>1 DEF ComingBy
  <2>4. z[2] <= s
    BY <2>1, <2>3
  <2>5. z[2] \in 1 .. s
    <3> HIDE DEF s
    <3> QED
      BY <1>2, <2>2, <2>4
  <2> QED
    BY <2>2, <2>3, <2>5 DEF FileBytes
<1>7. P \in SUBSET Requests
  OBVIOUS
<1>8. x + y <= Cardinality(A) + Cardinality(N) + k
  <2> HIDE DEF A, N, P
  <2> QED
    BY <1>3, <1>4, <1>5, <1>6, <1>7, RoomFor
<1>9. QuotaLimit = MaxBytes + k /\ k \in Nat /\ MaxBytes \in Nat
  BY LimitIs
<1>10. Cardinality(A) + s <= MaxBytes
  OBVIOUS
<1>11. x + y <= QuotaLimit
  <2> HIDE DEF s, A, N, P, k, x, y
  <2> QED
    BY <1>2, <1>3, <1>4, <1>8, <1>9, <1>10
<1> QED
  BY <1>11 DEF WillFit

(* What a replacement has for its row: the bytes of the rows, with those.  *)
LEMMA RowBytesSplit ==
  ASSUME NEW fs, NEW c, SizesKnown, NEW p \in Requests, Changing(c[p]), c[p].size \in Size,
         c[p].id \in DOMAIN fs
  PROVE  /\ RowBytes(fs, c) \subseteq (BytesOf(fs) \cup FileBytes(c[p].id, c[p].size))
                                       \cup ChangedBy(fs, c, Requests \ {p})
         /\ NewBytes(c) \subseteq {} \cup ComingBy(c, Requests \ {p})
<1>1. ASSUME NEW x \in ChangedBy(fs, c, Requests), x \notin ChangedBy(fs, c, Requests \ {p})
      PROVE  x \in FileBytes(c[p].id, c[p].size)
  <2>1. /\ x \in (DOMAIN fs) \X (1 .. MaxBytes)
        /\ \E q \in Requests : Changing(c[q]) /\ c[q].id = x[1] /\ x[2] <= c[q].size
    BY DEF ChangedBy
  <2>2. c[p].id = x[1] /\ x[2] <= c[p].size
    <3>1. ~ \E q \in Requests \ {p} : Changing(c[q]) /\ c[q].id = x[1] /\ x[2] <= c[q].size
      BY <1>1, <2>1 DEF ChangedBy
    <3> QED
      BY <2>1, <3>1
  <2>3. x[2] \in 1 .. MaxBytes /\ x = <<x[1], x[2]>>
    BY <2>1
  <2>4. x[2] \in 1 .. c[p].size
    BY <2>2, <2>3 DEF Size, SizesKnown
  <2> QED
    BY <2>2, <2>3, <2>4 DEF FileBytes
<1>2. ASSUME NEW x \in NewBytes(c) PROVE x \in ComingBy(c, Requests \ {p})
  <2>1. x \in Requests \X (1 .. MaxBytes) /\ Coming(c[x[1]]) /\ x[2] <= c[x[1]].size
    BY DEF NewBytes, ComingBy
  <2>2. x[1] # p
    BY <2>1 DEF Coming, Changing
  <2>3. x \in (Requests \ {p}) \X (1 .. MaxBytes)
    BY <2>1, <2>2
  <2> QED
    BY <2>1, <2>3 DEF ComingBy
<1> QED
  BY <1>1, <1>2 DEF RowBytes

(* The same of a replacement that gives its row no fewer bytes.            *)
LEMMA ReplacementFits ==
  ASSUME NEW fs, NEW c, Sized(fs, c), SizesKnown, NEW p \in Requests, Changing(c[p]),
         c[p].id \in DOMAIN fs, fs[c[p].id].size <= c[p].size,
         Cardinality(BytesOf(fs)) - fs[c[p].id].size + c[p].size <= MaxBytes
  PROVE  WillFit(fs, c)
<1> DEFINE s == c[p].size
           t == fs[c[p].id].size
           A == BytesOf(fs) \cup FileBytes(c[p].id, s)
           P == Requests \ {p}
           k == Cardinality(P) * Largest
           x == Cardinality(RowBytes(fs, c))
           y == Cardinality(NewBytes(c))
<1>1. /\ s \in Size /\ t \in Size /\ MaxBytes \in Nat /\ Largest \in 1 .. MaxBytes
      /\ IsFiniteSet(DOMAIN fs) /\ t <= s
  BY DEF SizesKnown, Sized, Active, Changing
<1>2. s \in Nat /\ t \in Nat
  BY <1>1 DEF Size
<1>3. Cardinality(BytesOf(fs)) \in Nat /\ x \in Nat /\ y \in Nat
  BY <1>1, BytesFinite, QuotaReqsIs
<1>4. IsFiniteSet(A) /\ Cardinality(A) = Cardinality(BytesOf(fs)) + s - t
  BY <1>1, RowGrows
<1>5. /\ RowBytes(fs, c) \subseteq A \cup ChangedBy(fs, c, P)
      /\ NewBytes(c) \subseteq {} \cup ComingBy(c, P)
  BY <1>1, RowBytesSplit
<1>6. P \in SUBSET Requests /\ IsFiniteSet({}) /\ Cardinality({}) = 0
  BY FS_EmptySet
<1>7. x + y <= Cardinality(A) + Cardinality({}) + k
  <2> HIDE DEF A, P
  <2> QED
    BY <1>4, <1>5, <1>6, RoomFor
<1>8. QuotaLimit = MaxBytes + k /\ k \in Nat
  BY LimitIs
<1>9. Cardinality(BytesOf(fs)) - t + s <= MaxBytes
  OBVIOUS
<1>10. x + y <= QuotaLimit
  <2> HIDE DEF s, t, A, P, k, x, y
  <2> QED
    BY <1>1, <1>2, <1>3, <1>4, <1>6, <1>7, <1>8, <1>9
<1> QED
  BY <1>10 DEF WillFit

(* A replacement that was checked against a larger row fits nevertheless   *)
(* when one of the others has nothing that is not there already.           *)
Spare(fs, r) == \/ ~Passed(r)
                \/ Changing(r) /\ (r.id \in DOMAIN fs => r.size <= fs[r.id].size)

(* What it gained by that is at most the share of the request to spare.    *)
LEMMA StaleFits ==
  ASSUME NEW fs, NEW c, Sized(fs, c), SizesKnown, NEW p \in Requests, Changing(c[p]),
         c[p].id \in DOMAIN fs, fs[c[p].id].size <= c[p].size,
         Cardinality(BytesOf(fs)) - fs[c[p].id].size + c[p].size <= MaxBytes + Largest,
         NEW q \in Requests \ {p}, Spare(fs, c[q])
  PROVE  WillFit(fs, c)
<1> DEFINE s == c[p].size
           t == fs[c[p].id].size
           A == BytesOf(fs) \cup FileBytes(c[p].id, s)
           P == Requests \ {p, q}
           k == Cardinality(P) * Largest
           x == Cardinality(RowBytes(fs, c))
           y == Cardinality(NewBytes(c))
<1>1. /\ s \in Size /\ t \in Size /\ MaxBytes \in Nat /\ Largest \in 1 .. MaxBytes
      /\ IsFiniteSet(DOMAIN fs) /\ t <= s
  BY DEF SizesKnown, Sized, Active, Changing
<1>2. s \in Nat /\ t \in Nat
  BY <1>1 DEF Size
<1>3. Cardinality(BytesOf(fs)) \in Nat /\ x \in Nat /\ y \in Nat
  BY <1>1, BytesFinite, QuotaReqsIs
<1>4. IsFiniteSet(A) /\ Cardinality(A) = Cardinality(BytesOf(fs)) + s - t
  BY <1>1, RowGrows
<1>5. /\ RowBytes(fs, c) \subseteq A \cup ChangedBy(fs, c, Requests \ {p})
      /\ NewBytes(c) \subseteq {} \cup ComingBy(c, Requests \ {p})
  BY <1>1, RowBytesSplit
<1>6. ASSUME NEW z \in ChangedBy(fs, c, Requests \ {p}), z \notin ChangedBy(fs, c, P)
      PROVE  z \in BytesOf(fs)
  <2>1. /\ z \in (DOMAIN fs) \X (1 .. MaxBytes)
        /\ \E o \in Requests \ {p} : Changing(c[o]) /\ c[o].id = z[1] /\ z[2] <= c[o].size
    BY DEF ChangedBy
  <2>2. Changing(c[q]) /\ c[q].id = z[1] /\ z[2] <= c[q].size
    <3>1. ~ \E o \in P : Changing(c[o]) /\ c[o].id = z[1] /\ z[2] <= c[o].size
      <4> HIDE DEF P
      <4> QED
        BY <1>6, <2>1 DEF ChangedBy
    <3> QED
      BY <2>1, <3>1
  <2>3. z[1] \in DOMAIN fs /\ z[2] \in 1 .. MaxBytes
    BY <2>1
  <2>4. c[q].size <= fs[z[1]].size
    BY <2>2, <2>3 DEF Spare, Passed
  <2>5. c[q].size \in Nat /\ fs[z[1]].size \in Nat
    BY <1>1, <2>2, <2>3 DEF Sized, Active, Changing, Size
  <2>6. z[2] <= fs[z[1]].size
    BY <2>2, <2>3, <2>4, <2>5
  <2> QED
    BY <2>1, <2>6 DEF BytesOf
<1>7. ASSUME NEW z \in ComingBy(c, Requests \ {p}) PROVE z \in ComingBy(c, P)
  <2>1. /\ z \in (Requests \ {p}) \X (1 .. MaxBytes) /\ Coming(c[z[1]]) /\ z[2] <= c[z[1]].size
    BY DEF ComingBy
  <2>2. z[1] # q
    BY <2>1 DEF Spare, Passed, Coming, Changing
  <2>3. z \in P \X (1 .. MaxBytes)
    BY <2>1, <2>2
  <2> HIDE DEF P
  <2> QED
    BY <2>1, <2>3 DEF ComingBy
<1>8. /\ RowBytes(fs, c) \subseteq A \cup ChangedBy(fs, c, P)
      /\ NewBytes(c) \subseteq {} \cup ComingBy(c, P)
  <2>1. BytesOf(fs) \subseteq A
    OBVIOUS
  <2> HIDE DEF A, P
  <2> QED
    BY <1>5, <1>6, <1>7, <2>1
<1>9. P \in SUBSET Requests /\ IsFiniteSet({}) /\ Cardinality({}) = 0
  BY FS_EmptySet
<1>10. x + y <= Cardinality(A) + Cardinality({}) + k
  <2> HIDE DEF A, P
  <2> QED
    BY <1>4, <1>8, <1>9, RoomFor
<1>11. QuotaLimit = MaxBytes + Largest + k /\ k \in Nat
  BY LimitIs
<1>12. Cardinality(BytesOf(fs)) - t + s <= MaxBytes + Largest
  OBVIOUS
<1>13. x + y <= QuotaLimit
  <2> HIDE DEF s, t, A, P, k, x, y
  <2> QED
    BY <1>1, <1>2, <1>3, <1>4, <1>9, <1>10, <1>11, <1>12
<1> QED
  BY <1>13 DEF WillFit

(* A replacement passes the check against the row that it read.            *)
LEMMA ReplacementPasses ==
  ASSUME NEW fs, NEW c, NEW d, NEW p \in Requests, SizesKnown,
         Sized(fs, c), Sized(fs, d), WillFit(fs, c), LastIsFresh(fs, c),
         \A q \in Requests \ {p} : d[q] = c[q], c[p].op = "replace", ~Passed(c[p]), Changing(d[p]),
         d[p].id = c[p].id, d[p].size = c[p].size,
         Cardinality(BytesOf(fs)) - c[p].row.size + c[p].size <= MaxBytes
  PROVE  WillFit(fs, d)
<1> DEFINE s == c[p].size
           i == c[p].id
           t == fs[i].size
           o == c[p].row.size
           U == Cardinality(BytesOf(fs))
<1>1. /\ s \in Size /\ o \in Size /\ (i \in DOMAIN fs => t \in Size)
      /\ Largest \in Nat /\ MaxBytes \in Nat /\ U \in Nat
  <2>1. IsFiniteSet(DOMAIN fs) /\ MaxBytes \in Nat
    BY DEF Sized, SizesKnown
  <2>2. U \in Nat
    BY <2>1, BytesFinite, QuotaReqsIs
  <2> QED
    BY <2>1, <2>2 DEF Sized, SizesKnown, Active, Reading
<1>2. U - o + s <= MaxBytes
  OBVIOUS
<1>3. CASE i \in DOMAIN fs => s <= t
  <2>1. ASSUME NEW x \in RowBytes(fs, d) PROVE x \in RowBytes(fs, c)
    <3>1. x \in (DOMAIN fs) \X (1 .. MaxBytes)
      BY DEF RowBytes, BytesOf, ChangedBy
    <3>2. CASE x \in BytesOf(fs)
      BY <3>2 DEF RowBytes
    <3>3. CASE Changing(d[p]) /\ d[p].id = x[1] /\ x[2] <= d[p].size
      <4>1. i = x[1] /\ x[2] <= s /\ i \in DOMAIN fs /\ x[2] \in Nat
        BY <3>1, <3>3
      <4>2. x[2] <= t
        <5>1. s <= t /\ s \in Nat /\ t \in Nat
          BY <1>1, <1>3, <4>1 DEF Size
        <5> HIDE DEF s, t
        <5> QED
          BY <4>1, <5>1
      <4> QED
        BY <3>1, <4>1, <4>2 DEF RowBytes, BytesOf
    <3>4. CASE \E q \in Requests \ {p} : Changing(d[q]) /\ d[q].id = x[1] /\ x[2] <= d[q].size
      BY <3>1, <3>4 DEF RowBytes, ChangedBy
    <3> QED
      BY <3>2, <3>3, <3>4 DEF RowBytes, ChangedBy
  <2>2. NewBytes(d) \subseteq NewBytes(c)
    <3> SUFFICES ASSUME NEW x \in NewBytes(d) PROVE x \in NewBytes(c)
      OBVIOUS
    <3>1. x \in Requests \X (1 .. MaxBytes) /\ Coming(d[x[1]]) /\ x[2] <= d[x[1]].size
      BY DEF NewBytes, ComingBy
    <3>2. x[1] \in Requests \ {p}
      BY <3>1 DEF Coming, Changing
    <3>3. d[x[1]] = c[x[1]]
      BY <3>2
    <3> QED
      BY <3>1, <3>3 DEF NewBytes, ComingBy
  <2> QED
    BY <2>1, <2>2, NoMoreBytes
<1>4. CASE i \in DOMAIN fs /\ t <= s /\ o <= t
  <2>1. U - t + s <= MaxBytes
    <3> HIDE DEF s, t, o, U
    <3> QED
      BY <1>1, <1>2, <1>4 DEF Size
  <2> QED
    BY <1>4, <2>1, ReplacementFits
<1>5. CASE i \in DOMAIN fs /\ t <= s /\ t < o
  <2>1. U - t + s <= MaxBytes + Largest
    <3> HIDE DEF s, t, o, U
    <3> QED
      BY <1>1, <1>2, <1>5 DEF Size
  <2>2. CASE \E q \in Requests \ {p} : Spare(fs, d[q])
    <3>1. PICK q \in Requests \ {p} : Spare(fs, d[q])
      BY <2>2
    <3> QED
      BY <1>5, <2>1, <3>1, StaleFits
  <2>3. CASE \A q \in Requests \ {p} : ~Spare(fs, d[q])
    <3>1. \A q \in Requests : Active(c[q])
      BY <2>3 DEF Active, Spare, Passed, Coming, Changing
    <3>2. PICK q \in Requests : Fresh(c[q], fs)
      BY <3>1 DEF LastIsFresh
    <3>3. q # p
      <4>1. o = t => FALSE
        BY <1>1, <1>5 DEF Size
      <4> QED
        BY <3>2, <4>1 DEF Fresh
    <3>4. d[q] = c[q] /\ ~Spare(fs, c[q]) /\ Passed(c[q])
      BY <2>3, <3>3 DEF Spare
    <3>5. CASE c[q].op = "upload"
      <4>1. Coming(d[q]) /\ U + d[q].size <= MaxBytes
        BY <3>2, <3>4, <3>5 DEF Fresh, Passed, Changing
      <4> QED
        BY <4>1, UploadFits
    <3>6. CASE c[q].op # "upload"
      <4>1. /\ Changing(d[q]) /\ d[q].id \in DOMAIN fs /\ fs[d[q].id].size = d[q].row.size
            /\ U - d[q].row.size + d[q].size <= MaxBytes
        BY <3>2, <3>4, <3>6 DEF Fresh, Passed, Coming
      <4>2. ~(d[q].size <= fs[d[q].id].size)
        BY <3>4, <4>1 DEF Spare
      <4>3. d[q].size \in Size /\ fs[d[q].id].size \in Size
        BY <4>1 DEF Sized, Active, Changing
      <4>4. fs[d[q].id].size <= d[q].size
        BY <4>2, <4>3 DEF Size
      <4> QED
        BY <4>1, <4>4, ReplacementFits
    <3> QED
      BY <3>5, <3>6
  <2> QED
    BY <2>2, <2>3
<1> QED
  BY <1>1, <1>3, <1>4, <1>5 DEF Size

(* Sizes stay sizes.                                                       *)
LEMMA SizedMoves ==
  ASSUME NEW fs, NEW c, NEW gs, NEW d, NEW p \in Requests, Sized(fs, c),
         \A q \in Requests \ {p} : d[q] = c[q],
         Active(d[p]) => d[p].size \in Size, Reading(d[p]) => d[p].row.size \in Size,
         IsFiniteSet(DOMAIN gs), \A f \in DOMAIN gs : gs[f].size \in Size
  PROVE  Sized(gs, d)
BY DEF Sized

(* Somebody is not at it, so nothing is said of the others.                *)
LEMMA NotAllAtIt ==
  ASSUME NEW gs, NEW d, NEW p \in Requests, ~Active(d[p])
  PROVE  LastIsFresh(gs, d)
BY DEF LastIsFresh

(* Nobody else knows the rows less well for a step that leaves them alone. *)
LEMMA FreshStays ==
  ASSUME NEW fs, NEW c, NEW d, NEW p \in Requests, LastIsFresh(fs, c), Active(c[p]),
         \A q \in Requests \ {p} : d[q] = c[q], Fresh(c[p], fs) => Fresh(d[p], fs)
  PROVE  LastIsFresh(fs, d)
<1> SUFFICES ASSUME \A q \in Requests : Active(d[q])
             PROVE  \E q \in Requests : Fresh(d[q], fs)
  BY DEF LastIsFresh
<1>1. \A q \in Requests : Active(c[q])
  OBVIOUS
<1>2. PICK q \in Requests : Fresh(c[q], fs)
  BY <1>1 DEF LastIsFresh
<1>3. CASE q = p
  BY <1>2, <1>3
<1>4. CASE q # p
  <2>1. d[q] = c[q]
    BY <1>4
  <2> QED
    BY <1>2, <2>1
<1> QED
  BY <1>3, <1>4

(* The quota, after a step of a request of another kind, or one that ends  *)
(* a replacement: rows go, or get the size they were to get.               *)
LEMMA QuotaQuiet ==
  ASSUME NEW fs, NEW c, NEW gs, NEW d, NEW p \in Requests, SizesKnown, QuotaInv(fs, c),
         \A q \in Requests \ {p} : d[q] = c[q],
         ~Active(d[p]), Reading(d[p]) => d[p].row.size \in Size,
         RowsChange(fs, gs, c[p])
  PROVE  QuotaInv(gs, d)
<1>1. ~Coming(d[p]) /\ ~Changing(d[p])
  BY DEF Active, Coming, Changing
<1>2. Sized(fs, c) /\ WillFit(fs, c)
  BY DEF QuotaInv
<1>3. WillFit(gs, d)
  <2>1. /\ Coming(d[p]) => Coming(c[p]) /\ d[p].size = c[p].size
        /\ Changing(d[p]) => Changing(c[p]) /\ d[p].id = c[p].id /\ d[p].size = c[p].size
    BY <1>1
  <2> QED
    BY <1>2, <2>1, NothingComes
<1>4. IsFiniteSet(DOMAIN gs)
  BY <1>2, FS_Subset DEF Sized, RowsChange
<1>5. Changing(c[p]) => c[p].size \in Size
  BY <1>2 DEF Sized, Active, Changing
<1>6. \A f \in DOMAIN gs : gs[f].size \in Size
  BY <1>2, <1>5 DEF Sized, RowsChange
<1>7. Sized(gs, d)
  BY <1>2, <1>4, <1>6, SizedMoves
<1>8. LastIsFresh(gs, d)
  BY NotAllAtIt
<1> QED
  BY <1>3, <1>7, <1>8 DEF QuotaInv

(* ..., after it has moved its file, ...                                   *)
LEMMA QuotaGoesOn ==
  ASSUME NEW fs, NEW c, NEW d, NEW p \in Requests, SizesKnown, QuotaInv(fs, c),
         \A q \in Requests \ {p} : d[q] = c[q],
         d[p].op = c[p].op, d[p].id = c[p].id, d[p].size = c[p].size, d[p].row = c[p].row,
         Passed(d[p]), Passed(c[p])
  PROVE  QuotaInv(fs, d)
<1>1. Sized(fs, c) /\ WillFit(fs, c) /\ LastIsFresh(fs, c)
  BY DEF QuotaInv
<1>2. /\ Coming(d[p]) => Coming(c[p])
      /\ Changing(d[p]) => Changing(c[p])
  BY DEF Passed, Coming, Changing
<1>3. WillFit(fs, d)
  <2>1. RowsChange(fs, fs, c[p])
    BY DEF RowsChange
  <2> QED
    BY <1>1, <1>2, <2>1, NothingComes
<1>4. Sized(fs, d)
  BY <1>1 DEF Sized, Active, Reading
<1>5. Active(c[p]) /\ (Fresh(c[p], fs) => Fresh(d[p], fs))
  BY DEF Fresh, Active, Passed, Coming, Changing
<1>6. LastIsFresh(fs, d)
  BY <1>1, <1>5, FreshStays
<1> QED
  BY <1>3, <1>4, <1>6 DEF QuotaInv

(* ..., after it has begun, ...                                            *)
LEMMA QuotaBegins ==
  ASSUME NEW fs, NEW c, NEW d, NEW p \in Requests, SizesKnown, QuotaInv(fs, c),
         \A q \in Requests \ {p} : d[q] = c[q],
         Active(d[p]), d[p].step = "quota", d[p].size \in Size,
         d[p].op = "replace" => d[p].id \in DOMAIN fs /\ d[p].row.size = fs[d[p].id].size
  PROVE  QuotaInv(fs, d)
<1>1. Sized(fs, c) /\ WillFit(fs, c)
  BY DEF QuotaInv
<1>2. ~Coming(d[p]) /\ ~Changing(d[p]) /\ ~Passed(d[p])
  BY DEF Passed, Coming, Changing
<1>3. WillFit(fs, d)
  <2>1. RowsChange(fs, fs, c[p])
    BY DEF RowsChange
  <2> QED
    BY <1>1, <1>2, <2>1, NothingComes
<1>4. Reading(d[p]) => d[p].row.size \in Size
  BY <1>1 DEF Sized, Active, Reading
<1>5. Sized(fs, d)
  BY <1>1, <1>4 DEF Sized
<1>6. Fresh(d[p], fs)
  BY <1>2 DEF Fresh, Active
<1>7. LastIsFresh(fs, d)
  BY <1>6 DEF LastIsFresh
<1> QED
  BY <1>3, <1>5, <1>7 DEF QuotaInv

(* ... and after it has passed the check.                                  *)
LEMMA QuotaPasses ==
  ASSUME NEW fs, NEW c, NEW d, NEW p \in Requests, SizesKnown, QuotaInv(fs, c),
         \A q \in Requests \ {p} : d[q] = c[q],
         d[p].op = c[p].op, d[p].id = c[p].id, d[p].size = c[p].size, d[p].row = c[p].row,
         Passed(d[p]), c[p].step = "quota",
         \/ c[p].op = "upload" /\ Cardinality(BytesOf(fs)) + c[p].size <= MaxBytes
         \/ /\ c[p].op = "replace"
            /\ Cardinality(BytesOf(fs)) - c[p].row.size + c[p].size <= MaxBytes
  PROVE  QuotaInv(fs, d)
<1>1. Sized(fs, c) /\ WillFit(fs, c) /\ LastIsFresh(fs, c)
  BY DEF QuotaInv
<1>2. ~Passed(c[p])
  BY DEF Passed, Coming, Changing
<1>3. Sized(fs, d)
  BY <1>1 DEF Sized, Active, Reading
<1>4. Active(c[p]) /\ (Fresh(c[p], fs) => Fresh(d[p], fs))
  BY DEF Fresh, Active
<1>5. LastIsFresh(fs, d)
  BY <1>1, <1>4, FreshStays
<1>6. CASE c[p].op = "upload"
  <2>1. Coming(d[p])
    BY <1>6 DEF Passed, Changing
  <2>2. Cardinality(BytesOf(fs)) + d[p].size <= MaxBytes
    BY <1>6
  <2>3. WillFit(fs, d)
    BY <1>3, <2>1, <2>2, UploadFits
  <2> QED
    BY <1>3, <1>5, <2>3 DEF QuotaInv
<1>7. CASE c[p].op # "upload"
  <2>1. Changing(d[p]) /\ c[p].op = "replace"
    BY <1>7 DEF Passed, Coming
  <2>2. Cardinality(BytesOf(fs)) - c[p].row.size + c[p].size <= MaxBytes
    BY <1>7
  <2>3. WillFit(fs, d)
    BY <1>1, <1>2, <1>3, <2>1, <2>2, ReplacementPasses
  <2> QED
    BY <1>3, <1>5, <2>3 DEF QuotaInv
<1> QED
  BY <1>6, <1>7

(* ... or an upload has got its row.                                       *)
LEMMA QuotaLands ==
  ASSUME NEW fs, NEW c, NEW gs, NEW d, NEW p \in Requests, SizesKnown, QuotaInv(fs, c),
         \A q \in Requests \ {p} : d[q] = c[q], Coming(c[p]), ~Active(d[p]), ~Reading(d[p]),
         NEW n, NotRead(c, n),
         RowAdded(fs, gs, n, c[p].size)
  PROVE  QuotaInv(gs, d)
<1>1. Sized(fs, c) /\ WillFit(fs, c) /\ c[p].size \in Size /\ ~Passed(d[p])
  BY DEF QuotaInv, Sized, Active, Coming, Passed, Changing
<1>2. WillFit(gs, d)
  BY <1>1, UploadLands
<1>3. IsFiniteSet(DOMAIN gs)
  BY <1>1, FS_AddElement DEF Sized, RowAdded
<1>4. \A f \in DOMAIN gs : gs[f].size \in Size
  BY <1>1 DEF Sized, RowAdded
<1>5. Sized(gs, d)
  BY <1>1, <1>3, <1>4, SizedMoves
<1>6. LastIsFresh(gs, d)
  BY NotAllAtIt
<1> QED
  BY <1>2, <1>5, <1>6 DEF QuotaInv

(* A request's step, and what the invariant says of sizes.                 *)
LEMMA CallMoves ==
  ASSUME PInv, NEW p \in Requests, NEW r, call' = [call EXCEPT ![p] = r]
  PROVE  call'[p] = r /\ \A q \in Requests \ {p} : call'[q] = call[q]
<1>1. call \in [Requests -> CallType]
  BY DEF PInv, Types
<1> QED
  BY <1>1

(* A request that has not begun is not about the quota.                    *)
LEMMA IdleIsQuota == ~Active(Idle) /\ ~Reading(Idle) /\ ~Passed(Idle)
BY IdleIsCall DEF Active, Reading, Passed, Coming, Changing

(* What is in use are the bytes of the rows.                               *)
LEMMA UsageIs == Usage = Cardinality(BytesOf(files))
BY DEF Usage, Bytes, BytesOf

(* The quota, handler by handler.                                          *)
QuotaNow == SizesKnown /\ QuotaInv(files, call)

(* A request that is not about the quota ends or goes on, and rows may go. *)
LEMMA OthersKeepQuota ==
  ASSUME QuotaNow, NEW p \in Requests, \A q \in Requests \ {p} : call'[q] = call[q],
         ~Active(call'[p]), Reading(call'[p]) => call'[p].row.size \in Size,
         DOMAIN files' \subseteq DOMAIN files, \A f \in DOMAIN files' : files'[f] = files[f]
  PROVE  QuotaInv(files', call')
<1>1. SizesKnown /\ QuotaInv(files, call)
  BY DEF QuotaNow
<1>2. RowsChange(files, files', call[p])
  BY DEF RowsChange
<1> QED
  BY <1>1, <1>2, QuotaQuiet

(* Creating a project leaves the rows alone, ...                           *)
LEMMA CreateKeepsQuota ==
  ASSUME PInv, QuotaNow, NEW p \in Requests, Create(p)
  PROVE  QuotaInv(files', call')
<1>1. call[p] \in CallType /\ call \in [Requests -> CallType] /\ files' = files
  BY DEF PInv, Types, Create
<1>2. call'[p].op \in {"create", "idle"} /\ \A q \in Requests \ {p} : call'[q] = call[q]
  <2>1. \/ Starts(p, "create", "insert", 0)
        \/ At(p, "create", "insert") /\ Becomes(p, [call[p] EXCEPT !.step = "index", !.id = made'])
        \/ At(p, "create", "index") /\ Becomes(p, [call[p] EXCEPT !.step = "mkdir", !.dir = NextIndex])
        \/ At(p, "create", "mkdir") /\ Goes(p, "metadata")
        \/ Ends(p)
    BY DEF Create
  <2> QED
    BY ZenonT(40), <1>1, <2>1, IdleIsCall DEF Starts, Becomes, Goes, Ends, At, CallType
<1>3. ~Active(call'[p]) /\ ~Reading(call'[p])
  BY <1>2 DEF Active, Reading
<1> QED
  BY <1>1, <1>2, <1>3, OthersKeepQuota

(* ... deleting one takes rows away, ...                                   *)
LEMMA DeleteKeepsQuota ==
  ASSUME PInv, QuotaNow, NEW p \in Requests, DeleteProject(p)
  PROVE  QuotaInv(files', call')
<1>1. call[p] \in CallType /\ call \in [Requests -> CallType]
  BY DEF PInv, Types
<1>2. call'[p].op \in {"delete", "idle"} /\ \A q \in Requests \ {p} : call'[q] = call[q]
  <2>1. \/ \E i \in projects : Starts(p, "delete", "find", i)
        \/ At(p, "delete", "find") /\ Goes(p, "files")
        \/ At(p, "delete", "find") /\ \E d \in DirsOf(call[p].id) :
              Becomes(p, [call[p] EXCEPT !.step = "rmdir", !.dir = d])
        \/ At(p, "delete", "rmdir") /\ Goes(p, "files")
        \/ At(p, "delete", "files") /\ Goes(p, "project")
        \/ Ends(p)
    BY Zenon DEF DeleteProject
  <2> QED
    BY ZenonT(40), <1>1, <2>1, IdleIsCall DEF Starts, Becomes, Goes, Ends, At, CallType
<1>3. ~Active(call'[p]) /\ ~Reading(call'[p])
  BY <1>2 DEF Active, Reading
<1>4. files' = files \/ files' = Without(files, FilesOf(call[p].id))
  BY Zenon DEF DeleteProject, DropProject
<1>5. DOMAIN files' \subseteq DOMAIN files /\ \A f \in DOMAIN files' : files'[f] = files[f]
  BY <1>4 DEF Without
<1> QED
  BY <1>2, <1>3, <1>5, OthersKeepQuota

(* ... stopping gives up what was checked, ...                             *)
LEMMA StopsKeepsQuota ==
  ASSUME PInv, QuotaNow, NEW p \in Requests, Stops(p)
  PROVE  QuotaInv(files', call')
<1>1. files' = files /\ call' = [call EXCEPT ![p] = Idle]
  BY DEF Stops, Ends, Becomes, tables
<1>2. call'[p] = Idle /\ \A q \in Requests \ {p} : call'[q] = call[q]
  BY <1>1, CallMoves
<1>3. ~Active(call'[p]) /\ ~Reading(call'[p])
  BY <1>2, IdleIsQuota
<1> QED
  BY <1>1, <1>2, <1>3, OthersKeepQuota

(* ... deleting a file takes its row away, ...                             *)
LEMMA DeleteFileKeepsQuota ==
  ASSUME PInv, QuotaNow, NEW p \in Requests, DeleteFile(p)
  PROVE  QuotaInv(files', call')
<1>1. /\ call[p] \in CallType /\ Sized(files, call)
      /\ \A f \in DOMAIN files : f \in Nat /\ files[f] \in RowType
  <2>1. call[p] \in CallType /\ Sized(files, call)
    BY DEF PInv, Types, QuotaNow, QuotaInv
  <2> QED
    BY <2>1, RowsTyped
<1>2. CASE /\ \E f \in DOMAIN files :
                Becomes(p, [Idle EXCEPT !.op = "delfile", !.step = "unlink", !.id = f,
                                        !.row = files[f]])
           /\ files' = files
  <2>1. PICK f \in DOMAIN files :
                Becomes(p, [Idle EXCEPT !.op = "delfile", !.step = "unlink", !.id = f,
                                        !.row = files[f]])
    BY Zenon, <1>2
  <2> DEFINE r == [Idle EXCEPT !.op = "delfile", !.step = "unlink", !.id = f, !.row = files[f]]
  <2>2. call' = [call EXCEPT ![p] = r] /\ r.op = "delfile" /\ r.row = files[f]
    BY <2>1, IdleIsCall DEF Becomes, CallType
  <2> HIDE DEF r
  <2>3. ~Active(r) /\ r.row.size \in Size
    BY <1>1, <2>2 DEF Active, Sized
  <2>4. call'[p] = r /\ \A q \in Requests \ {p} : call'[q] = call[q]
    BY <2>2, CallMoves
  <2>5. ~Active(call'[p]) /\ call'[p].row.size \in Size
    BY <2>3, <2>4
  <2> QED
    BY <1>2, <2>4, <2>5, OthersKeepQuota
<1>3. CASE At(p, "delfile", "unlink") /\ Goes(p, "row") /\ files' = files
  <2> DEFINE r == [call[p] EXCEPT !.step = "row"]
  <2>1. call' = [call EXCEPT ![p] = r] /\ r.op = "delfile" /\ r.row = call[p].row
    BY <1>1, <1>3 DEF At, Goes, Becomes, CallType
  <2> HIDE DEF r
  <2>2. ~Active(r) /\ r.row.size \in Size
    BY <1>1, <1>3, <2>1 DEF Active, Sized, At, Reading
  <2>3. call'[p] = r /\ \A q \in Requests \ {p} : call'[q] = call[q]
    BY <2>1, CallMoves
  <2>4. ~Active(call'[p]) /\ call'[p].row.size \in Size
    BY <2>2, <2>3
  <2> QED
    BY <1>3, <2>3, <2>4, OthersKeepQuota
<1>4. CASE files' = Without(files, {call[p].id}) /\ Ends(p)
  <2>1. DOMAIN files' \subseteq DOMAIN files /\ \A f \in DOMAIN files' : files'[f] = files[f]
    BY <1>4 DEF Without
  <2>2. call' = [call EXCEPT ![p] = Idle]
    BY <1>4 DEF Ends, Becomes
  <2>3. call'[p] = Idle /\ \A q \in Requests \ {p} : call'[q] = call[q]
    BY <2>2, CallMoves
  <2>4. ~Active(call'[p]) /\ ~Reading(call'[p])
    BY <2>3, IdleIsQuota
  <2> QED
    BY <2>1, <2>3, <2>4, OthersKeepQuota
<1> QED
  BY Zenon, <1>2, <1>3, <1>4 DEF DeleteFile

(* ... an upload begins, passes the check, stores its file, gets its row, ...*)
LEMMA UploadKeepsQuota ==
  ASSUME PInv, QuotaNow, NEW p \in Requests, Upload(p)
  PROVE  QuotaInv(files', call')
<1>1. /\ call[p] \in CallType /\ SizesKnown /\ QuotaInv(files, call)
  BY DEF PInv, Types, QuotaNow
<1>2. CASE /\ \E i \in projects : \E d \in DirsOf(i), s \in load.sizes :
                Becomes(p, [Idle EXCEPT !.op = "upload", !.step = "quota", !.id = i,
                                        !.dir = d, !.size = s])
           /\ files' = files
  <2>1. PICK i \in projects : \E d \in DirsOf(i), s \in load.sizes :
                Becomes(p, [Idle EXCEPT !.op = "upload", !.step = "quota", !.id = i,
                                        !.dir = d, !.size = s])
    BY Zenon, <1>2
  <2>2. PICK d \in DirsOf(i), s \in load.sizes :
                Becomes(p, [Idle EXCEPT !.op = "upload", !.step = "quota", !.id = i,
                                        !.dir = d, !.size = s])
    BY Zenon, <2>1
  <2> DEFINE r == [Idle EXCEPT !.op = "upload", !.step = "quota", !.id = i, !.dir = d, !.size = s]
  <2>3. call' = [call EXCEPT ![p] = r] /\ r.op = "upload" /\ r.step = "quota" /\ r.size = s
    BY <2>2, IdleIsCall DEF Becomes, CallType
  <2> HIDE DEF r
  <2>4. call'[p] = r /\ \A q \in Requests \ {p} : call'[q] = call[q]
    BY <2>3, CallMoves
  <2>5. s \in Size
    BY <1>1 DEF SizesKnown, Size
  <2>6. Active(call'[p]) /\ call'[p].step = "quota" /\ call'[p].size \in Size /\ call'[p].op # "replace"
    BY <2>3, <2>4, <2>5 DEF Active
  <2> QED
    BY <1>1, <1>2, <2>4, <2>6, QuotaBegins
<1>3. CASE At(p, "upload", "quota") /\ Fits(Usage, 0, call[p].size) /\ Goes(p, "move") /\ files' = files
  <2> DEFINE r == [call[p] EXCEPT !.step = "move"]
  <2>1. /\ call' = [call EXCEPT ![p] = r] /\ r.op = "upload" /\ r.step = "move"
        /\ r.id = call[p].id /\ r.size = call[p].size /\ r.row = call[p].row
        /\ call[p].op = "upload" /\ call[p].step = "quota"
    BY <1>1, <1>3 DEF Becomes, Goes, At, CallType
  <2> HIDE DEF r
  <2>2. call'[p] = r /\ \A q \in Requests \ {p} : call'[q] = call[q]
    BY <2>1, CallMoves
  <2>3. Cardinality(BytesOf(files)) \in Nat
    BY <1>1, BytesFinite, QuotaReqsIs DEF QuotaInv, Sized, SizesKnown
  <2>4. Cardinality(BytesOf(files)) + call[p].size <= MaxBytes
    <3>1. Usage - 0 + call[p].size <= MaxBytes
      BY <1>3 DEF Fits
    <3> QED
      BY <2>3, <3>1, UsageIs
  <2>5. Passed(call'[p])
    BY <2>1, <2>2 DEF Passed, Coming
  <2> QED
    BY <1>1, <1>3, <2>1, <2>2, <2>4, <2>5, QuotaPasses
<1>4. CASE At(p, "upload", "move") /\ MoveFile(p, call[p].dir, "row") /\ files' = files
  <2> DEFINE r == [call[p] EXCEPT !.step = "row", !.path = [dir |-> call[p].dir, name |-> stored']]
  <2>1. /\ call' = [call EXCEPT ![p] = r] /\ r.op = "upload" /\ r.step = "row"
        /\ r.id = call[p].id /\ r.size = call[p].size /\ r.row = call[p].row
        /\ call[p].op = "upload" /\ call[p].step = "move"
    BY <1>1, <1>4 DEF Becomes, MoveFile, At, CallType
  <2> HIDE DEF r
  <2>2. call'[p] = r /\ \A q \in Requests \ {p} : call'[q] = call[q]
    BY <2>1, CallMoves
  <2>3. Passed(call'[p]) /\ Passed(call[p])
    BY <2>1, <2>2 DEF Passed, Coming
  <2> QED
    BY <1>1, <1>4, <2>1, <2>2, <2>3, QuotaGoesOn
<1>5. CASE /\ At(p, "upload", "row")
           /\ files' = With(files, call[p].path.name,
                            [project |-> call[p].id, size |-> call[p].size, path |-> call[p].path])
           /\ Ends(p)
  <2> DEFINE n == call[p].path.name
             row == [project |-> call[p].id, size |-> call[p].size, path |-> call[p].path]
  <2>1. call' = [call EXCEPT ![p] = Idle] /\ call[p].op = "upload" /\ call[p].step = "row"
    BY <1>5 DEF Ends, Becomes, At
  <2>2. call'[p] = Idle /\ \A q \in Requests \ {p} : call'[q] = call[q]
    BY <2>1, CallMoves
  <2>3. /\ n \notin DOMAIN files
        /\ \A q \in Requests : Reading(call[q]) => call[q].id # n
    BY <2>1 DEF PInv, OneHolder, Storing
  <2>4. NotRead(call, n)
    BY <2>3 DEF Changing, Reading, NotRead
  <2>5. row.size = call[p].size /\ files' = With(files, n, row)
    BY <1>5
  <2> HIDE DEF n, row
  <2>6. RowAdded(files, files', n, call[p].size)
    BY <2>3, <2>5 DEF With, RowAdded
  <2>7. Coming(call[p]) /\ ~Active(call'[p]) /\ ~Reading(call'[p])
    BY <2>1, <2>2, IdleIsQuota DEF Coming
  <2> QED
    BY <1>1, <2>2, <2>4, <2>6, <2>7, QuotaLands
<1> QED
  BY Zenon, <1>2, <1>3, <1>4, <1>5 DEF Upload

(* ... and a replacement does, and changes the row there is.               *)
LEMMA ReplaceKeepsQuota ==
  ASSUME PInv, QuotaNow, NEW p \in Requests, Replace(p)
  PROVE  QuotaInv(files', call')
<1>1. /\ call[p] \in CallType /\ SizesKnown /\ QuotaInv(files, call)
  BY DEF PInv, Types, QuotaNow
<1>2. CASE /\ \E f \in DOMAIN files, s \in load.sizes :
                Becomes(p, [Idle EXCEPT !.op = "replace", !.step = "quota", !.id = f,
                                        !.size = s, !.row = files[f]])
           /\ files' = files
  <2>1. PICK f \in DOMAIN files, s \in load.sizes :
                Becomes(p, [Idle EXCEPT !.op = "replace", !.step = "quota", !.id = f,
                                        !.size = s, !.row = files[f]])
    BY Zenon, <1>2
  <2> DEFINE r == [Idle EXCEPT !.op = "replace", !.step = "quota", !.id = f,
                               !.size = s, !.row = files[f]]
  <2>2. /\ call' = [call EXCEPT ![p] = r] /\ r.op = "replace" /\ r.step = "quota" /\ r.size = s
        /\ r.id = f /\ r.row = files[f]
    BY <2>1, IdleIsCall DEF Becomes, CallType
  <2> HIDE DEF r
  <2>3. call'[p] = r /\ \A q \in Requests \ {p} : call'[q] = call[q]
    BY <2>2, CallMoves
  <2>4. s \in Size
    BY <1>1 DEF SizesKnown, Size
  <2>5. /\ Active(call'[p]) /\ call'[p].step = "quota" /\ call'[p].size \in Size
        /\ call'[p].id \in DOMAIN files /\ call'[p].row.size = files[call'[p].id].size
    BY <2>2, <2>3, <2>4 DEF Active
  <2> QED
    BY <1>1, <1>2, <2>3, <2>5, QuotaBegins
<1>3. CASE /\ At(p, "replace", "quota") /\ Fits(Usage, call[p].row.size, call[p].size)
           /\ Goes(p, "store") /\ files' = files
  <2> DEFINE r == [call[p] EXCEPT !.step = "store"]
  <2>1. /\ call' = [call EXCEPT ![p] = r] /\ r.op = "replace" /\ r.step = "store"
        /\ r.id = call[p].id /\ r.size = call[p].size /\ r.row = call[p].row
        /\ call[p].op = "replace" /\ call[p].step = "quota"
    BY <1>1, <1>3 DEF Becomes, Goes, At, CallType
  <2> HIDE DEF r
  <2>2. call'[p] = r /\ \A q \in Requests \ {p} : call'[q] = call[q]
    BY <2>1, CallMoves
  <2>3. Cardinality(BytesOf(files)) - call[p].row.size + call[p].size <= MaxBytes
    BY <1>3, UsageIs DEF Fits
  <2>4. Passed(call'[p])
    BY <2>1, <2>2 DEF Passed, Changing
  <2> QED
    BY <1>1, <1>3, <2>1, <2>2, <2>3, <2>4, QuotaPasses
<1>4. CASE At(p, "replace", "store") /\ MoveFile(p, call[p].row.path.dir, "unlink") /\ files' = files
  <2> DEFINE r == [call[p] EXCEPT !.step = "unlink",
                                  !.path = [dir |-> call[p].row.path.dir, name |-> stored']]
  <2>1. /\ call' = [call EXCEPT ![p] = r] /\ r.op = "replace" /\ r.step = "unlink"
        /\ r.id = call[p].id /\ r.size = call[p].size /\ r.row = call[p].row
        /\ call[p].op = "replace" /\ call[p].step = "store"
    BY <1>1, <1>4 DEF Becomes, MoveFile, At, CallType
  <2> HIDE DEF r
  <2>2. call'[p] = r /\ \A q \in Requests \ {p} : call'[q] = call[q]
    BY <2>1, CallMoves
  <2>3. Passed(call'[p]) /\ Passed(call[p])
    BY <2>1, <2>2 DEF Passed, Changing
  <2> QED
    BY <1>1, <1>4, <2>1, <2>2, <2>3, QuotaGoesOn
<1>5. CASE At(p, "replace", "unlink") /\ Goes(p, "row") /\ files' = files
  <2> DEFINE r == [call[p] EXCEPT !.step = "row"]
  <2>1. /\ call' = [call EXCEPT ![p] = r] /\ r.op = "replace" /\ r.step = "row"
        /\ r.id = call[p].id /\ r.size = call[p].size /\ r.row = call[p].row
        /\ call[p].op = "replace" /\ call[p].step = "unlink"
    BY <1>1, <1>5 DEF Becomes, Goes, At, CallType
  <2> HIDE DEF r
  <2>2. call'[p] = r /\ \A q \in Requests \ {p} : call'[q] = call[q]
    BY <2>1, CallMoves
  <2>3. Passed(call'[p]) /\ Passed(call[p])
    BY <2>1, <2>2 DEF Passed, Changing
  <2> QED
    BY <1>1, <1>5, <2>1, <2>2, <2>3, QuotaGoesOn
<1>6. CASE At(p, "replace", "row") /\ UpdateFile(call[p].id, call[p].size, call[p].path) /\ Ends(p)
  <2>1. call' = [call EXCEPT ![p] = Idle] /\ call[p].op = "replace" /\ call[p].step = "row"
    BY <1>6 DEF Ends, Becomes, At
  <2>2. call'[p] = Idle /\ \A q \in Requests \ {p} : call'[q] = call[q]
    BY <2>1, CallMoves
  <2>3. Changing(call[p]) /\ ~Active(call'[p]) /\ ~Reading(call'[p])
    BY <2>1, <2>2, IdleIsQuota DEF Changing
  <2>4. \A f \in DOMAIN files : files[f] \in RowType
    BY DEF PInv, Types
  <2>5. /\ DOMAIN files' = DOMAIN files
        /\ \A f \in DOMAIN files : \/ files'[f].size = files[f].size
                                   \/ call[p].id = f /\ files'[f].size = call[p].size
    <3>1. CASE call[p].id \in DOMAIN files
      <4>1. files' = [files EXCEPT ![call[p].id].size = call[p].size, ![call[p].id].path = call[p].path]
        BY <1>6, <3>1 DEF UpdateFile
      <4> QED
        BY <2>4, <3>1, <4>1 DEF RowType
    <3>2. CASE call[p].id \notin DOMAIN files
      BY <1>6, <3>2 DEF UpdateFile
    <3> QED
      BY <3>1, <3>2
  <2>6. RowsChange(files, files', call[p])
    BY <2>3, <2>5 DEF RowsChange
  <2> QED
    BY <1>1, <2>2, <2>3, <2>6, QuotaQuiet
<1> QED
  BY Zenon, <1>2, <1>3, <1>4, <1>5, <1>6 DEF Replace

(* There are finitely many rows: their ids have been drawn.                *)
LEMMA FilesFinite ==
  ASSUME PInv
  PROVE  IsFiniteSet(DOMAIN files)
<1>1. stored \in Nat /\ DOMAIN files \subseteq 0 .. stored
  BY DEF PInv, Types, NamesDrawn, Drawn
<1>2. 0 \in Int /\ stored \in Int
  BY <1>1
<1>3. IsFiniteSet(0 .. stored)
  BY <1>2, FS_Interval
<1> QED
  BY <1>1, <1>3, FS_Subset

(* Nothing is in use at the start.                                         *)
LEMMA QuotaInit == Init => QuotaNow
<1> SUFFICES ASSUME Init PROVE QuotaNow
  OBVIOUS
<1>1. load \in Loads /\ DOMAIN files = {} /\ call = [p \in Requests |-> Idle]
  BY DEF Init
<1>2. SizesKnown
  BY <1>1, SizesAre
<1>3. \A p \in Requests : ~Active(call[p]) /\ ~Reading(call[p]) /\ ~Coming(call[p])
                          /\ ~Changing(call[p])
  BY <1>1, IdleIsQuota DEF Passed
<1>4. Sized(files, call)
  BY <1>1, <1>3, FS_EmptySet DEF Sized
<1>5. LastIsFresh(files, call)
  BY <1>3 DEF LastIsFresh
<1>6. RowBytes(files, call) = {} /\ NewBytes(call) = {}
  BY <1>1, <1>3 DEF RowBytes, BytesOf, ChangedBy, NewBytes, ComingBy
<1>7. Cardinality(RowBytes(files, call)) = 0 /\ Cardinality(NewBytes(call)) = 0
  BY <1>6, FS_EmptySet
<1>8. 0 <= QuotaLimit
  <2>1. CASE Requests = {}
    <3>1. QuotaReqs = 0
      BY <2>1, FS_EmptySet DEF QuotaReqs
    <3>2. QuotaLimit = MaxBytes + (0 - 1) * Largest
      BY <3>1 DEF QuotaLimit
    <3>3. Largest \in 1 .. MaxBytes /\ MaxBytes \in Nat
      BY <1>2 DEF SizesKnown
    <3> QED
      BY <3>2, <3>3
  <2>2. CASE Requests # {}
    <3>1. PICK p \in Requests : TRUE
      BY <2>2
    <3>2. QuotaLimit \in Nat
      BY <1>2, <3>1, LimitIs
    <3> QED
      BY <3>2
  <2> QED
    BY <2>1, <2>2
<1>9. WillFit(files, call)
  BY <1>7, <1>8 DEF WillFit
<1> QED
  BY <1>2, <1>4, <1>5, <1>9 DEF QuotaNow, QuotaInv

(* The quota, with the invariant of rows and files, is kept by every step. *)
LEMMA QuotaStep ==
  ASSUME IInv, QuotaNow, [Next]_vars
  PROVE  QuotaNow'
<1>1. CASE Next
  <2>1. PICK p \in Requests : /\ \/ Create(p) \/ DeleteProject(p) \/ Upload(p) \/ Replace(p)
                                 \/ DeleteFile(p) \/ Stops(p)
                              /\ load' = load
    BY <1>1 DEF Next
  <2>2. PInv
    BY DEF IInv
  <2>3. QuotaInv(files', call')
    BY <2>1, <2>2, CreateKeepsQuota, DeleteKeepsQuota, UploadKeepsQuota, ReplaceKeepsQuota,
       DeleteFileKeepsQuota, StopsKeepsQuota
  <2>4. load' = load
    BY <2>1
  <2>5. QuotaInv(files, call)' /\ SizesKnown'
    BY <2>3, <2>4 DEF QuotaNow, SizesKnown, Largest, QuotaInv, Sized, Size, WillFit, QuotaLimit,
       LastIsFresh
  <2> QED
    BY <2>5 DEF QuotaNow
<1>2. CASE UNCHANGED vars
  <2>1. UNCHANGED <<load, files, call>>
    BY <1>2 DEF vars, tables
  <2> QED
    BY <2>1 DEF QuotaNow, SizesKnown, Largest, QuotaInv, Sized, Size, WillFit, QuotaLimit,
       LastIsFresh
<1> QED
  BY <1>1, <1>2

(* What is in use is part of what will fit.                                *)
LEMMA QuotaNear ==
  ASSUME PInv, QuotaNow
  PROVE  QuotaNearLimit
<1>1. SizesKnown /\ Sized(files, call) /\ WillFit(files, call)
  BY DEF QuotaNow, QuotaInv
<1>2. IsFiniteSet(DOMAIN files) /\ MaxBytes \in Nat /\ Largest \in Nat /\ QuotaReqs \in Nat
  BY <1>1, FilesFinite, QuotaReqsIs DEF SizesKnown
<1>3. /\ IsFiniteSet(RowBytes(files, call))
      /\ Cardinality(RowBytes(files, call)) \in Nat /\ Cardinality(NewBytes(call)) \in Nat
      /\ Cardinality(BytesOf(files)) \in Nat
  BY <1>2, BytesFinite
<1>4. Cardinality(BytesOf(files)) <= Cardinality(RowBytes(files, call))
  BY <1>3, FS_Subset DEF RowBytes
<1> DEFINE k == QuotaLimit
<1>5. k \in Int
  <2> DEFINE m == (QuotaReqs - 1) * Largest
  <2>1. m \in Int
    BY <1>2
  <2>2. k = MaxBytes + m
    BY DEF QuotaLimit
  <2> HIDE DEF m, k
  <2> QED
    BY <1>2, <2>1, <2>2
<1>6. Cardinality(RowBytes(files, call)) + Cardinality(NewBytes(call)) <= k
  BY <1>1 DEF WillFit
<1>7. Usage <= k
  <2> HIDE DEF k
  <2> QED
    BY <1>3, <1>4, <1>5, <1>6, UsageIs
<1> QED
  BY <1>7 DEF k, QuotaLimit, QuotaReqs, Largest, QuotaNearLimit

(* Neither the limit on projects nor the quota is missed by more than the  *)
(* requests that raced: the quota by no more than one of the largest files *)
(* for each other request, for any number of requests, any limits, any     *)
(* sizes and any order in which they are checked, stored, replaced and     *)
(* deleted or stop.                                                        *)
THEOREM LimitsNearHolds == Spec => []LimitsNear
<1>1. Init => IInv /\ QuotaNow
  BY InvariantInit, QuotaInit
<1>2. IInv /\ QuotaNow /\ [Next]_vars => (IInv /\ QuotaNow)'
  BY IInvStep, QuotaStep
<1>3. IInv /\ QuotaNow => QuotaNearLimit
  BY QuotaNear DEF IInv
<1>4. Spec => []QuotaNearLimit
  BY <1>1, <1>2, <1>3, PTL DEF Spec
<1>5. Spec => []ProjectsNearLimit
  BY ProjectsNearLimitHolds
<1>6. ProjectsNearLimit /\ QuotaNearLimit => LimitsNear
  BY DEF LimitsNear
<1> QED
  BY <1>4, <1>5, <1>6, PTL

-----------------------------------------------------------------------------
(***************************************************************************)
(* Site: the start.                                                        *)
(***************************************************************************)
FixSet == {Fixes[k] : k \in DOMAIN Fixes}
IsRename(f) == f.old # "none"

(* LeftBehind, said of the fixes.                                          *)
Fit(cols) ==
  /\ cols \subseteq Columns \cup {f.old : f \in FixSet} /\ "none" \notin cols
  /\ \A f \in FixSet : IsRename(f) => (f.new \in cols <=> f.old \notin cols)
  /\ Columns \ cols \subseteq {f.new : f \in FixSet}

Phases == {"down", "read", "columns", "indexes", "count", "seed", "serving"}

(* Of the fixes still to come this start has a true picture; those behind  *)
(* it are done.                                                            *)
Fixing ==
  phase = "columns" =>
    /\ todo \in Seq(FixSet) /\ IsInjective(todo)
    /\ \A f \in Range(todo) : /\ f.new \in seen <=> f.new \in columns
                              /\ f.old \in seen <=> f.old \in columns
    /\ \A f \in FixSet \ Range(todo) : f.new \in columns /\ f.old \notin columns

Indexing ==
  phase = "indexes" =>
    /\ todo \in Seq(Range(Indexes)) /\ IsInjective(todo)
    /\ \A i \in Range(todo) : i \in seen <=> i \in indexes
    /\ Range(Indexes) \ Range(todo) \subseteq indexes

Seeding ==
  phase = "seed" =>
    /\ todo \in Seq(Range(Seeds)) /\ IsInjective(todo)
    /\ Range(todo) \cap DOMAIN comps = {}

Tabled ==
  /\ phase \in Phases /\ indexes \subseteq Range(Indexes) /\ crashes \in Nat
  /\ (columns = {} /\ phase = "down") \/ Fit(columns)
  /\ phase \in {"indexes", "count", "seed", "serving"} => columns = Columns
  /\ phase \in {"count", "seed", "serving"} => Range(Indexes) \subseteq indexes

StartInv == Tabled /\ Fixing /\ Indexing /\ Seeding

(* What is left after the first of a sequence without duplicates.          *)
LEMMA TodoTail ==
  ASSUME NEW S, NEW s \in Seq(S), IsInjective(s), s # << >>
  PROVE  /\ Head(s) \in Range(s) /\ Head(s) \in S
         /\ Tail(s) \in Seq(S) /\ IsInjective(Tail(s))
         /\ Range(Tail(s)) = Range(s) \ {Head(s)}
<1> DEFINE t == Tail(s)
<1>1. /\ t \in Seq(S) /\ Len(t) = Len(s) - 1 /\ Len(s) \in Nat \ {0}
      /\ \A i \in 1 .. Len(t) : t[i] = s[i + 1]
      /\ Head(s) \in S
  BY HeadTailProperties, EmptySeq
<1>2. DOMAIN s = 1 .. Len(s) /\ DOMAIN t = 1 .. Len(t) /\ Head(s) = s[1]
  BY <1>1
<1> HIDE DEF t
<1>3. \A a, b \in 1 .. Len(s) : s[a] = s[b] => a = b
  BY <1>2 DEF IsInjective
<1>4. IsInjective(t)
  <2> SUFFICES ASSUME NEW a \in 1 .. Len(t), NEW b \in 1 .. Len(t), t[a] = t[b] PROVE a = b
    BY <1>2 DEF IsInjective
  <2>1. a + 1 \in 1 .. Len(s) /\ b + 1 \in 1 .. Len(s) /\ s[a + 1] = s[b + 1]
    BY <1>1
  <2>2. a + 1 = b + 1
    BY <2>1, <1>3
  <2> QED
    BY <2>2
<1>5. Range(s) = {s[i] : i \in 1 .. Len(s)} /\ Range(t) = {t[i] : i \in 1 .. Len(t)}
  BY <1>2 DEF Range
<1>6. ASSUME NEW x \in Range(t) PROVE x \in Range(s) /\ x # Head(s)
  <2>1. PICK i \in 1 .. Len(t) : x = t[i]
    BY <1>5
  <2>2. i + 1 \in 1 .. Len(s) /\ x = s[i + 1] /\ 1 \in 1 .. Len(s) /\ i + 1 # 1
    BY <2>1, <1>1
  <2> QED
    BY <2>2, <1>2, <1>3, <1>5
<1>7. ASSUME NEW x \in Range(s), x # Head(s) PROVE x \in Range(t)
  <2>1. PICK i \in 1 .. Len(s) : x = s[i]
    BY <1>5
  <2>2. i # 1
    BY <2>1, <1>2, <1>7
  <2>3. i - 1 \in 1 .. Len(t) /\ t[i - 1] = s[(i - 1) + 1] /\ (i - 1) + 1 = i
    BY <2>2, <1>1
  <2> QED
    BY <2>1, <2>3, <1>5
<1>8. Head(s) \in Range(s)
  <2>1. 1 \in 1 .. Len(s)
    BY <1>1
  <2> QED
    BY <2>1, <1>2, <1>5
<1> QED
  BY <1>1, <1>4, <1>6, <1>7, <1>8 DEF t

(* The fixes: renames and added columns, no column twice.                  *)
LEMMA FixFacts ==
  /\ Fixes \in Seq([old : OldNames \cup {"none"}, new : Columns]) /\ IsInjective(Fixes) /\ Range(Fixes) = FixSet
  /\ \A f \in FixSet : f.new \in Columns /\ f.old \notin Columns
  /\ \A f, g \in FixSet : f.new = g.new => f = g
  /\ \A f, g \in FixSet : IsRename(f) /\ f.old = g.old => f = g
  /\ \A f \in FixSet : IsRename(f) => \E k \in DOMAIN Renames : f = Renames[k]
  /\ \A k \in DOMAIN Renames : Renames[k] \in FixSet /\ IsRename(Renames[k])
  /\ \A c \in Range(Adds) : \E f \in FixSet : f.new = c /\ ~IsRename(f)
<1> DEFINE late == [k \in 1 .. Len(Adds) |-> [old |-> "none", new |-> Adds[k]]]
           F == [old : OldNames \cup {"none"}, new : Columns]
<1>1. /\ Renames \in Seq([old : OldNames, new : Columns]) /\ Adds \in Seq(Columns)
      /\ \A j, k \in DOMAIN Fixes : Fixes[j].new = Fixes[k].new => j = k
      /\ \A j, k \in DOMAIN Renames : Renames[j].old = Renames[k].old => j = k
      /\ OldNames \cap Columns = {} /\ "none" \notin OldNames \cup Columns
  BY SiteAssumption
<1>2. /\ Len(Renames) \in Nat /\ Len(Adds) \in Nat
      /\ DOMAIN Renames = 1 .. Len(Renames) /\ DOMAIN Adds = 1 .. Len(Adds)
      /\ \A k \in 1 .. Len(Renames) : /\ Renames[k] \in F /\ Renames[k].old # "none"
                                      /\ Renames[k].new \in Columns
      /\ \A k \in 1 .. Len(Adds) : Adds[k] \in Columns
  <2> DEFINE G == [old : OldNames, new : Columns]
  <2>1. \A x \in G : x \in F /\ x.old \in OldNames /\ x.new \in Columns
    OBVIOUS
  <2> HIDE DEF G, F
  <2>2. Renames \in Seq(G) /\ Adds \in Seq(Columns)
    BY <1>1 DEF G
  <2>3. /\ Len(Renames) \in Nat /\ DOMAIN Renames = 1 .. Len(Renames)
        /\ \A k \in 1 .. Len(Renames) : Renames[k] \in G
    BY <2>2, LenProperties, ElementOfSeq
  <2>4. /\ Len(Adds) \in Nat /\ DOMAIN Adds = 1 .. Len(Adds)
        /\ \A k \in 1 .. Len(Adds) : Adds[k] \in Columns
    BY <2>2, LenProperties, ElementOfSeq
  <2> QED
    BY <1>1, <2>1, <2>3, <2>4
<1>3. late \in Seq(F) /\ Len(late) = Len(Adds) /\ \A k \in 1 .. Len(Adds) : late[k] = [old |-> "none", new |-> Adds[k]]
  <2>1. \A k \in 1 .. Len(Adds) : [old |-> "none", new |-> Adds[k]] \in F
    BY <1>2
  <2> HIDE DEF F
  <2> QED
    BY <1>2, <2>1
<1>4. Renames \in Seq(F)
  <2>1. [old : OldNames, new : Columns] \subseteq F
    OBVIOUS
  <2> QED
    BY <2>1, <1>1, SeqMonotonic
<1> HIDE DEF late, F
<1>5. Fixes = Renames \o late
  BY DEF Fixes, late
<1>6. /\ Fixes \in Seq(F) /\ Len(Fixes) = Len(Renames) + Len(Adds)
      /\ \A i \in 1 .. Len(Renames) + Len(Adds) :
           Fixes[i] = IF i <= Len(Renames) THEN Renames[i] ELSE late[i - Len(Renames)]
  <2> DEFINE R == Renames
  <2> HIDE DEF R
  <2>1. /\ R \o late \in Seq(F) /\ Len(R \o late) = Len(R) + Len(late)
        /\ \A i \in 1 .. Len(R) + Len(late) :
             (R \o late)[i] = IF i <= Len(R) THEN R[i] ELSE late[i - Len(R)]
    <3>1. R \in Seq(F) /\ late \in Seq(F)
      BY <1>3, <1>4 DEF R
    <3> QED
      BY <3>1, ConcatProperties
  <2>2. R = Renames /\ R \o late = Fixes /\ Len(late) = Len(Adds)
    BY <1>3, <1>5 DEF R
  <2> QED
    BY <2>1, <2>2
<1>7. DOMAIN Fixes = 1 .. Len(Renames) + Len(Adds)
  BY <1>6
<1>8. Range(Fixes) = FixSet
  BY DEF Range, FixSet
<1>9. ASSUME NEW i \in DOMAIN Fixes
      PROVE  \/ i \in 1 .. Len(Renames) /\ Fixes[i] = Renames[i] /\ Fixes[i].old # "none"
             \/ i - Len(Renames) \in 1 .. Len(Adds) /\ Fixes[i].old = "none" /\ Fixes[i].new = Adds[i - Len(Renames)]
  <2>1. CASE i <= Len(Renames)
    <3>1. i \in 1 .. Len(Renames) + Len(Adds)
      BY <1>7
    <3>2. Fixes[i] = Renames[i]
      BY <2>1, <1>6, <3>1
    <3>3. i \in 1 .. Len(Renames)
      BY <3>1, <2>1, <1>2
    <3>4. Renames[i].old # "none"
      BY <3>3, <1>2
    <3> QED
      BY <3>2, <3>3, <3>4
  <2>2. CASE ~(i <= Len(Renames))
    <3>1. i \in 1 .. Len(Renames) + Len(Adds)
      BY <1>7
    <3>2. Fixes[i] = late[i - Len(Renames)]
      BY <2>2, <1>6, <3>1
    <3>3. i - Len(Renames) \in 1 .. Len(Adds)
      BY <3>1, <2>2, <1>2
    <3>4. late[i - Len(Renames)] = [old |-> "none", new |-> Adds[i - Len(Renames)]]
      BY <3>3, <1>3
    <3> QED
      BY <3>2, <3>3, <3>4
  <2> QED
    BY <2>1, <2>2
<1>10. \A f \in FixSet : f.new \in Columns /\ f.old \notin Columns
  <2> SUFFICES ASSUME NEW i \in DOMAIN Fixes
               PROVE  Fixes[i].new \in Columns /\ Fixes[i].old \notin Columns
    BY DEF FixSet
  <2>1. CASE i \in 1 .. Len(Renames) /\ Fixes[i] = Renames[i]
    <3>1. i \in DOMAIN Renames /\ Renames[i].old \in OldNames
      BY <2>1, <1>2 DEF OldNames
    <3> QED
      BY <3>1, <2>1, <1>1, <1>2
  <2>2. CASE i - Len(Renames) \in 1 .. Len(Adds) /\ Fixes[i].old = "none" /\ Fixes[i].new = Adds[i - Len(Renames)]
    BY <2>2, <1>1, <1>2
  <2> QED
    BY <2>1, <2>2, <1>9
<1>11. \A f, g \in FixSet : f.new = g.new => f = g
  BY <1>1 DEF FixSet
<1>12. \A f \in FixSet : IsRename(f) => \E k \in DOMAIN Renames : f = Renames[k]
  BY <1>2, <1>9 DEF FixSet, IsRename
<1>13. \A k \in DOMAIN Renames : Renames[k] \in FixSet /\ IsRename(Renames[k])
  <2> SUFFICES ASSUME NEW k \in 1 .. Len(Renames) PROVE Renames[k] \in FixSet /\ IsRename(Renames[k])
    BY <1>2
  <2>1. k \in DOMAIN Fixes /\ Fixes[k] = Renames[k]
    BY <1>2, <1>6, <1>7
  <2> QED
    BY <2>1, <1>2 DEF FixSet, IsRename
<1>14. ASSUME NEW f \in FixSet, NEW g \in FixSet, IsRename(f), f.old = g.old PROVE f = g
  <2>1. IsRename(g)
    BY <1>14 DEF IsRename
  <2> QED
    BY <2>1, <1>12, <1>14, <1>1
<1>15. ASSUME NEW c \in Range(Adds) PROVE \E f \in FixSet : f.new = c /\ ~IsRename(f)
  <2>1. PICK k \in 1 .. Len(Adds) : c = Adds[k]
    BY <1>2 DEF Range
  <2>2. Len(Renames) + k \in DOMAIN Fixes /\ Fixes[Len(Renames) + k] = late[k]
    BY <1>2, <1>6, <1>7
  <2>3. Fixes[Len(Renames) + k] \in FixSet
    BY <2>2 DEF FixSet
  <2> QED
    <3>0. late[k] = [old |-> "none", new |-> Adds[k]]
      BY <1>3
    <3>1. late[k].new = c /\ late[k].old = "none"
      BY <2>1, <3>0
    <3> QED
      BY <3>1, <2>2, <2>3 DEF IsRename
<1>16. IsInjective(Fixes)
  BY <1>1 DEF IsInjective
<1> QED
  BY <1>6, <1>8, <1>10, <1>11, <1>12, <1>13, <1>14, <1>15, <1>16 DEF F

(* A table that an earlier version left, or that is new, fits.             *)
LEMMA LeftFits ==
  /\ \A cols : LeftBehind(cols) => Fit(cols)
  /\ Fit(Columns \ AddedLater)
<1>1. "none" \notin OldNames \cup Columns /\ Columns \cap AddedLater \subseteq Range(Adds)
  BY SiteAssumption
<1>2. ASSUME NEW cols, LeftBehind(cols) PROVE Fit(cols)
  <2>1. cols \subseteq Columns \cup {f.old : f \in FixSet} /\ "none" \notin cols
    <3>1. OldNames \subseteq {f.old : f \in FixSet}
      BY FixFacts DEF OldNames
    <3> QED
      BY <3>1, <1>1, <1>2 DEF LeftBehind
  <2>2. \A f \in FixSet : IsRename(f) => (f.new \in cols <=> f.old \notin cols)
    BY <1>2, FixFacts DEF LeftBehind
  <2>3. Columns \ cols \subseteq {f.new : f \in FixSet}
    BY <1>2, FixFacts DEF LeftBehind
  <2> QED
    BY <2>1, <2>2, <2>3 DEF Fit
<1>3. Fit(Columns \ AddedLater)
  <2>1. ASSUME NEW f \in FixSet, IsRename(f) PROVE f.new \notin AddedLater
    <3> SUFFICES ASSUME f.new \in AddedLater PROVE FALSE
      OBVIOUS
    <3>1. f.new \in Range(Adds)
      BY <1>1, FixFacts
    <3>2. PICK g \in FixSet : g.new = f.new /\ ~IsRename(g)
      BY <3>1, FixFacts
    <3>3. g = f
      BY <3>2, FixFacts
    <3> QED
      BY <2>1, <3>2, <3>3
  <2>2. \A c \in Columns \cap AddedLater : c \in {f.new : f \in FixSet}
    BY <1>1, FixFacts
  <2> QED
    BY <1>1, <2>1, <2>2, FixFacts DEF Fit
<1> QED
  BY <1>2, <1>3

(* An installation that starts: a table that is new or that an earlier     *)
(* version left.                                                           *)
LEMMA StartInvInit == SiteInit => StartInv
<1> SUFFICES ASSUME SiteInit PROVE StartInv
  OBVIOUS
<1>1. /\ siteLoad \in SiteLoads /\ phase = "down" /\ columns = siteLoad.columns
      /\ indexes = {} /\ crashes = 0
  BY DEF SiteInit
<1>2. columns = {} \/ LeftBehind(columns)
  BY <1>1, SiteAssumption
<1> QED
  BY <1>1, <1>2, LeftFits DEF StartInv, Tabled, Fixing, Indexing, Seeding, Phases

(* The statements of the start.                                            *)
LEMMA SetupKeeps == StartInv /\ SetupDatabase => StartInv'
<1> SUFFICES ASSUME StartInv, SetupDatabase PROVE StartInv'
  OBVIOUS
<1>1. /\ phase' = "read" /\ indexes' = indexes /\ crashes' = crashes
      /\ columns' = IF columns = {} THEN Columns \ AddedLater ELSE columns
  BY DEF SetupDatabase
<1>2. Fit(columns')
  BY <1>1, LeftFits DEF StartInv, Tabled
<1> QED
  BY <1>1, <1>2 DEF StartInv, Tabled, Fixing, Indexing, Seeding, Phases

(* A fix that is needed can be made, and leaves what fits.                 *)
LEMMA FixFits ==
  ASSUME NEW cols, Fit(cols), NEW f \in FixSet, f.new \notin cols,
         IsRename(f) => f.old \in cols
  PROVE  /\ Fit((cols \ {f.old}) \cup {f.new})
         /\ \A g \in FixSet : g # f =>
              /\ g.new \in (cols \ {f.old}) \cup {f.new} <=> g.new \in cols
              /\ g.old \in (cols \ {f.old}) \cup {f.new} <=> g.old \in cols
<1> DEFINE after == (cols \ {f.old}) \cup {f.new}
<1>1. f.new \in Columns /\ f.old \notin Columns /\ f.new # f.old
  BY FixFacts
<1>2. ASSUME NEW g \in FixSet, g # f
      PROVE  /\ g.new \in after <=> g.new \in cols
             /\ g.old \in after <=> g.old \in cols
  <2>1. g.new # f.new /\ g.new # f.old /\ g.old # f.new
    BY <1>2, FixFacts
  <2>2. g.old = f.old => g.old \notin cols
    <3> SUFFICES ASSUME g.old = f.old PROVE g.old \notin cols
      OBVIOUS
    <3>1. ~IsRename(f)
      BY <1>2, FixFacts
    <3> QED
      BY <3>1 DEF IsRename, Fit
  <2> QED
    BY <2>1, <2>2
<1>3. "none" \notin Columns
  BY SiteAssumption
<1>4. f.new \in after /\ f.old \notin after
  BY <1>1
<1>5. after \subseteq Columns \cup {g.old : g \in FixSet} /\ "none" \notin after
  BY <1>1, <1>3 DEF Fit
<1>6. \A g \in FixSet : IsRename(g) => (g.new \in after <=> g.old \notin after)
  BY <1>2, <1>4 DEF Fit
<1>7. Columns \ after \subseteq {g.new : g \in FixSet}
  BY <1>1 DEF Fit
<1> QED
  BY <1>2, <1>5, <1>6, <1>7 DEF Fit

(* Fixed: with every fix behind it the table is the one the code wants.    *)
LEMMA AllFixed ==
  ASSUME NEW cols, Fit(cols), \A f \in FixSet : f.new \in cols /\ f.old \notin cols
  PROVE  cols = Columns
BY DEF Fit

(* FixSchema at a fix of the columns: one that is needed is made, and the  *)
(* rest of the list is still to come.                                      *)
LEMMA ColumnsKeep ==
  ASSUME StartInv, phase = "columns", todo # << >>,
         LET fix == Head(todo)
         IN  IF ~Needs(fix) THEN UNCHANGED <<columns, phase>>
             ELSE IF fix.new \in columns THEN phase' = "down" /\ UNCHANGED columns
             ELSE columns' = (columns \ {fix.old}) \cup {fix.new} /\ UNCHANGED phase,
         todo' = Tail(todo), UNCHANGED <<indexes, seen, crashes>>
  PROVE  StartInv' /\ phase' = "columns"
<1> DEFINE fix == Head(todo)
<1>1. /\ todo \in Seq(FixSet) /\ IsInjective(todo)
      /\ \A f \in Range(todo) : /\ f.new \in seen <=> f.new \in columns
                                /\ f.old \in seen <=> f.old \in columns
      /\ \A f \in FixSet \ Range(todo) : f.new \in columns /\ f.old \notin columns
      /\ Fit(columns)
  BY DEF StartInv, Fixing, Tabled
<1>2. /\ fix \in Range(todo) /\ fix \in FixSet
      /\ todo' \in Seq(FixSet) /\ IsInjective(todo')
      /\ Range(todo') = Range(todo) \ {fix}
  BY <1>1, TodoTail
<1>3. IF ~Needs(fix) THEN columns' = columns /\ phase' = phase
      ELSE IF fix.new \in columns THEN phase' = "down" /\ columns' = columns
      ELSE columns' = (columns \ {fix.old}) \cup {fix.new} /\ phase' = phase
  OBVIOUS
<1> HIDE DEF fix
<1>4. Needs(fix) <=> fix.new \notin columns /\ (~IsRename(fix) \/ fix.old \in columns)
  BY <1>1, <1>2 DEF Needs, IsRename
<1>5. CASE ~Needs(fix)
  <2>1. columns' = columns /\ phase' = "columns"
    BY <1>3, <1>5
  <2>2. fix.new \in columns
    BY <1>1, <1>2, <1>4, <1>5 DEF Fit
  <2>3. fix.old \notin columns
    BY <1>1, <1>2, <2>2 DEF Fit, IsRename
  <2>4. \A f \in FixSet \ Range(todo') : f.new \in columns /\ f.old \notin columns
    BY <1>1, <1>2, <2>2, <2>3
  <2> QED
    BY <1>1, <1>2, <2>1, <2>4 DEF StartInv, Tabled, Fixing, Indexing, Seeding
<1>6. CASE Needs(fix)
  <2> DEFINE after == (columns \ {fix.old}) \cup {fix.new}
  <2>1. columns' = after /\ phase' = "columns"
    BY <1>3, <1>4, <1>6
  <2>2. /\ Fit(after)
        /\ \A g \in FixSet : g # fix => /\ g.new \in after <=> g.new \in columns
                                        /\ g.old \in after <=> g.old \in columns
    <3>1. fix.new \notin columns /\ (IsRename(fix) => fix.old \in columns)
      BY <1>4, <1>6
    <3>2. Fit(columns) /\ fix \in FixSet
      BY <1>1, <1>2
    <3> HIDE DEF after
    <3>3. after = (columns \ {fix.old}) \cup {fix.new}
      BY DEF after
    <3> QED
      BY <3>1, <3>2, <3>3, FixFits
  <2>3. fix.new \in after /\ fix.old \notin after
    BY <1>2, FixFacts
  <2> HIDE DEF after
  <2>4. \A f \in FixSet \ Range(todo') : f.new \in after /\ f.old \notin after
    <3> SUFFICES ASSUME NEW f \in FixSet, f \notin Range(todo')
                 PROVE  f.new \in after /\ f.old \notin after
      OBVIOUS
    <3>1. CASE f = fix
      BY <3>1, <2>3
    <3>2. CASE f # fix
      <4>1. f \notin Range(todo)
        BY <3>2, <1>2
      <4>2. f.new \in columns /\ f.old \notin columns
        BY <4>1, <1>1
      <4> QED
        BY <4>2, <3>2, <2>2
    <3> QED
      BY <3>1, <3>2
  <2>5. Range(todo') \subseteq FixSet
    BY <1>2, RangeOfSeq
  <2>6. \A f \in Range(todo') : /\ f.new \in seen <=> f.new \in after
                                /\ f.old \in seen <=> f.old \in after
    <3> SUFFICES ASSUME NEW f \in Range(todo')
                 PROVE  /\ f.new \in seen <=> f.new \in after
                        /\ f.old \in seen <=> f.old \in after
      OBVIOUS
    <3>1. f \in FixSet /\ f # fix /\ f \in Range(todo)
      BY <1>2, <2>5
    <3>2. /\ f.new \in seen <=> f.new \in columns
          /\ f.old \in seen <=> f.old \in columns
      BY <3>1, <1>1
    <3> QED
      BY <3>1, <3>2, <2>2
  <2> QED
    BY <1>1, <1>2, <2>1, <2>2, <2>4, <2>6 DEF StartInv, Tabled, Fixing, Indexing, Seeding
<1> QED
  BY <1>5, <1>6

(* FixSchema at an index: one that is missing is made.                     *)
LEMMA IndexesKeep ==
  ASSUME StartInv, phase = "indexes", todo # << >>,
         LET i == Head(todo)
         IN  IF ~NeedsIndex(i) THEN UNCHANGED <<indexes, phase>>
             ELSE IF i \in indexes THEN phase' = "down" /\ UNCHANGED indexes
             ELSE indexes' = indexes \cup {i} /\ UNCHANGED phase,
         todo' = Tail(todo), UNCHANGED <<columns, seen, crashes>>
  PROVE  StartInv' /\ phase' = "indexes"
<1> DEFINE i == Head(todo)
<1>1. /\ todo \in Seq(Range(Indexes)) /\ IsInjective(todo)
      /\ \A j \in Range(todo) : j \in seen <=> j \in indexes
      /\ Range(Indexes) \ Range(todo) \subseteq indexes /\ indexes \subseteq Range(Indexes)
  BY DEF StartInv, Indexing, Tabled
<1>2. /\ i \in Range(todo) /\ i \in Range(Indexes)
      /\ todo' \in Seq(Range(Indexes)) /\ IsInjective(todo')
      /\ Range(todo') = Range(todo) \ {i}
  BY <1>1, TodoTail
<1>3. IF ~NeedsIndex(i) THEN indexes' = indexes /\ phase' = phase
      ELSE IF i \in indexes THEN phase' = "down" /\ indexes' = indexes
      ELSE indexes' = indexes \cup {i} /\ phase' = phase
  OBVIOUS
<1> HIDE DEF i
<1>4. indexes' = indexes \cup {i} /\ phase' = "indexes"
  BY <1>1, <1>2, <1>3 DEF NeedsIndex
<1> QED
  BY <1>1, <1>2, <1>4 DEF StartInv, Tabled, Fixing, Indexing, Seeding

(* FixSchema, at whatever statement it is.                                 *)
LEMMA FixSchemaKeeps == StartInv /\ FixSchema => StartInv' /\ phase' # "down"
<1> SUFFICES ASSUME StartInv, FixSchema PROVE StartInv' /\ phase' # "down"
  OBVIOUS
<1>0. crashes' = crashes /\ comps' = comps
  BY DEF FixSchema, page
<1>1. CASE /\ phase = "read" /\ seen' = columns /\ todo' = Fixes
           /\ phase' = "columns" /\ UNCHANGED schema
  <2>1. Fixes \in Seq(FixSet) /\ IsInjective(Fixes) /\ Range(Fixes) = FixSet
    BY FixFacts, SeqOfRange
  <2>2. columns' = columns /\ indexes' = indexes /\ Fit(columns)
    BY <1>1 DEF schema, StartInv, Tabled
  <2> QED
    BY <1>0, <1>1, <2>1, <2>2 DEF StartInv, Tabled, Fixing, Indexing, Seeding, Phases
<1>2. CASE /\ phase = "columns" /\ todo # << >>
           /\ LET fix == Head(todo)
              IN  IF ~Needs(fix) THEN UNCHANGED <<columns, phase>>
                  ELSE IF fix.new \in columns THEN phase' = "down" /\ UNCHANGED columns
                  ELSE columns' = (columns \ {fix.old}) \cup {fix.new} /\ UNCHANGED phase
           /\ todo' = Tail(todo)
           /\ UNCHANGED <<indexes, seen>>
  BY <1>0, <1>2, ColumnsKeep
<1>3. CASE /\ phase = "columns" /\ todo = << >>
           /\ seen' = indexes /\ todo' = Indexes /\ phase' = "indexes"
           /\ UNCHANGED schema
  <2>1. Range(todo) = {}
    BY <1>3 DEF Range
  <2>2. Fit(columns) /\ \A f \in FixSet : f.new \in columns /\ f.old \notin columns
    BY <1>3, <2>1 DEF StartInv, Fixing, Tabled
  <2>3. columns = Columns
    BY <2>2, AllFixed
  <2>4. Indexes \in Seq(Range(Indexes)) /\ IsInjective(Indexes)
    BY SiteAssumption
  <2>5. columns' = columns /\ indexes' = indexes
    BY <1>3 DEF schema
  <2> QED
    BY <1>0, <1>3, <2>2, <2>3, <2>4, <2>5 DEF StartInv, Tabled, Fixing, Indexing, Seeding, Phases
<1>4. CASE /\ phase = "indexes" /\ todo # << >>
           /\ LET i == Head(todo)
              IN  IF ~NeedsIndex(i) THEN UNCHANGED <<indexes, phase>>
                  ELSE IF i \in indexes THEN phase' = "down" /\ UNCHANGED indexes
                  ELSE indexes' = indexes \cup {i} /\ UNCHANGED phase
           /\ todo' = Tail(todo)
           /\ UNCHANGED <<columns, seen>>
  BY <1>0, <1>4, IndexesKeep
<1>5. CASE /\ phase = "indexes" /\ todo = << >>
           /\ phase' = "count"
           /\ UNCHANGED <<schema, seen, todo>>
  <2>1. Range(todo) = {}
    BY <1>5 DEF Range
  <2>2. Range(Indexes) \subseteq indexes
    BY <1>5, <2>1 DEF StartInv, Indexing
  <2>3. columns' = columns /\ indexes' = indexes
    BY <1>5 DEF schema
  <2> QED
    BY <1>0, <1>5, <2>2, <2>3 DEF StartInv, Tabled, Fixing, Indexing, Seeding, Phases
<1> QED
  BY <1>1, <1>2, <1>3, <1>4, <1>5 DEF FixSchema

(* The statements that seed the components.                                *)
LEMMA SeedKeeps == StartInv /\ SeedComponents => StartInv' /\ phase' # "down"
<1> SUFFICES ASSUME StartInv, SeedComponents PROVE StartInv' /\ phase' # "down"
  OBVIOUS
<1>0. crashes' = crashes /\ columns' = columns /\ indexes' = indexes
  BY DEF SeedComponents, schema
<1>1. CASE phase = "count" /\ todo' = ToSeed /\ phase' = "seed" /\ UNCHANGED comps
  <2>1. ToSeed \in Seq(Range(Seeds)) /\ IsInjective(ToSeed)
    BY SiteAssumption DEF ToSeed, IsInjective
  <2>2. Range(ToSeed) \cap DOMAIN comps = {}
    <3>1. CASE comps = << >>
      BY <3>1
    <3>2. CASE comps # << >>
      BY <3>2 DEF ToSeed, Range
    <3> QED
      BY <3>1, <3>2
  <2> QED
    BY <1>0, <1>1, <2>1, <2>2 DEF StartInv, Tabled, Fixing, Indexing, Seeding, Phases
<1>2. CASE /\ phase = "seed" /\ todo # << >>
           /\ IF Head(todo) \in DOMAIN comps
                THEN phase' = "down" /\ UNCHANGED <<comps, todo>>
                ELSE /\ comps' = [c \in DOMAIN comps \cup {Head(todo)} |->
                                    IF c \in DOMAIN comps THEN comps[c] ELSE "operational"]
                     /\ todo' = Tail(todo) /\ UNCHANGED phase
  <2>1. /\ todo \in Seq(Range(Seeds)) /\ IsInjective(todo)
        /\ Range(todo) \cap DOMAIN comps = {}
    BY <1>2 DEF StartInv, Seeding
  <2>2. /\ Head(todo) \in Range(todo) /\ Tail(todo) \in Seq(Range(Seeds))
        /\ IsInjective(Tail(todo)) /\ Range(Tail(todo)) = Range(todo) \ {Head(todo)}
    BY <1>2, <2>1, TodoTail
  <2>3. Head(todo) \notin DOMAIN comps
    BY <2>1, <2>2
  <2>4. DOMAIN comps' = DOMAIN comps \cup {Head(todo)} /\ todo' = Tail(todo) /\ phase' = "seed"
    BY <1>2, <2>3
  <2>5. Range(todo') \cap DOMAIN comps' = {}
    BY <2>1, <2>2, <2>4
  <2> QED
    BY <1>0, <1>2, <2>2, <2>4, <2>5 DEF StartInv, Tabled, Fixing, Indexing, Seeding, Phases
<1>3. CASE phase = "seed" /\ todo = << >> /\ phase' = "serving" /\ UNCHANGED <<comps, todo>>
  BY <1>0, <1>3 DEF StartInv, Tabled, Fixing, Indexing, Seeding, Phases
<1> QED
  BY <1>1, <1>2, <1>3 DEF SeedComponents

(* A crash leaves the tables as they are, and the start begins again.      *)
LEMMA CrashKeeps == StartInv /\ Crash => StartInv' /\ crashes' > crashes
<1> SUFFICES ASSUME StartInv, Crash PROVE StartInv' /\ crashes' > crashes
  OBVIOUS
<1>1. /\ phase # "down" /\ crashes' = crashes + 1 /\ phase' = "down"
      /\ columns' = columns /\ indexes' = indexes
  BY DEF Crash, schema
<1> QED
  BY <1>1 DEF StartInv, Tabled, Fixing, Indexing, Seeding, Phases

(* The requests leave the start and the tables alone.                      *)
LEMMA PageLeaves ==
  ASSUME NEW p \in SiteRequests,
         CreateIncident(p) \/ AddUpdate(p) \/ ComponentUpdate(p) \/ UpdateComponent(p)
           \/ SiteStops(p)
  PROVE  UNCHANGED <<schema, starting>> /\ (phase # "serving" => comps' = comps)
<1>1. CASE CreateIncident(p)
  BY <1>1 DEF CreateIncident
<1>2. CASE AddUpdate(p)
  BY Zenon, <1>2 DEF AddUpdate, SiteAt, SiteStarts, Serving, page
<1>3. CASE ComponentUpdate(p)
  BY <1>3 DEF ComponentUpdate, Serving
<1>4. CASE UpdateComponent(p)
  BY Zenon, <1>4 DEF UpdateComponent, SiteAt, Serving
<1>5. CASE SiteStops(p)
  BY <1>5 DEF SiteStops, page
<1> QED
  BY <1>1, <1>2, <1>3, <1>4, <1>5

(* The handlers of the status page run on a start that is over.            *)
LEMMA PageKeeps ==
  ASSUME StartInv, UNCHANGED <<schema, starting>>, phase # "serving" => comps' = comps
  PROVE  StartInv'
<1>1. /\ columns' = columns /\ indexes' = indexes /\ phase' = phase /\ seen' = seen
      /\ todo' = todo /\ crashes' = crashes
  BY DEF schema, starting
<1> QED
  BY <1>1 DEF StartInv, Tabled, Fixing, Indexing, Seeding

(* Every step keeps the invariant of the start.                            *)
LEMMA StartInvStep ==
  StartInv /\ [SiteNext]_siteVars =>
    StartInv' /\ (phase' = "down" /\ phase # "down" => crashes' > crashes)
<1> SUFFICES ASSUME StartInv, [SiteNext]_siteVars
             PROVE  StartInv' /\ (phase' = "down" /\ phase # "down" => crashes' > crashes)
  OBVIOUS
<1>1. CASE SetupDatabase
  <2>1. phase = "down"
    BY <1>1 DEF SetupDatabase
  <2> QED
    BY <1>1, <2>1, SetupKeeps
<1>2. CASE FixSchema
  BY <1>2, FixSchemaKeeps
<1>3. CASE SeedComponents
  BY <1>3, SeedKeeps
<1>4. CASE Crash
  BY <1>4, CrashKeeps
<1>5. ASSUME NEW p \in SiteRequests,
             CreateIncident(p) \/ AddUpdate(p) \/ ComponentUpdate(p) \/ UpdateComponent(p)
               \/ SiteStops(p)
      PROVE  StartInv' /\ (phase' = "down" /\ phase # "down" => crashes' > crashes)
  <2>1. UNCHANGED <<schema, starting>> /\ (phase # "serving" => comps' = comps)
    BY <1>5, PageLeaves
  <2>2. phase' = phase
    BY <2>1 DEF starting
  <2> QED
    BY <2>1, <2>2, PageKeeps
<1>6. CASE UNCHANGED siteVars
  <2>1. UNCHANGED <<schema, starting>> /\ comps' = comps
    BY <1>6 DEF siteVars, page
  <2>2. phase' = phase
    BY <2>1 DEF starting
  <2> QED
    BY <2>1, <2>2, PageKeeps
<1> QED
  BY <1>1, <1>2, <1>3, <1>4, <1>5, <1>6 DEF SiteNext, Startup

(* The service comes up with its schema, however often it died.            *)
THEOREM StartsServeHolds == SiteSpec => StartsServe
<1>1. SiteInit => StartInv
  BY StartInvInit
<1>2. StartInv /\ [SiteNext]_siteVars => StartInv'
  BY StartInvStep
<1>3. StartInv => SchemaServes
  BY DEF StartInv, Tabled, SchemaServes, Serving
<1>4. StartInv /\ StartInv' /\ [SiteNext]_siteVars => [ServesStep]_siteVars
  <2> SUFFICES ASSUME StartInv, StartInv', [SiteNext]_siteVars PROVE ServesStep
    OBVIOUS
  <2>1. SchemaServes
    BY <1>3
  <2>2. SchemaServes'
    BY DEF StartInv, Tabled, SchemaServes, Serving
  <2> QED
    BY <2>1, <2>2, StartInvStep DEF ServesStep
<1> QED
  BY <1>1, <1>2, <1>4, PTL DEF SiteSpec, StartsServe

-----------------------------------------------------------------------------
(***************************************************************************)
(* Site: the status page.                                                  *)
(***************************************************************************)
Statuses == {"none", "investigating", "monitoring", "resolved"}
Incident == [status : Statuses, ended : BOOLEAN]
SiteOps == {"idle", "create", "update", "component"}
SiteSteps == {"none", "insert", "history", "item", "status", "ended", "affected", "reset",
              "change", "add", "track"}
CompIds(l) == Range(Seeds) \cup l.comps
ItemsOf(l) == {<< >>} \cup l.comps \X States
SiteCallType(l) == [op : SiteOps, step : SiteSteps, id : Nat, status : Statuses,
                    item : ItemsOf(l), found : SUBSET CompIds(l)]

Announced(h, i) == \E k \in DOMAIN h[i] : h[i][k] = "resolved"

PageTypes ==
  /\ DOMAIN comps \subseteq CompIds(siteLoad)
  /\ incidents \in Seq(Incident) /\ history \in Seq(Seq(Statuses))
  /\ Len(history) = Len(incidents)
  /\ siteCall \in [SiteRequests -> SiteCallType(siteLoad)]

(* A request that is about to record the end has written the announcement; *)
(* one that is about to write a component has one.                         *)
UpdateTrue(r, n, h) ==
  /\ r.op = "update" => r.id \in 1 .. n /\ (r.step = "ended" => Announced(h, r.id))
  /\ r.step \in {"change", "add"} => r.item # << >>

PageInv ==
  /\ PageTypes
  /\ \A p \in SiteRequests : UpdateTrue(siteCall[p], Len(incidents), history)
  /\ \A i \in 1 .. Len(incidents) : incidents[i].ended => Announced(history, i)

(* A request that is idle.                                                 *)
LEMMA SiteIdleIs ==
  ASSUME NEW l
  PROVE  /\ SiteIdle \in SiteCallType(l)
         /\ SiteIdle.op = "idle" /\ SiteIdle.step = "none"
         /\ SiteIdle.item = << >>
<1>1. << >> \in ItemsOf(l) /\ {} \in SUBSET CompIds(l)
  BY DEF ItemsOf
<1> QED
  BY <1>1 DEF SiteIdle, SiteCallType, SiteOps, SiteSteps, Statuses

(* The shapes in which the handlers write a request's state.               *)
AtStep(r, step) == [r EXCEPT !.step = step]
AtStepOf(r, step, id) == [r EXCEPT !.step = step, !.id = id]
AtStepWith(r, step, found) == [r EXCEPT !.step = step, !.found = found]
StillWith(r, found) == [r EXCEPT !.found = found]
Updating(r, id, status, step) == [r EXCEPT !.id = id, !.status = status, !.step = step]
Opened(r, op, item) == [r EXCEPT !.op = op, !.item = item]
OpenedAt(r, op, item, step) == [r EXCEPT !.op = op, !.item = item, !.step = step]

(* A request that goes to a step.                                          *)
LEMMA AtStepIs ==
  ASSUME NEW l, NEW r \in SiteCallType(l),
         NEW step \in SiteSteps
  PROVE  LET x == AtStep(r, step)
         IN  x \in SiteCallType(l) /\ x.op = r.op /\ x.step = step /\ x.id = r.id /\ x.item = r.item
<1> DEFINE I == ItemsOf(l)
           F == SUBSET CompIds(l)
           T == [op : SiteOps, step : SiteSteps, id : Nat, status : Statuses, item : I, found : F]
           x == [r EXCEPT !.step = step]
<1>1. T = SiteCallType(l)
  BY DEF SiteCallType
<1>2. r \in T
  BY DEF SiteCallType
<1> HIDE DEF I, F
<1>3. x \in T /\ x.op = r.op /\ x.step = step /\ x.id = r.id /\ x.item = r.item
  BY <1>2
<1> QED
  BY <1>1, <1>3 DEF AtStep

(* A request that goes to a step about an item.                            *)
LEMMA AtStepOfIs ==
  ASSUME NEW l, NEW r \in SiteCallType(l),
         NEW step \in SiteSteps, NEW id \in Nat
  PROVE  LET x == AtStepOf(r, step, id)
         IN  x \in SiteCallType(l) /\ x.op = r.op /\ x.step = step /\ x.id = id /\ x.item = r.item
<1> DEFINE I == ItemsOf(l)
           F == SUBSET CompIds(l)
           T == [op : SiteOps, step : SiteSteps, id : Nat, status : Statuses, item : I, found : F]
           x == [r EXCEPT !.step = step, !.id = id]
<1>1. T = SiteCallType(l)
  BY DEF SiteCallType
<1>2. r \in T
  BY DEF SiteCallType
<1> HIDE DEF I, F
<1>3. x \in T /\ x.op = r.op /\ x.step = step /\ x.id = id /\ x.item = r.item
  BY <1>2
<1> QED
  BY <1>1, <1>3 DEF AtStepOf

(* A request that goes to a step with what it has read.                    *)
LEMMA AtStepWithIs ==
  ASSUME NEW l, NEW r \in SiteCallType(l),
         NEW step \in SiteSteps, NEW found \in SUBSET CompIds(l)
  PROVE  LET x == AtStepWith(r, step, found)
         IN  x \in SiteCallType(l) /\ x.op = r.op /\ x.step = step /\ x.id = r.id /\ x.item = r.item
<1> DEFINE I == ItemsOf(l)
           F == SUBSET CompIds(l)
           T == [op : SiteOps, step : SiteSteps, id : Nat, status : Statuses, item : I, found : F]
           x == [r EXCEPT !.step = step, !.found = found]
<1>1. T = SiteCallType(l)
  BY DEF SiteCallType
<1>2. r \in T /\ found \in F
  BY DEF SiteCallType
<1> HIDE DEF I, F
<1>3. x \in T /\ x.op = r.op /\ x.step = step /\ x.id = r.id /\ x.item = r.item
  BY <1>2
<1> QED
  BY <1>1, <1>3 DEF AtStepWith

(* A request that keeps what it has read and goes to a step.               *)
LEMMA StillWithIs ==
  ASSUME NEW l, NEW r \in SiteCallType(l),
         NEW found \in SUBSET CompIds(l)
  PROVE  LET x == StillWith(r, found)
         IN  x \in SiteCallType(l) /\ x.op = r.op /\ x.step = r.step /\ x.id = r.id /\ x.item = r.item
<1> DEFINE I == ItemsOf(l)
           F == SUBSET CompIds(l)
           T == [op : SiteOps, step : SiteSteps, id : Nat, status : Statuses, item : I, found : F]
           x == [r EXCEPT !.found = found]
<1>1. T = SiteCallType(l)
  BY DEF SiteCallType
<1>2. r \in T /\ found \in F
  BY DEF SiteCallType
<1> HIDE DEF I, F
<1>3. x \in T /\ x.op = r.op /\ x.step = r.step /\ x.id = r.id /\ x.item = r.item
  BY <1>2
<1> QED
  BY <1>1, <1>3 DEF StillWith

(* A request that is about to write an update.                             *)
LEMMA UpdatingIs ==
  ASSUME NEW l, NEW r \in SiteCallType(l),
         NEW id \in Nat, NEW status \in Statuses, NEW step \in SiteSteps
  PROVE  LET x == Updating(r, id, status, step)
         IN  x \in SiteCallType(l) /\ x.op = r.op /\ x.step = step /\ x.id = id /\ x.item = r.item
<1> DEFINE I == ItemsOf(l)
           F == SUBSET CompIds(l)
           T == [op : SiteOps, step : SiteSteps, id : Nat, status : Statuses, item : I, found : F]
           x == [r EXCEPT !.id = id, !.status = status, !.step = step]
<1>1. T = SiteCallType(l)
  BY DEF SiteCallType
<1>2. r \in T
  BY DEF SiteCallType
<1> HIDE DEF I, F
<1>3. x \in T /\ x.op = r.op /\ x.step = step /\ x.id = id /\ x.item = r.item
  BY <1>2
<1> QED
  BY <1>1, <1>3 DEF Updating

(* A request that opens an incident.                                       *)
LEMMA OpenedIs ==
  ASSUME NEW l, NEW r \in SiteCallType(l),
         NEW op \in SiteOps, NEW item \in ItemsOf(l)
  PROVE  LET x == Opened(r, op, item)
         IN  x \in SiteCallType(l) /\ x.op = op /\ x.step = r.step /\ x.id = r.id /\ x.item = item
<1> DEFINE I == ItemsOf(l)
           F == SUBSET CompIds(l)
           T == [op : SiteOps, step : SiteSteps, id : Nat, status : Statuses, item : I, found : F]
           x == [r EXCEPT !.op = op, !.item = item]
<1>1. T = SiteCallType(l)
  BY DEF SiteCallType
<1>2. r \in T /\ item \in I
  BY DEF SiteCallType
<1> HIDE DEF I, F
<1>3. x \in T /\ x.op = op /\ x.step = r.step /\ x.id = r.id /\ x.item = item
  BY <1>2
<1> QED
  BY <1>1, <1>3 DEF Opened

(* A request that opens an incident at a step.                             *)
LEMMA OpenedAtIs ==
  ASSUME NEW l, NEW r \in SiteCallType(l),
         NEW op \in SiteOps, NEW item \in ItemsOf(l), NEW step \in SiteSteps
  PROVE  LET x == OpenedAt(r, op, item, step)
         IN  x \in SiteCallType(l) /\ x.op = op /\ x.step = step /\ x.id = r.id /\ x.item = item
<1> DEFINE I == ItemsOf(l)
           F == SUBSET CompIds(l)
           T == [op : SiteOps, step : SiteSteps, id : Nat, status : Statuses, item : I, found : F]
           x == [r EXCEPT !.op = op, !.item = item, !.step = step]
<1>1. T = SiteCallType(l)
  BY DEF SiteCallType
<1>2. r \in T /\ item \in I
  BY DEF SiteCallType
<1> HIDE DEF I, F
<1>3. x \in T /\ x.op = op /\ x.step = step /\ x.id = r.id /\ x.item = item
  BY <1>2
<1> QED
  BY <1>1, <1>3 DEF OpenedAt

(* A request's step: what it must leave true.                              *)
LEMMA PageStep ==
  ASSUME PageInv, NEW p \in SiteRequests, NEW r \in SiteCallType(siteLoad),
         siteCall' = [siteCall EXCEPT ![p] = r], siteLoad' = siteLoad,
         DOMAIN comps' \subseteq CompIds(siteLoad),
         incidents' \in Seq(Incident), history' \in Seq(Seq(Statuses)),
         Len(history') = Len(incidents'), Len(incidents) <= Len(incidents'),
         \A i \in 1 .. Len(incidents) : Announced(history, i) => Announced(history', i),
         UpdateTrue(r, Len(incidents'), history'),
         \A i \in 1 .. Len(incidents') : incidents'[i].ended => Announced(history', i)
  PROVE  PageInv'
<1>1. /\ siteCall \in [SiteRequests -> SiteCallType(siteLoad)]
      /\ \A q \in SiteRequests : UpdateTrue(siteCall[q], Len(incidents), history)
      /\ Len(incidents) \in Nat /\ Len(incidents') \in Nat
  BY DEF PageInv, PageTypes
<1>2. /\ siteCall' \in [SiteRequests -> SiteCallType(siteLoad)]
      /\ \A q \in SiteRequests : siteCall'[q] = IF q = p THEN r ELSE siteCall[q]
  BY <1>1
<1>3. PageTypes'
  BY <1>2 DEF PageTypes
<1>4. \A q \in SiteRequests : UpdateTrue(siteCall'[q], Len(incidents'), history')
  <2> SUFFICES ASSUME NEW q \in SiteRequests
               PROVE  UpdateTrue(siteCall'[q], Len(incidents'), history')
    OBVIOUS
  <2>1. CASE q = p
    BY <2>1, <1>2
  <2>2. CASE q # p
    <3>1. siteCall'[q] = siteCall[q] /\ UpdateTrue(siteCall[q], Len(incidents), history)
      BY <2>2, <1>1, <1>2
    <3> QED
      BY <3>1, <1>1 DEF UpdateTrue
  <2> QED
    BY <2>1, <2>2
<1> QED
  BY <1>3, <1>4 DEF PageInv

(* The same, where no incident and no history entry is written.            *)
LEMMA QuietPage ==
  ASSUME PageInv, NEW p \in SiteRequests, NEW r \in SiteCallType(siteLoad),
         siteCall' = [siteCall EXCEPT ![p] = r], siteLoad' = siteLoad,
         DOMAIN comps' \subseteq CompIds(siteLoad),
         incidents' = incidents, history' = history,
         UpdateTrue(r, Len(incidents), history)
  PROVE  PageInv'
<1>1. /\ incidents \in Seq(Incident) /\ history \in Seq(Seq(Statuses))
      /\ Len(history) = Len(incidents) /\ Len(incidents) \in Nat
      /\ \A i \in 1 .. Len(incidents) : incidents[i].ended => Announced(history, i)
  BY DEF PageInv, PageTypes
<1>2. /\ incidents' \in Seq(Incident) /\ history' \in Seq(Seq(Statuses))
      /\ Len(history') = Len(incidents') /\ Len(incidents) <= Len(incidents')
      /\ \A i \in 1 .. Len(incidents) : Announced(history, i) => Announced(history', i)
      /\ UpdateTrue(r, Len(incidents'), history')
      /\ \A i \in 1 .. Len(incidents') : incidents'[i].ended => Announced(history', i)
  BY <1>1
<1> QED
  BY <1>2, PageStep

(* At the start there is no item and no request.                           *)
LEMMA PageInvInit == SiteInit => PageInv
<1> SUFFICES ASSUME SiteInit PROVE PageInv
  OBVIOUS
<1>1. /\ siteCall = [p \in SiteRequests |-> SiteIdle] /\ comps = << >>
      /\ incidents = << >> /\ history = << >>
  BY DEF SiteInit
<1>2. siteCall \in [SiteRequests -> SiteCallType(siteLoad)] /\ \A p \in SiteRequests : siteCall[p] = SiteIdle
  BY <1>1, SiteIdleIs
<1>3. incidents \in Seq(Incident) /\ history \in Seq(Seq(Statuses)) /\ Len(incidents) = 0 /\ Len(history) = 0
  BY <1>1
<1>4. DOMAIN comps = {}
  BY <1>1
<1> QED
  BY <1>2, <1>3, <1>4, SiteIdleIs DEF PageInv, PageTypes, UpdateTrue

(* More in one entry's history, and a new incident without any: what was    *)
(* announced stays so.                                                     *)
LEMMA EntryComes ==
  ASSUME NEW h \in Seq(Seq(Statuses)), NEW n \in 1 .. Len(h), NEW s \in Statuses
  PROVE  /\ [h EXCEPT ![n] = Append(@, s)] \in Seq(Seq(Statuses))
         /\ Len([h EXCEPT ![n] = Append(@, s)]) = Len(h)
         /\ \A i \in 1 .. Len(h) : Announced(h, i) => Announced([h EXCEPT ![n] = Append(@, s)], i)
         /\ s = "resolved" => Announced([h EXCEPT ![n] = Append(@, s)], n)
<1> DEFINE e == Append(h[n], s)
           g == [h EXCEPT ![n] = e]
<1>1. h[n] \in Seq(Statuses) /\ Len(h[n]) \in Nat /\ DOMAIN h[n] = 1 .. Len(h[n])
  BY ElementOfSeq, LenProperties
<1>2. /\ e \in Seq(Statuses) /\ Len(e) = Len(h[n]) + 1
      /\ \A i \in 1 .. Len(h[n]) : e[i] = h[n][i]
      /\ e[Len(h[n]) + 1] = s
  BY <1>1, AppendProperties
<1>3. DOMAIN e = 1 .. Len(h[n]) + 1
  BY <1>2, LenProperties
<1> HIDE DEF e
<1>4. /\ g \in Seq(Seq(Statuses)) /\ Len(g) = Len(h)
      /\ \A j \in 1 .. Len(h) : g[j] = IF j = n THEN e ELSE h[j]
  BY <1>2, ExceptSeq
<1>5. g = [h EXCEPT ![n] = Append(@, s)]
  BY DEF e
<1> HIDE DEF g
<1>6. ASSUME NEW i \in 1 .. Len(h), Announced(h, i) PROVE Announced(g, i)
  <2>1. CASE i # n
    BY <2>1, <1>4, <1>6 DEF Announced
  <2>2. CASE i = n
    <3>1. PICK k \in 1 .. Len(h[n]) : h[n][k] = "resolved"
      BY <2>2, <1>1, <1>6 DEF Announced
    <3>2. k \in DOMAIN e /\ e[k] = "resolved"
      BY <3>1, <1>1, <1>2, <1>3
    <3> QED
      BY <3>2, <2>2, <1>4 DEF Announced
  <2> QED
    BY <2>1, <2>2
<1>7. s = "resolved" => Announced(g, n)
  <2>1. Len(h[n]) + 1 \in DOMAIN e /\ e[Len(h[n]) + 1] = s
    BY <1>1, <1>2, <1>3
  <2> QED
    BY <2>1, <1>4 DEF Announced
<1> QED
  BY <1>4, <1>5, <1>6, <1>7

(* create_incident, at each of its statements.                             *)
LEMMA CreateIncidentKeeps ==
  ASSUME PageInv, NEW p \in SiteRequests, CreateIncident(p), siteLoad' = siteLoad
  PROVE  PageInv'
<1>0. /\ incidents \in Seq(Incident) /\ history \in Seq(Seq(Statuses))
      /\ Len(history) = Len(incidents) /\ Len(incidents) \in Nat
      /\ siteCall[p] \in SiteCallType(siteLoad)
      /\ DOMAIN comps' \subseteq CompIds(siteLoad)
      /\ \A i \in 1 .. Len(incidents) : incidents[i].ended => Announced(history, i)
  BY DEF PageInv, PageTypes, CreateIncident
<1>1. CASE /\ SiteStarts(p, "create", [SiteIdle EXCEPT !.step = "insert"])
           /\ UNCHANGED <<incidents, history>>
  <2>1. PICK item \in Items :
          siteCall' = [siteCall EXCEPT ![p] =
            [[SiteIdle EXCEPT !.step = "insert"] EXCEPT !.op = "create", !.item = item]]
    BY Zenon, <1>1 DEF SiteStarts, SiteBecomes
  <2> DEFINE s == [SiteIdle EXCEPT !.step = "insert"]
             r == Opened(s, "create", item)
  <2>2. item \in ItemsOf(siteLoad)
    BY <2>1 DEF Items, ItemsOf
  <2>3. s \in SiteCallType(siteLoad) /\ s.step = "insert"
    <3>1. "insert" \in SiteSteps /\ SiteIdle \in SiteCallType(siteLoad)
      BY SiteIdleIs DEF SiteSteps
    <3> QED
      BY <3>1, AtStepIs DEF AtStep
  <2> HIDE DEF s
  <2>4. r \in SiteCallType(siteLoad) /\ r.op = "create" /\ r.step = "insert"
    <3>1. "create" \in SiteOps
      BY DEF SiteOps
    <3> QED
      BY <2>2, <2>3, <3>1, OpenedIs
  <2>5. siteCall' = [siteCall EXCEPT ![p] = r]
    BY <2>1 DEF s, Opened
  <2> HIDE DEF r
  <2> QED
    BY <1>0, <1>1, <2>4, <2>5, QuietPage DEF UpdateTrue
<1>2. CASE /\ SiteAt(p, "create", "insert") /\ Len(incidents) < siteLoad.incidents
           /\ incidents' = Append(incidents, [status |-> "investigating", ended |-> FALSE])
           /\ history' = Append(history, << >>)
           /\ SiteBecomes(p, [siteCall[p] EXCEPT !.step = "history", !.id = Len(incidents')])
  <2> DEFINE r == AtStepOf(siteCall[p], "history", Len(incidents'))
             new == [status |-> "investigating", ended |-> FALSE]
  <2>1. new \in Incident /\ new.ended = FALSE
    BY DEF Incident, Statuses
  <2> HIDE DEF new
  <2>2. /\ incidents' \in Seq(Incident) /\ Len(incidents') = Len(incidents) + 1
        /\ \A i \in 1 .. Len(incidents) : incidents'[i] = incidents[i]
        /\ incidents'[Len(incidents) + 1] = new
    <3>1. incidents' = Append(incidents, new)
      BY <1>2 DEF new
    <3> QED
      BY <3>1, <2>1, <1>0, AppendProperties
  <2>3. /\ history' \in Seq(Seq(Statuses)) /\ Len(history') = Len(history) + 1
        /\ \A i \in 1 .. Len(history) : history'[i] = history[i]
    <3>1. << >> \in Seq(Statuses) /\ history' = Append(history, << >>)
      BY <1>2
    <3> QED
      BY <3>1, <1>0, AppendProperties
  <2>4. r \in SiteCallType(siteLoad) /\ r.op = "create" /\ r.step = "history"
    <3>1. Len(incidents') \in Nat /\ "history" \in SiteSteps
      BY <1>0, <2>2 DEF SiteSteps
    <3>2. siteCall[p].op = "create"
      BY <1>2 DEF SiteAt
    <3> QED
      BY <3>1, <3>2, <1>0, AtStepOfIs
  <2>5. siteCall' = [siteCall EXCEPT ![p] = r]
    BY <1>2 DEF SiteBecomes, AtStepOf
  <2> HIDE DEF r
  <2>6. \A i \in 1 .. Len(incidents) : Announced(history, i) => Announced(history', i)
    BY <2>3, <1>0 DEF Announced
  <2>7. \A i \in 1 .. Len(incidents') : incidents'[i].ended => Announced(history', i)
    <3> SUFFICES ASSUME NEW i \in 1 .. Len(incidents'), incidents'[i].ended
                 PROVE  Announced(history', i)
      OBVIOUS
    <3>1. i # Len(incidents) + 1
      BY <2>1, <2>2
    <3>2. i \in 1 .. Len(incidents) /\ incidents'[i] = incidents[i]
      BY <3>1, <2>2, <1>0
    <3> QED
      BY <3>2, <2>6, <1>0
  <2>8. Len(history') = Len(incidents') /\ Len(incidents) <= Len(incidents')
    BY <1>0, <2>2, <2>3
  <2>9. UpdateTrue(r, Len(incidents'), history')
    BY <2>4 DEF UpdateTrue
  <2> QED
    BY <1>0, <2>2, <2>3, <2>4, <2>5, <2>6, <2>7, <2>8, <2>9, PageStep
<1>3. CASE /\ SiteAt(p, "create", "history")
           /\ history' = [history EXCEPT ![siteCall[p].id] = Append(@, "investigating")]
           /\ SiteGoes(p, "item")
           /\ UNCHANGED incidents
  <2> DEFINE r == AtStep(siteCall[p], "item")
             n == siteCall[p].id
  <2>1. r \in SiteCallType(siteLoad) /\ r.op = "create" /\ r.step = "item"
    <3>1. "item" \in SiteSteps /\ siteCall[p].op = "create"
      BY <1>3 DEF SiteAt, SiteSteps
    <3> QED
      BY <3>1, <1>0, AtStepIs
  <2>2. siteCall' = [siteCall EXCEPT ![p] = r]
    BY <1>3 DEF SiteGoes, SiteBecomes, AtStep
  <2> HIDE DEF r
  <2>3. /\ history' \in Seq(Seq(Statuses)) /\ Len(history') = Len(history)
        /\ \A i \in 1 .. Len(history) : Announced(history, i) => Announced(history', i)
    <3>1. CASE n \in 1 .. Len(history)
      <4>1. "investigating" \in Statuses
        BY DEF Statuses
      <4> QED
        BY <4>1, <3>1, <1>0, <1>3, EntryComes
    <3>2. CASE n \notin 1 .. Len(history)
      <4>1. history' = history
        BY <3>2, <1>0, <1>3
      <4> QED
        BY <4>1, <1>0
    <3> QED
      BY <3>1, <3>2
  <2>4. \A i \in 1 .. Len(incidents') : incidents'[i].ended => Announced(history', i)
    BY <1>0, <1>3, <2>3
  <2>5. UpdateTrue(r, Len(incidents'), history')
    BY <2>1 DEF UpdateTrue
  <2> QED
    <3>1. incidents' = incidents
      BY <1>3
    <3>2. /\ incidents' \in Seq(Incident) /\ Len(incidents) <= Len(incidents')
          /\ history' \in Seq(Seq(Statuses)) /\ Len(history') = Len(incidents')
      BY <1>0, <3>1, <2>3
    <3>3. \A i \in 1 .. Len(incidents) : Announced(history, i) => Announced(history', i)
      BY <1>0, <2>3
    <3>4. r \in SiteCallType(siteLoad) /\ DOMAIN comps' \subseteq CompIds(siteLoad)
      BY <1>0, <2>1
    <3> QED
      BY <3>2, <3>3, <3>4, <2>2, <2>4, <2>5, PageStep
<1> QED
  BY <1>1, <1>2, <1>3 DEF CreateIncident

(* A request that stays, ends or goes on without writing history.          *)
LEMMA QuietStep ==
  ASSUME PageInv, NEW p \in SiteRequests, NEW step \in SiteSteps, step # "ended",
         step \in {"change", "add"} => siteCall[p].item # << >>,
         SiteGoes(p, step), siteLoad' = siteLoad,
         DOMAIN comps' \subseteq CompIds(siteLoad), incidents' = incidents, history' = history
  PROVE  PageInv'
<1> DEFINE r == AtStep(siteCall[p], step)
<1>1. siteCall[p] \in SiteCallType(siteLoad) /\ UpdateTrue(siteCall[p], Len(incidents), history)
  BY DEF PageInv, PageTypes
<1>2. /\ r \in SiteCallType(siteLoad) /\ r.op = siteCall[p].op /\ r.step = step
      /\ r.id = siteCall[p].id /\ r.item = siteCall[p].item
  BY <1>1, AtStepIs
<1>3. siteCall' = [siteCall EXCEPT ![p] = r]
  BY DEF SiteGoes, SiteBecomes, AtStep
<1> HIDE DEF r
<1>4. UpdateTrue(r, Len(incidents), history)
  BY <1>1, <1>2 DEF UpdateTrue
<1> QED
  BY <1>2, <1>3, <1>4, QuietPage

(* A request ends, and the items are as they were.                         *)
LEMMA QuietEnd ==
  ASSUME PageInv, NEW p \in SiteRequests, SiteEnds(p), siteLoad' = siteLoad,
         DOMAIN comps' \subseteq CompIds(siteLoad), incidents' = incidents, history' = history
  PROVE  PageInv'
<1>1. siteCall' = [siteCall EXCEPT ![p] = SiteIdle]
  BY DEF SiteEnds, SiteBecomes
<1>2. UpdateTrue(SiteIdle, Len(incidents), history)
  BY SiteIdleIs DEF UpdateTrue
<1> QED
  BY <1>1, <1>2, SiteIdleIs, QuietPage

(* The item that a request is about is one of the page.                    *)
LEMMA ItemIs ==
  ASSUME PageInv, NEW p \in SiteRequests, siteCall[p].item # << >>
  PROVE  siteCall[p].item[1] \in CompIds(siteLoad)
<1>1. siteCall[p].item \in ItemsOf(siteLoad)
  BY DEF PageInv, PageTypes, SiteCallType
<1>2. siteCall[p].item \in siteLoad.comps \X States
  BY <1>1 DEF ItemsOf
<1> QED
  BY <1>2 DEF CompIds

(* A status update of an incident or a maintenance, at each of its         *)
(* statements.                                                             *)
LEMMA StatusUpdateKeeps ==
  ASSUME PageInv, NEW p \in SiteRequests, siteLoad' = siteLoad, UNCHANGED <<comps, history>>,
         SiteAt(p, "update", "status"),
         incidents' = [incidents EXCEPT ![siteCall[p].id].status = siteCall[p].status],
         SiteGoes(p, "history")
  PROVE  PageInv'
<1> DEFINE n == siteCall[p].id
           r == AtStep(siteCall[p], "history")
           t == [incidents[n] EXCEPT !.status = siteCall[p].status]
<1>1. /\ siteCall[p] \in SiteCallType(siteLoad) /\ incidents \in Seq(Incident)
      /\ history \in Seq(Seq(Statuses)) /\ Len(history) = Len(incidents)
      /\ DOMAIN comps \subseteq CompIds(siteLoad) /\ Len(incidents) \in Nat
      /\ \A i \in 1 .. Len(incidents) : incidents[i].ended => Announced(history, i)
      /\ UpdateTrue(siteCall[p], Len(incidents), history)
  BY DEF PageInv, PageTypes
<1>2. siteCall[p].op = "update" /\ n \in 1 .. Len(incidents) /\ siteCall[p].status \in Statuses
  BY <1>1 DEF UpdateTrue, SiteAt, SiteCallType
<1>3. incidents[n] \in Incident
  BY <1>1, <1>2, ElementOfSeq
<1>4. t \in Incident /\ t.ended = incidents[n].ended
  BY <1>2, <1>3 DEF Incident
<1> HIDE DEF t, n
<1>5. incidents' = [incidents EXCEPT ![n] = t]
  BY DEF t, n
<1>6. /\ incidents' \in Seq(Incident) /\ Len(incidents') = Len(incidents)
      /\ \A i \in 1 .. Len(incidents) : incidents'[i] = IF i = n THEN t ELSE incidents[i]
  <2>1. incidents \in Seq(Incident) /\ n \in 1 .. Len(incidents) /\ t \in Incident
    BY <1>1, <1>2, <1>4
  <2>2. /\ [incidents EXCEPT ![n] = t] \in Seq(Incident)
        /\ Len([incidents EXCEPT ![n] = t]) = Len(incidents)
        /\ \A i \in 1 .. Len(incidents) :
             [incidents EXCEPT ![n] = t][i] = IF i = n THEN t ELSE incidents[i]
    BY <2>1, ExceptSeq
  <2> QED
    BY <1>5, <2>2
<1>7. "history" \in SiteSteps
  BY DEF SiteSteps
<1>8. /\ r \in SiteCallType(siteLoad) /\ r.op = "update" /\ r.step = "history" /\ r.id = n
  BY <1>1, <1>2, <1>7, AtStepIs DEF n
<1>9. siteCall' = [siteCall EXCEPT ![p] = r]
  BY DEF SiteGoes, SiteBecomes, AtStep
<1> HIDE DEF r
<1>10. UpdateTrue(r, Len(incidents'), history')
  BY <1>2, <1>6, <1>8 DEF UpdateTrue
<1>11. \A i \in 1 .. Len(incidents') : incidents'[i].ended => Announced(history', i)
  BY <1>1, <1>4, <1>6
<1>12. /\ history' \in Seq(Seq(Statuses)) /\ Len(history') = Len(incidents')
       /\ Len(incidents) <= Len(incidents') /\ DOMAIN comps' \subseteq CompIds(siteLoad)
       /\ \A i \in 1 .. Len(incidents) : Announced(history, i) => Announced(history', i)
  BY <1>1, <1>6
<1> QED
  BY <1>6, <1>8, <1>9, <1>10, <1>11, <1>12, PageStep

(* The announcement of an item that has ended.                             *)
LEMMA AnnouncementKeeps ==
  ASSUME PageInv, NEW p \in SiteRequests, siteLoad' = siteLoad, UNCHANGED <<comps, incidents>>,
         SiteAt(p, "update", "history"),
         history' = [history EXCEPT ![siteCall[p].id] = Append(@, siteCall[p].status)],
         SiteGoes(p, IF siteCall[p].status = "resolved" THEN "ended" ELSE "item")
  PROVE  PageInv'
<1> DEFINE n == siteCall[p].id
           step == IF siteCall[p].status = "resolved" THEN "ended" ELSE "item"
           r == AtStep(siteCall[p], step)
<1>1. /\ siteCall[p] \in SiteCallType(siteLoad) /\ incidents \in Seq(Incident)
      /\ history \in Seq(Seq(Statuses)) /\ Len(history) = Len(incidents)
      /\ DOMAIN comps \subseteq CompIds(siteLoad) /\ Len(incidents) \in Nat
      /\ \A i \in 1 .. Len(incidents) : incidents[i].ended => Announced(history, i)
      /\ UpdateTrue(siteCall[p], Len(incidents), history)
  BY DEF PageInv, PageTypes
<1>2. siteCall[p].op = "update" /\ n \in 1 .. Len(history) /\ siteCall[p].status \in Statuses
  BY <1>1 DEF UpdateTrue, SiteAt, SiteCallType
<1>3. /\ history' \in Seq(Seq(Statuses)) /\ Len(history') = Len(history)
      /\ \A i \in 1 .. Len(history) : Announced(history, i) => Announced(history', i)
      /\ siteCall[p].status = "resolved" => Announced(history', n)
  <2> DEFINE s == siteCall[p].status
             g == [history EXCEPT ![n] = Append(@, s)]
  <2>1. history' = g
    OBVIOUS
  <2>2. history \in Seq(Seq(Statuses)) /\ n \in 1 .. Len(history) /\ s \in Statuses
    BY <1>1, <1>2
  <2> HIDE DEF n, s
  <2>3. /\ g \in Seq(Seq(Statuses)) /\ Len(g) = Len(history)
        /\ \A i \in 1 .. Len(history) : Announced(history, i) => Announced(g, i)
        /\ s = "resolved" => Announced(g, n)
    BY <2>2, EntryComes
  <2> HIDE DEF g
  <2> QED
    BY <2>1, <2>3 DEF s
<1>4. /\ step \in SiteSteps /\ (step = "ended" => Announced(history', n))
      /\ step \notin {"change", "add"}
  BY <1>3 DEF SiteSteps
<1> HIDE DEF step
<1>5. r \in SiteCallType(siteLoad) /\ r.op = "update" /\ r.step = step /\ r.id = n
  BY <1>1, <1>2, <1>4, AtStepIs
<1>6. siteCall' = [siteCall EXCEPT ![p] = r]
  BY DEF SiteGoes, SiteBecomes, AtStep, step
<1> HIDE DEF r, n
<1>7. UpdateTrue(r, Len(incidents'), history')
  <2>1. /\ n \in 1 .. Len(incidents') /\ (r.step = "ended" => Announced(history', r.id))
        /\ r.step \notin {"change", "add"}
    BY <1>1, <1>2, <1>4, <1>5
  <2> QED
    BY <1>5, <2>1 DEF UpdateTrue
<1>8. \A i \in 1 .. Len(incidents') : incidents'[i].ended => Announced(history', i)
  BY <1>1, <1>3
<1>9. /\ incidents' \in Seq(Incident) /\ Len(history') = Len(incidents')
      /\ Len(incidents) <= Len(incidents') /\ DOMAIN comps' \subseteq CompIds(siteLoad)
      /\ \A i \in 1 .. Len(incidents) : Announced(history, i) => Announced(history', i)
  <2>1. incidents' = incidents /\ comps' = comps
    OBVIOUS
  <2>2. incidents' \in Seq(Incident) /\ DOMAIN comps' \subseteq CompIds(siteLoad)
    BY <1>1, <2>1
  <2>3. Len(history') = Len(incidents') /\ Len(incidents) <= Len(incidents')
    BY <1>1, <1>3, <2>1
  <2>4. \A i \in 1 .. Len(incidents) : Announced(history, i) => Announced(history', i)
    <3>1. Len(history) = Len(incidents)
      BY <1>1
    <3> QED
      BY <1>3, <3>1
  <2> QED
    BY <2>2, <2>3, <2>4
<1> QED
  BY <1>3, <1>5, <1>6, <1>7, <1>8, <1>9, PageStep

(* The end of an item: its status, then the announcement.                  *)
LEMMA EndingKeeps ==
  ASSUME PageInv, NEW p \in SiteRequests, siteLoad' = siteLoad, UNCHANGED <<comps, history>>,
         SiteAt(p, "update", "ended"),
         incidents' = [incidents EXCEPT ![siteCall[p].id].ended = TRUE],
         SiteGoes(p, "affected")
  PROVE  PageInv'
<1> DEFINE n == siteCall[p].id
           r == AtStep(siteCall[p], "affected")
           t == [incidents[n] EXCEPT !.ended = TRUE]
<1>1. /\ siteCall[p] \in SiteCallType(siteLoad) /\ incidents \in Seq(Incident)
      /\ history \in Seq(Seq(Statuses)) /\ Len(history) = Len(incidents)
      /\ DOMAIN comps \subseteq CompIds(siteLoad) /\ Len(incidents) \in Nat
      /\ \A i \in 1 .. Len(incidents) : incidents[i].ended => Announced(history, i)
      /\ UpdateTrue(siteCall[p], Len(incidents), history)
  BY DEF PageInv, PageTypes
<1>2. siteCall[p].op = "update" /\ n \in 1 .. Len(incidents) /\ Announced(history, n)
  BY <1>1 DEF UpdateTrue, SiteAt
<1>3. incidents[n] \in Incident
  BY <1>1, <1>2, ElementOfSeq
<1>4. t \in Incident
  BY <1>3 DEF Incident
<1> HIDE DEF t, n
<1>5. incidents' = [incidents EXCEPT ![n] = t]
  BY DEF t, n
<1>6. /\ incidents' \in Seq(Incident) /\ Len(incidents') = Len(incidents)
      /\ \A i \in 1 .. Len(incidents) : incidents'[i] = IF i = n THEN t ELSE incidents[i]
  <2>1. incidents \in Seq(Incident) /\ n \in 1 .. Len(incidents) /\ t \in Incident
    BY <1>1, <1>2, <1>4
  <2>2. /\ [incidents EXCEPT ![n] = t] \in Seq(Incident)
        /\ Len([incidents EXCEPT ![n] = t]) = Len(incidents)
        /\ \A i \in 1 .. Len(incidents) :
             [incidents EXCEPT ![n] = t][i] = IF i = n THEN t ELSE incidents[i]
    BY <2>1, ExceptSeq
  <2> QED
    BY <1>5, <2>2
<1>7. "affected" \in SiteSteps
  BY DEF SiteSteps
<1>8. r \in SiteCallType(siteLoad) /\ r.op = "update" /\ r.step = "affected" /\ r.id = n
  BY <1>1, <1>2, <1>7, AtStepIs DEF n
<1>9. siteCall' = [siteCall EXCEPT ![p] = r]
  BY DEF SiteGoes, SiteBecomes, AtStep
<1> HIDE DEF r
<1>10. UpdateTrue(r, Len(incidents'), history')
  BY <1>2, <1>6, <1>8 DEF UpdateTrue
<1>11. \A i \in 1 .. Len(incidents') : incidents'[i].ended => Announced(history', i)
  BY <1>1, <1>2, <1>6
<1>12. /\ history' \in Seq(Seq(Statuses)) /\ Len(history') = Len(incidents')
       /\ Len(incidents) <= Len(incidents') /\ DOMAIN comps' \subseteq CompIds(siteLoad)
       /\ \A i \in 1 .. Len(incidents) : Announced(history, i) => Announced(history', i)
  BY <1>1, <1>6
<1> QED
  BY <1>6, <1>8, <1>9, <1>10, <1>11, <1>12, PageStep

(* add_update, at each of its statements.                                  *)
LEMMA AddUpdateKeeps ==
  ASSUME PageInv, NEW p \in SiteRequests, AddUpdate(p), siteLoad' = siteLoad
  PROVE  PageInv'
<1>0. /\ siteCall[p] \in SiteCallType(siteLoad) /\ DOMAIN comps \subseteq CompIds(siteLoad)
      /\ UpdateTrue(siteCall[p], Len(incidents), history)
      /\ DOMAIN incidents = 1 .. Len(incidents) /\ Len(incidents) \in Nat
  BY DEF PageInv, PageTypes
<1>1. ASSUME NEW i \in DOMAIN incidents, NEW s \in {"none", "monitoring", "resolved"},
             SiteStarts(p, "update", [SiteIdle EXCEPT !.id = i, !.status = s,
                                       !.step = IF s = "none" THEN "item" ELSE "status"]),
             UNCHANGED page
      PROVE  PageInv'
  <2> DEFINE step == IF s = "none" THEN "item" ELSE "status"
             u == Updating(SiteIdle, i, s, step)
  <2>1. step \in SiteSteps /\ step # "ended" /\ s \in Statuses /\ i \in Nat /\ i \in 1 .. Len(incidents)
    BY <1>0 DEF SiteSteps, Statuses
  <2>2. u \in SiteCallType(siteLoad) /\ u.step = step /\ u.id = i
    <3> HIDE DEF step
    <3> QED
      BY <2>1, SiteIdleIs, UpdatingIs
  <2>3. PICK item \in Items : siteCall' = [siteCall EXCEPT ![p] = Opened(u, "update", item)]
    BY Zenon, <1>1 DEF SiteStarts, SiteBecomes, Updating, Opened
  <2> HIDE DEF u
  <2>4. item \in ItemsOf(siteLoad) /\ "update" \in SiteOps
    BY <2>3 DEF Items, ItemsOf, SiteOps
  <2> DEFINE r == Opened(u, "update", item)
  <2>5. r \in SiteCallType(siteLoad) /\ r.op = "update" /\ r.step = step /\ r.id = i
    <3> HIDE DEF step
    <3> QED
      BY <2>2, <2>4, OpenedIs
  <2> HIDE DEF r
  <2>6. UpdateTrue(r, Len(incidents), history)
    BY <2>1, <2>5 DEF UpdateTrue
  <2>7. siteCall' = [siteCall EXCEPT ![p] = r]
    BY <2>3 DEF r
  <2>8. DOMAIN comps' \subseteq CompIds(siteLoad) /\ incidents' = incidents /\ history' = history
    BY <1>0, <1>1 DEF page
  <2> QED
    BY <2>5, <2>6, <2>7, <2>8, QuietPage
<1>2. CASE /\ SiteAt(p, "update", "status")
           /\ incidents' = [incidents EXCEPT ![siteCall[p].id].status = siteCall[p].status]
           /\ SiteGoes(p, NextAfterStatus(siteCall[p].status))
           /\ UNCHANGED <<comps, history, affected>>
  <2>1. SiteGoes(p, "history")
    BY <1>2 DEF NextAfterStatus
  <2> QED
    BY <1>2, <2>1, StatusUpdateKeeps
<1>3. CASE /\ SiteAt(p, "update", "history") /\ Len(history[siteCall[p].id]) < siteLoad.history
           /\ history' = [history EXCEPT ![siteCall[p].id] = Append(@, siteCall[p].status)]
           /\ SiteGoes(p, IF siteCall[p].status = "resolved" THEN "ended" ELSE "item")
           /\ UNCHANGED <<comps, incidents, affected>>
  BY <1>3, AnnouncementKeeps
<1>4. CASE /\ SiteAt(p, "update", "ended")
           /\ incidents' = [incidents EXCEPT ![siteCall[p].id].ended = TRUE]
           /\ SiteGoes(p, "affected")
           /\ UNCHANGED <<comps, history, affected>>
  BY <1>4, EndingKeeps
<1>5. CASE /\ SiteAt(p, "update", "affected")
           /\ SiteBecomes(p, [siteCall[p] EXCEPT !.step = "reset",
                  !.found = {c \in DOMAIN comps : <<siteCall[p].id, c>> \in affected}])
           /\ UNCHANGED page
  <2> DEFINE found == {c \in DOMAIN comps : <<siteCall[p].id, c>> \in affected}
             r == AtStepWith(siteCall[p], "reset", found)
  <2>1. siteCall' = [siteCall EXCEPT ![p] = r]
    BY <1>5 DEF SiteBecomes, AtStepWith
  <2>2. found \in SUBSET CompIds(siteLoad) /\ "reset" \in SiteSteps
    BY <1>0 DEF SiteSteps
  <2> HIDE DEF found
  <2>3. /\ r \in SiteCallType(siteLoad) /\ r.op = siteCall[p].op /\ r.step = "reset"
        /\ r.id = siteCall[p].id
    BY <1>0, <2>2, AtStepWithIs
  <2> HIDE DEF r
  <2>4. UpdateTrue(r, Len(incidents), history)
    BY <1>0, <2>3 DEF UpdateTrue
  <2>5. DOMAIN comps' \subseteq CompIds(siteLoad) /\ incidents' = incidents /\ history' = history
    BY <1>0, <1>5 DEF page
  <2> QED
    BY <2>1, <2>3, <2>4, <2>5, QuietPage
<1>6. ASSUME SiteAt(p, "update", "reset"), NEW c \in siteCall[p].found,
             comps' = [comps EXCEPT ![c] = "operational"],
             SiteBecomes(p, [siteCall[p] EXCEPT !.found = @ \ {c}]),
             UNCHANGED <<incidents, history, affected>>
      PROVE  PageInv'
  <2> DEFINE found == siteCall[p].found \ {c}
             r == StillWith(siteCall[p], found)
  <2>1. siteCall' = [siteCall EXCEPT ![p] = r]
    BY <1>6 DEF SiteBecomes, StillWith
  <2>2. found \in SUBSET CompIds(siteLoad)
    BY <1>0 DEF SiteCallType
  <2> HIDE DEF found
  <2>3. /\ r \in SiteCallType(siteLoad) /\ r.op = siteCall[p].op /\ r.step = siteCall[p].step
        /\ r.id = siteCall[p].id /\ r.item = siteCall[p].item
    BY <1>0, <2>2, StillWithIs
  <2> HIDE DEF r
  <2>4. UpdateTrue(r, Len(incidents), history)
    BY <1>0, <2>3 DEF UpdateTrue
  <2>5. DOMAIN comps' \subseteq CompIds(siteLoad) /\ incidents' = incidents /\ history' = history
    BY <1>0, <1>6
  <2> QED
    BY <2>1, <2>3, <2>4, <2>5, QuietPage
<1>7. CASE /\ SiteAt(p, "update", "reset") /\ siteCall[p].found = {}
           /\ affected' = {x \in affected : x[1] # siteCall[p].id}
           /\ SiteGoes(p, "item")
           /\ UNCHANGED <<comps, incidents, history>>
  <2>1. "item" \in SiteSteps /\ DOMAIN comps' \subseteq CompIds(siteLoad)
    BY <1>0, <1>7 DEF SiteSteps
  <2> QED
    BY <1>7, <2>1, QuietStep
<1> QED
  BY Zenon, <1>1, <1>2, <1>3, <1>4, <1>5, <1>6, <1>7 DEF AddUpdate

(* A request that changes the status of a component.                       *)
LEMMA ComponentUpdateKeeps ==
  ASSUME PageInv, NEW p \in SiteRequests, ComponentUpdate(p), siteLoad' = siteLoad
  PROVE  PageInv'
<1> DEFINE c == siteCall[p].item[1]
           s == siteCall[p].item[2]
<1>0. /\ DOMAIN comps \subseteq CompIds(siteLoad) /\ incidents' = incidents /\ history' = history
  BY DEF PageInv, PageTypes, ComponentUpdate
<1>1. CASE siteCall[p].step = "item" /\ siteCall[p].item = << >> /\ SiteEnds(p) /\ UNCHANGED <<comps, affected>>
  BY <1>0, <1>1, QuietEnd
<1>2. CASE /\ siteCall[p].step = "item" /\ siteCall[p].item # << >>
           /\ SiteGoes(p, IF c \in DOMAIN comps THEN "change" ELSE "add")
           /\ UNCHANGED <<comps, affected>>
  <2>1. SiteGoes(p, "change") \/ SiteGoes(p, "add")
    BY <1>2
  <2>2. {"change", "add"} \subseteq SiteSteps
    BY DEF SiteSteps
  <2> QED
    BY <1>0, <1>2, <2>1, <2>2, QuietStep
<1>3. CASE /\ \/ siteCall[p].step = "change" /\ c \in DOMAIN comps
              \/ siteCall[p].step = "add" /\ c \notin DOMAIN comps
           /\ comps' = [x \in DOMAIN comps \cup {c} |-> IF x = c THEN s ELSE comps[x]]
           /\ IF s = "operational" THEN SiteEnds(p) ELSE SiteGoes(p, "track")
           /\ UNCHANGED affected
  <2>1. DOMAIN comps' = DOMAIN comps \cup {c}
    BY <1>3
  <2>2. c \in CompIds(siteLoad)
    BY <1>3, ItemIs DEF PageInv, UpdateTrue
  <2>3. "track" \in SiteSteps
    BY DEF SiteSteps
  <2>4. DOMAIN comps' \subseteq CompIds(siteLoad)
    BY <1>0, <2>1, <2>2
  <2> QED
    BY <1>0, <1>3, <2>3, <2>4, QuietStep, QuietEnd
<1>4. CASE siteCall[p].step = "track" /\ affected' = affected \cup {<<siteCall[p].id, c>>} /\ SiteEnds(p) /\ UNCHANGED comps
  BY <1>0, <1>4, QuietEnd
<1> QED
  BY <1>1, <1>2, <1>3, <1>4 DEF ComponentUpdate

(* update_component, at each of its statements.                            *)
LEMMA UpdateComponentKeeps ==
  ASSUME PageInv, NEW p \in SiteRequests, UpdateComponent(p), siteLoad' = siteLoad
  PROVE  PageInv'
<1>0. /\ DOMAIN comps \subseteq CompIds(siteLoad) /\ incidents' = incidents /\ history' = history
      /\ UpdateTrue(siteCall[p], Len(incidents), history)
  BY Zenon DEF PageInv, PageTypes, UpdateComponent
<1>1. ASSUME NEW c \in siteLoad.comps, NEW s \in States,
             SiteBecomes(p, [SiteIdle EXCEPT !.op = "component", !.item = <<c, s>>,
                               !.step = IF c \in DOMAIN comps THEN "change" ELSE "add"]),
             UNCHANGED comps
      PROVE  PageInv'
  <2> DEFINE step == IF c \in DOMAIN comps THEN "change" ELSE "add"
             item == <<c, s>>
             r == OpenedAt(SiteIdle, "component", item, step)
  <2>1. siteCall' = [siteCall EXCEPT ![p] = r]
    BY <1>1 DEF SiteBecomes, OpenedAt
  <2>2. item \in ItemsOf(siteLoad) /\ item # << >>
    BY DEF ItemsOf
  <2>3. step \in SiteSteps /\ "component" \in SiteOps
    BY DEF SiteSteps, SiteOps
  <2> HIDE DEF step, item
  <2>4. r \in SiteCallType(siteLoad) /\ r.op = "component" /\ r.item = item
    BY <2>2, <2>3, SiteIdleIs, OpenedAtIs
  <2> HIDE DEF r
  <2>5. UpdateTrue(r, Len(incidents), history)
    BY <2>2, <2>4 DEF UpdateTrue
  <2>6. DOMAIN comps' \subseteq CompIds(siteLoad)
    BY <1>0, <1>1
  <2> QED
    BY <1>0, <2>1, <2>4, <2>5, <2>6, QuietPage
<1>2. CASE /\ LET c == siteCall[p].item[1]
              IN  /\ \/ SiteAt(p, "component", "change") /\ c \in DOMAIN comps
                     \/ SiteAt(p, "component", "add") /\ c \notin DOMAIN comps
                  /\ comps' = [x \in DOMAIN comps \cup {c} |->
                                 IF x = c THEN siteCall[p].item[2] ELSE comps[x]]
           /\ SiteEnds(p)
  <2>1. siteCall[p].step \in {"change", "add"}
    BY <1>2 DEF SiteAt
  <2>2. siteCall[p].item # << >>
    BY <1>0, <2>1 DEF UpdateTrue
  <2>3. siteCall[p].item[1] \in CompIds(siteLoad)
    BY <2>2, ItemIs
  <2>4. DOMAIN comps' = DOMAIN comps \cup {siteCall[p].item[1]}
    BY <1>2
  <2>5. DOMAIN comps' \subseteq CompIds(siteLoad)
    BY <1>0, <2>3, <2>4
  <2> QED
    BY <1>0, <1>2, <2>5, QuietEnd
<1> QED
  BY Zenon, <1>1, <1>2 DEF UpdateComponent

(* A request that is dropped at any statement.                             *)
LEMMA SiteStopsKeeps ==
  ASSUME PageInv, NEW p \in SiteRequests, SiteStops(p), siteLoad' = siteLoad
  PROVE  PageInv'
<1>1. /\ DOMAIN comps' \subseteq CompIds(siteLoad) /\ incidents' = incidents
      /\ history' = history /\ SiteEnds(p)
  BY DEF PageInv, PageTypes, SiteStops, page
<1> QED
  BY <1>1, QuietEnd

(* A start, or a crash, as far as the page is concerned.                   *)
LEMMA StartLeavesPage ==
  ASSUME PageInv, siteLoad' = siteLoad, incidents' = incidents, history' = history,
         siteCall' = siteCall \/ siteCall' = [p \in SiteRequests |-> SiteIdle],
         DOMAIN comps' \subseteq CompIds(siteLoad)
  PROVE  PageInv'
<1>1. /\ siteCall \in [SiteRequests -> SiteCallType(siteLoad)]
      /\ \A p \in SiteRequests : UpdateTrue(siteCall[p], Len(incidents), history)
  BY DEF PageInv, PageTypes
<1>2. SiteIdle \in SiteCallType(siteLoad) /\ UpdateTrue(SiteIdle, Len(incidents), history)
  BY SiteIdleIs DEF UpdateTrue
<1>3. /\ siteCall' \in [SiteRequests -> SiteCallType(siteLoad)]
      /\ \A p \in SiteRequests : UpdateTrue(siteCall'[p], Len(incidents), history)
  BY <1>1, <1>2
<1>4. PageTypes'
  BY <1>3 DEF PageInv, PageTypes
<1>5. \A p \in SiteRequests : UpdateTrue(siteCall'[p], Len(incidents'), history')
  BY <1>3
<1>6. \A i \in 1 .. Len(incidents') : incidents'[i].ended => Announced(history', i)
  <2>1. \A i \in 1 .. Len(incidents) : incidents[i].ended => Announced(history, i)
    BY DEF PageInv
  <2> QED
    BY <2>1
<1> QED
  BY <1>4, <1>5, <1>6 DEF PageInv

(* The start leaves the items and the requests of the page alone.          *)
LEMMA SeedingLeavesPage ==
  ASSUME StartInv, PageInv, SeedComponents
  PROVE  DOMAIN comps' \subseteq CompIds(siteLoad)
<1>1. DOMAIN comps \subseteq CompIds(siteLoad)
  BY DEF PageInv, PageTypes
<1>2. CASE UNCHANGED comps
  BY <1>1, <1>2
<1>3. CASE /\ phase = "seed" /\ todo # << >>
           /\ comps' = [c \in DOMAIN comps \cup {Head(todo)} |->
                          IF c \in DOMAIN comps THEN comps[c] ELSE "operational"]
  <2>1. todo \in Seq(Range(Seeds))
    BY <1>3 DEF StartInv, Seeding
  <2>2. Head(todo) \in Range(Seeds)
    BY <1>3, <2>1, HeadTailProperties
  <2>3. DOMAIN comps' = DOMAIN comps \cup {Head(todo)}
    BY <1>3
  <2> QED
    BY <1>1, <2>2, <2>3 DEF CompIds
<1> QED
  BY <1>2, <1>3 DEF SeedComponents

(* Every step keeps the invariant of the page.                             *)
LEMMA PageInvStep ==
  ASSUME StartInv, PageInv, [SiteNext]_siteVars
  PROVE  PageInv'
<1>0. DOMAIN comps \subseteq CompIds(siteLoad)
  BY DEF PageInv, PageTypes
<1>1. CASE UNCHANGED siteVars
  <2>1. /\ siteLoad' = siteLoad /\ incidents' = incidents /\ history' = history
        /\ siteCall' = siteCall /\ comps' = comps
    BY <1>1 DEF siteVars, page
  <2> QED
    BY <1>0, <2>1, StartLeavesPage
<1>2. CASE SiteNext
  <2>0. siteLoad' = siteLoad
    BY <1>2 DEF SiteNext
  <2>1. CASE SetupDatabase
    BY <1>0, <2>0, <2>1, StartLeavesPage DEF SetupDatabase, page
  <2>2. CASE FixSchema
    BY <1>0, <2>0, <2>2, StartLeavesPage DEF FixSchema, page
  <2>3. CASE SeedComponents
    <3>1. incidents' = incidents /\ history' = history /\ siteCall' = siteCall
      BY <2>3 DEF SeedComponents
    <3> QED
      BY <2>0, <2>3, <3>1, SeedingLeavesPage, StartLeavesPage
  <2>4. CASE Crash
    BY <1>0, <2>0, <2>4, StartLeavesPage DEF Crash, page
  <2>5. ASSUME NEW p \in SiteRequests,
               CreateIncident(p) \/ AddUpdate(p) \/ ComponentUpdate(p) \/ UpdateComponent(p)
                 \/ SiteStops(p)
        PROVE  PageInv'
    BY <2>0, <2>5, CreateIncidentKeeps, AddUpdateKeeps, ComponentUpdateKeeps,
       UpdateComponentKeeps, SiteStopsKeeps
  <2> QED
    BY <1>2, <2>1, <2>2, <2>3, <2>4, <2>5 DEF SiteNext, Startup
<1> QED
  BY <1>1, <1>2

(* An incident whose end is recorded has been announced as resolved.       *)
THEOREM EndedWasAnnouncedHolds == SiteSpec => []EndedWasAnnounced
<1>1. SiteInit => StartInv /\ PageInv
  BY StartInvInit, PageInvInit
<1>2. StartInv /\ PageInv /\ [SiteNext]_siteVars => StartInv' /\ PageInv'
  BY StartInvStep, PageInvStep
<1>3. PageInv => EndedWasAnnounced
  BY LenProperties DEF PageInv, PageTypes, EndedWasAnnounced, Announced
<1> QED
  BY <1>1, <1>2, <1>3, PTL DEF SiteSpec

-----------------------------------------------------------------------------
(***************************************************************************)
(* ApiKeys: the requests of a key in an hour.                              *)
(***************************************************************************)
KeyOps == {"idle", "validate", "get", "usage", "check"}
KeySteps == {"none", "restart", "count", "insert", "find", "clear", "link", "entry"}
KeyCallType == [op : KeyOps, step : KeySteps, user : Users \cup {"none"}, key : Nat, at : Nat]

Row == [limit : Int, count : Nat, old : BOOLEAN]
NewRow(limit) == [limit |-> limit, count |-> 0, old |-> FALSE]
FreshRow(row, count) == [row EXCEPT !.count = count, !.old = FALSE]
Cap(row) == AtLeastOne(row.limit)

(* The table, the requests and the limiter's entry.                        *)
StoreOK(ks, ad, d, n) ==
  /\ d \in 0 .. n /\ DOMAIN ks \subseteq 1 .. d /\ \A k \in DOMAIN ks : ks[k] \in Row
  /\ ad \in [1 .. n -> Nat] /\ \A k \in 1 .. n : k > d => ad[k] = 0

CallsOK(c, d, t) ==
  /\ c \in [KeyRequests -> KeyCallType]
  /\ \A p \in KeyRequests : c[p].key <= d /\ c[p].at <= t

KeyTypes ==
  /\ keyLoad \in KeyLoads /\ keyLoad.keys \in Nat /\ now \in Nat
  /\ StoreOK(keys, admitted, drawn, keyLoad.keys) /\ CallsOK(keyCall, drawn, now)
  /\ link \in [Users -> 0 .. drawn]

(* Requests that are about to count one more for key k, or to begin its    *)
(* hour.                                                                   *)
Counts(r, k) == r.op = "validate" /\ r.step = "count" /\ r.key = k
Restarts(r, k) == r.op = "validate" /\ r.step = "restart" /\ r.key = k
Counting(c, k) == {p \in KeyRequests : Counts(c[p], k)}
Restarting(c, k) == {p \in KeyRequests : Restarts(c[p], k)}

ToCount(c, k) == Cardinality(Counting(c, k))
ToBegin(c, k) == Cardinality(Restarting(c, k))

Reqs == Cardinality(KeyRequests)

(* Twice what n requests that begin the hour may still let in, one after   *)
(* the other: each sets the count back, and what finds it below the limit  *)
(* passes, the other requests under way with it.                           *)
Begun(h, n) == n * (2 * h + 2 * Reqs - n - 1)

(* What may still be admitted of a count of c with n requests about to     *)
(* count and r about to begin the hour, besides those n.                   *)
Left(h, c, n, r) ==
  IF c + n < h - 1 + Reqs - r THEN h - 1 + Reqs - r - (c + n) ELSE 0

(* The bound, for a row and the a requests that were admitted.             *)
Bounded(row, a, n, r) ==
  LET h == Cap(row)
  IN  IF row.old THEN 2 * (a + n) <= Begun(h, Reqs)
                 ELSE 2 * (a + n + Left(h, row.count, n, r)) + Begun(h, r) <= Begun(h, Reqs)

Hourly(ks, ad, c) ==
  \A k \in DOMAIN ks : Bounded(ks[k], ad[k], ToCount(c, k), ToBegin(c, k))

HourInv == Hourly(keys, admitted, keyCall)

-----------------------------------------------------------------------------
(* The window of the address.                                              *)
Span(t) == t .. t + Window
PassedIn(ps, t) == {e \in ps : e[1] \in Span(t)}
AskedIn(s, t) == {i \in DOMAIN s : s[i] \in Span(t)}
Asks(r, t) == r.op = "check" /\ r.step = "entry" /\ r.at \in Span(t)
AskingIn(c, t) == {p \in KeyRequests : Asks(c[p], t)}

Passes(ps, t) == Cardinality(PassedIn(ps, t))
Entries(s, t) == Cardinality(AskedIn(s, t))
Asking(c, t) == Cardinality(AskingIn(c, t))

EntryOK(s, ps) == s \in Seq(Nat) /\ Len(s) <= MaxRequests /\ IsFiniteSet(ps)

(* What passed in a window is still in the entry; or the window is over,   *)
(* and what may still pass in it are the checks under way.                 *)
InWindow(s, ps, c, n, t) ==
  \/ Passes(ps, t) <= Entries(s, t)
  \/ n > t + Window /\ Passes(ps, t) + Asking(c, t) <= MaxRequests + Reqs - 1

WindowInv == EntryOK(asks, passed) /\ \A t \in 0 .. MaxTime : InWindow(asks, passed, keyCall, now, t)

-----------------------------------------------------------------------------
(* There is a request, and what a limit comes to is positive.              *)
LEMMA ReqsFacts == Reqs \in Nat \ {0} /\ \A row \in Row : Cap(row) \in Nat \ {0}
<1>1. IsFiniteSet(KeyRequests) /\ KeyRequests # {}
  BY ApiKeysAssumption
<1>2. \A row \in Row : Cap(row) \in Nat \ {0}
  BY DEF Row, Cap, AtLeastOne
<1> QED
  BY <1>1, <1>2, FS_CardinalityType, FS_EmptySet DEF Reqs

(* A product of natural numbers is not negative.                           *)
LEMMA ProductPositive ==
  ASSUME NEW a \in Nat, NEW b \in Nat PROVE a * b >= 0
OBVIOUS

(* Begun grows, by twice what one more beginning of the hour may let in;   *)
(* at its largest it is twice the bound.                                   *)
LEMMA BegunFacts ==
  ASSUME NEW H \in Nat \ {0}
  PROVE  /\ Begun(H, 0) = 0
         /\ \A r \in 0 .. Reqs : Begun(H, r) \in Nat /\ Begun(H, r) <= Begun(H, Reqs)
         /\ \A r \in 1 .. Reqs : Begun(H, r) = Begun(H, r - 1) + 2 * (H + Reqs - r)
         /\ Begun(H, Reqs) = 2 * (Reqs * H) + Reqs * (Reqs - 1)
<1> DEFINE N == Reqs
<1>1. H \in Nat \ {0} /\ N \in Nat \ {0} /\ \A n : Begun(H, n) = n * (2 * H + 2 * N - n - 1)
  BY ReqsFacts DEF Begun
<1> HIDE DEF N
<1>2. ASSUME NEW r \in 0 .. N
      PROVE  Begun(H, r) \in Nat /\ Begun(H, r) <= Begun(H, N)
  <2>1. r \in Nat /\ 2 * H + 2 * N - r - 1 \in Nat /\ N - r \in Nat /\ 2 * H + N - r - 1 \in Nat
    BY <1>1
  <2>2. r * (2 * H + 2 * N - r - 1) >= 0 /\ (N - r) * (2 * H + N - r - 1) >= 0
    BY <2>1, ProductPositive
  <2>3. N * (2 * H + 2 * N - N - 1) = r * (2 * H + 2 * N - r - 1) + (N - r) * (2 * H + N - r - 1)
    BY <1>1, <2>1
  <2>4. r * (2 * H + 2 * N - r - 1) \in Int /\ (N - r) * (2 * H + N - r - 1) \in Int
    BY <2>1
  <2> QED
    BY <1>1, <2>2, <2>3, <2>4
<1>3. ASSUME NEW r \in 1 .. N
      PROVE  Begun(H, r) = Begun(H, r - 1) + 2 * (H + N - r)
  BY <1>1
<1>4. Begun(H, 0) = 0 /\ Begun(H, N) = 2 * (N * H) + N * (N - 1)
  BY <1>1
<1> QED
  BY <1>2, <1>3, <1>4 DEF N

(* What each step does to the bound, for numbers alone.                    *)
LEMMA BoundQuiet ==
  ASSUME NEW row \in Row, NEW a \in Nat, NEW n \in Nat, NEW r \in 0 .. Reqs,
         Bounded(row, a, n, r)
  PROVE  /\ n > 0 => Bounded(row, a, n - 1, r)
         /\ r > 0 => Bounded(row, a, n, r - 1)
<1> DEFINE H == Cap(row)
           N == Reqs
           c == row.count
<1>1. /\ H \in Nat \ {0} /\ N \in Nat \ {0} /\ c \in Nat /\ row.old \in BOOLEAN
      /\ Begun(H, N) \in Nat /\ Begun(H, r) \in Nat
      /\ r > 0 => Begun(H, r - 1) \in Nat /\ Begun(H, r) = Begun(H, r - 1) + 2 * (H + N - r)
  <2>1. r > 0 => r \in 1 .. Reqs /\ r - 1 \in 0 .. Reqs
    BY ReqsFacts
  <2> QED
    BY ReqsFacts, BegunFacts, <2>1 DEF Row
<1>2. \A m, s : Left(H, c, m, s) = IF c + m < H - 1 + N - s THEN H - 1 + N - s - (c + m) ELSE 0
  BY DEF Left
<1>3. \A m, s : Bounded(row, a, m, s) <=>
        IF row.old THEN 2 * (a + m) <= Begun(H, N)
                   ELSE 2 * (a + m + Left(H, c, m, s)) + Begun(H, s) <= Begun(H, N)
  BY DEF Bounded
<1>4. r <= N
  OBVIOUS
<1> HIDE DEF H, N, c
<1>5. CASE row.old
  <2>1. n > 0 => Bounded(row, a, n - 1, r)
    BY <1>1, <1>3, <1>5
  <2>2. r > 0 => Bounded(row, a, n, r - 1)
    BY <1>3, <1>5
  <2> QED
    BY <2>1, <2>2
<1>6. CASE ~row.old
  <2> DEFINE l == Left(H, c, n, r)
  <2>1. l \in Nat /\ 2 * (a + n + l) + Begun(H, r) <= Begun(H, N)
    BY <1>1, <1>2, <1>3, <1>4, <1>6 DEF c
  <2>2. ASSUME n > 0 PROVE Bounded(row, a, n - 1, r)
    <3> DEFINE k == Left(H, c, n - 1, r)
    <3>1. k \in Nat /\ n - 1 + k <= n + l
      BY <1>1, <1>2, <1>4, <2>2
    <3>2. Bounded(row, a, n - 1, r) <=> 2 * (a + (n - 1) + k) + Begun(H, r) <= Begun(H, N)
      BY <1>3, <1>6 DEF c
    <3> HIDE DEF k, l
    <3> QED
      BY <1>1, <2>1, <3>1, <3>2
  <2>3. ASSUME r > 0 PROVE Bounded(row, a, n, r - 1)
    <3> DEFINE k == Left(H, c, n, r - 1)
    <3>1. k \in Nat /\ k <= l + 1
      BY <1>1, <1>2, <1>4, <2>3
    <3>2. Bounded(row, a, n, r - 1) <=> 2 * (a + n + k) + Begun(H, r - 1) <= Begun(H, N)
      BY <1>3, <1>6 DEF c
    <3> HIDE DEF k, l
    <3> QED
      BY <1>1, <1>4, <2>1, <2>3, <3>1, <3>2
  <2> QED
    BY <2>2, <2>3
<1> QED
  BY <1>1, <1>5, <1>6

(* A request that has read a count below the limit is about to count; one  *)
(* that counts; the hour that passes: each keeps the bound.                *)
LEMMA BoundCount ==
  ASSUME NEW row \in Row, NEW a \in Nat, NEW n \in Nat, NEW r \in 0 .. Reqs,
         Bounded(row, a, n, r)
  PROVE  /\ n + r < Reqs /\ ~row.old /\ row.count < row.limit => Bounded(row, a, n + 1, r)
         /\ n > 0 => Bounded([row EXCEPT !.count = @ + 1], a + 1, n - 1, r)
         /\ row.old => \A s : Bounded(row, a, n, s)
         /\ Bounded([row EXCEPT !.old = TRUE], a, n, r)
<1> DEFINE H == Cap(row)
           N == Reqs
           c == row.count
           up == [row EXCEPT !.count = @ + 1]
           over == [row EXCEPT !.old = TRUE]
<1>1. /\ H \in Nat \ {0} /\ N \in Nat \ {0} /\ c \in Nat /\ row.old \in BOOLEAN
      /\ Begun(H, N) \in Nat /\ Begun(H, r) \in Nat
  BY ReqsFacts, BegunFacts DEF Row
<1>2. \A m, s, d : Left(H, d, m, s) = IF d + m < H - 1 + N - s THEN H - 1 + N - s - (d + m) ELSE 0
  BY DEF Left
<1>3. \A w, b, m, s : Cap(w) = H =>
        (Bounded(w, b, m, s) <=>
           IF w.old THEN 2 * (b + m) <= Begun(H, N)
                    ELSE 2 * (b + m + Left(H, w.count, m, s)) + Begun(H, s) <= Begun(H, N))
  BY DEF Bounded
<1>4. /\ up.count = c + 1 /\ up.old = row.old /\ over.old = TRUE
      /\ Cap(up) = H /\ Cap(over) = H /\ Cap(row) = H
      /\ row.count < row.limit => c < H
  BY DEF Row, Cap, AtLeastOne
<1> HIDE DEF H, N, c, up, over
<1>5. n + r < N /\ ~row.old /\ c < H => Bounded(row, a, n + 1, r)
  BY <1>1, <1>2, <1>3, <1>4 DEF c
<1>6. n > 0 => Bounded(up, a + 1, n - 1, r)
  <2> SUFFICES ASSUME n > 0 PROVE Bounded(up, a + 1, n - 1, r)
    OBVIOUS
  <2>1. Left(H, c + 1, n - 1, r) = Left(H, c, n, r) /\ Left(H, c, n, r) \in Nat
    BY <1>1, <1>2
  <2>2. (a + 1) + (n - 1) = a + n
    OBVIOUS
  <2> QED
    BY <1>1, <1>3, <1>4, <2>1, <2>2 DEF c
<1>7. row.old => \A s : Bounded(row, a, n, s)
  BY <1>3, <1>4
<1>8. Bounded(over, a, n, r)
  BY <1>1, <1>2, <1>3, <1>4 DEF c
<1> QED
  BY <1>4, <1>5, <1>6, <1>7, <1>8 DEF H, N, c, up, over

(* Beginning the hour keeps the bound: for a row that is old still or that *)
(* another request has begun already, and for a reader of the usage.       *)
LEMMA BoundBegin ==
  ASSUME NEW row \in Row, NEW a \in Nat, NEW n \in Nat, NEW r \in 0 .. Reqs,
         Bounded(row, a, n, r)
  PROVE  /\ r > 0 /\ n + r <= Reqs =>
              Bounded(FreshRow(row, 1), (IF row.old THEN 0 ELSE a) + 1, n, r - 1)
         /\ row.old /\ n + r < Reqs => Bounded(FreshRow(row, 0), 0, n, r)
<1> DEFINE H == Cap(row)
           N == Reqs
           c == row.count
           one == FreshRow(row, 1)
           zero == FreshRow(row, 0)
<1>1. /\ H \in Nat \ {0} /\ N \in Nat \ {0} /\ c \in Nat /\ row.old \in BOOLEAN
      /\ Begun(H, N) \in Nat /\ Begun(H, r) \in Nat /\ Begun(H, r) <= Begun(H, N)
      /\ r > 0 => Begun(H, r - 1) \in Nat /\ Begun(H, r) = Begun(H, r - 1) + 2 * (H + N - r)
      /\ r < N => Begun(H, r + 1) <= Begun(H, N) /\ Begun(H, r + 1) = Begun(H, r) + 2 * (H + N - (r + 1))
  <2>1. r > 0 => r \in 1 .. Reqs /\ r - 1 \in 0 .. Reqs
    BY ReqsFacts
  <2>2. r < N => r + 1 \in 1 .. Reqs /\ r + 1 \in 0 .. Reqs /\ (r + 1) - 1 = r
    BY ReqsFacts
  <2>3. Reqs \in 0 .. Reqs
    BY ReqsFacts
  <2>0. H \in Nat \ {0} /\ c \in Nat /\ row.old \in BOOLEAN /\ N \in Nat \ {0}
    BY ReqsFacts DEF Row
  <2> HIDE DEF H
  <2>4. /\ \A s \in 0 .. Reqs : Begun(H, s) \in Nat /\ Begun(H, s) <= Begun(H, Reqs)
        /\ \A s \in 1 .. Reqs : Begun(H, s) = Begun(H, s - 1) + 2 * (H + Reqs - s)
    BY <2>0, BegunFacts
  <2>5. r < N => Begun(H, r + 1) = Begun(H, r) + 2 * (H + N - (r + 1))
    BY <2>2, <2>4
  <2> QED
    BY <2>0, <2>1, <2>2, <2>3, <2>4, <2>5
<1>2. \A m, s, d : Left(H, d, m, s) = IF d + m < H - 1 + N - s THEN H - 1 + N - s - (d + m) ELSE 0
  BY DEF Left
<1>3. \A w, b, m, s : Cap(w) = H =>
        (Bounded(w, b, m, s) <=>
           IF w.old THEN 2 * (b + m) <= Begun(H, N)
                    ELSE 2 * (b + m + Left(H, w.count, m, s)) + Begun(H, s) <= Begun(H, N))
  BY DEF Bounded
<1>4. /\ one.count = 1 /\ one.old = FALSE /\ zero.count = 0 /\ zero.old = FALSE
      /\ Cap(one) = H /\ Cap(zero) = H /\ Cap(row) = H
  BY DEF Row, FreshRow, Cap
<1> HIDE DEF H, N, c, one, zero
<1>5. ASSUME r > 0, n + r <= N
      PROVE  Bounded(one, (IF row.old THEN 0 ELSE a) + 1, n, r - 1)
  <2>1. 1 + n + Left(H, 1, n, r - 1) = H + N - r
    BY <1>1, <1>2, <1>5
  <2>2. CASE row.old
    <3> DEFINE k == Left(H, 1, n, r - 1)
    <3>1. k \in Nat
      BY <1>1, <1>2, <1>5
    <3>2. Bounded(one, 1, n, r - 1) <=> 2 * (1 + n + k) + Begun(H, r - 1) <= Begun(H, N)
      BY <1>3, <1>4
    <3>3. 1 + n + k = H + N - r
      BY <2>1
    <3> HIDE DEF k
    <3>4. Bounded(one, 1, n, r - 1)
      BY <1>1, <1>5, <3>1, <3>2, <3>3
    <3>5. (IF row.old THEN 0 ELSE a) + 1 = 1
      BY <2>2
    <3> QED
      BY <3>4, <3>5
  <2>3. CASE ~row.old
    <3>1. 2 * a + Begun(H, r) <= Begun(H, N)
      <4> DEFINE k == Left(H, c, n, r)
      <4>1. k \in Nat
        BY <1>1, <1>2, <1>5
      <4>2. 2 * (a + n + k) + Begun(H, r) <= Begun(H, N)
        BY <1>3, <1>4, <2>3 DEF c
      <4> HIDE DEF k
      <4> QED
        BY <1>1, <4>1, <4>2
    <3>2. Left(H, 1, n, r - 1) \in Nat
      BY <1>1, <1>2, <1>5
    <3> QED
      BY <1>1, <1>3, <1>4, <1>5, <2>1, <2>3, <3>1, <3>2
  <2> QED
    BY <1>1, <2>2, <2>3
<1>6. ASSUME row.old, n + r < N
      PROVE  Bounded(zero, 0, n, r)
  <2>1. n + Left(H, 0, n, r) = H + N - (r + 1) /\ r < N
    BY <1>1, <1>2, <1>6
  <2>2. Left(H, 0, n, r) \in Nat
    BY <1>1, <1>2, <1>6
  <2> QED
    BY <1>1, <1>3, <1>4, <2>1, <2>2
<1> QED
  BY <1>5, <1>6 DEF H, N, c, one, zero

(* A new row is within the bound.                                          *)
LEMMA BoundNew ==
  ASSUME NEW limit \in Int
  PROVE  NewRow(limit) \in Row /\ Bounded(NewRow(limit), 0, 0, 0)
<1> DEFINE row == NewRow(limit)
           H == Cap(row)
<1>1. row \in Row /\ row.count = 0 /\ row.old = FALSE
  BY DEF Row, NewRow
<1>2. Bounded(row, 0, 0, 0) <=> 2 * (0 + 0 + Left(H, 0, 0, 0)) + Begun(H, 0) <= Begun(H, Reqs)
  BY <1>1 DEF Bounded
<1>3. Reqs \in Nat \ {0} /\ H \in Nat \ {0}
  BY <1>1, ReqsFacts
<1> HIDE DEF row, H
<1>4. 1 \in 1 .. Reqs /\ 1 \in 0 .. Reqs /\ 1 - 1 = 0
  BY <1>3
<1>5. Begun(H, 1) = Begun(H, 1 - 1) + 2 * (H + Reqs - 1) /\ Begun(H, 1) <= Begun(H, Reqs) /\ Begun(H, 0) = 0
  BY <1>3, <1>4, BegunFacts
<1>6. Left(H, 0, 0, 0) = H - 1 + Reqs
  BY <1>3 DEF Left
<1>7. Bounded(row, 0, 0, 0)
  BY <1>2, <1>3, <1>4, <1>5, <1>6
<1> QED
  BY <1>1, <1>7 DEF row

(* What the bound says of the requests admitted.                           *)
LEMMA BoundSays ==
  ASSUME NEW row \in Row, NEW a \in Nat, NEW n \in Nat, NEW r \in 0 .. Reqs,
         Bounded(row, a, n, r)
  PROVE  a <= Reqs * Cap(row) + (Reqs * (Reqs - 1)) \div 2
<1> DEFINE H == Cap(row)
           x == Reqs * H
           y == Reqs * (Reqs - 1)
<1>1. /\ Reqs \in Nat \ {0} /\ H \in Nat \ {0} /\ row.count \in Nat /\ row.old \in BOOLEAN
      /\ Begun(H, Reqs) = 2 * x + y /\ Begun(H, r) \in Nat
  BY ReqsFacts, BegunFacts DEF Row
<1>2. x \in Int /\ y \in Int
  BY <1>1
<1>3. Left(H, row.count, n, r) \in Nat
  BY <1>1 DEF Left
<1> HIDE DEF x, y
<1>4. 2 * a <= 2 * x + y
  BY <1>1, <1>2, <1>3 DEF Bounded
<1>5. a <= x + (y \div 2)
  BY <1>2, <1>4
<1> QED
  BY <1>5 DEF x, y

-----------------------------------------------------------------------------
(* What a request that goes from c[p] to r changes in these numbers.       *)
Moved(c, p, r) == [c EXCEPT ![p] = r]

(* Only the request that moves changes.                                    *)
LEMMA MovedIs ==
  ASSUME NEW c \in [KeyRequests -> KeyCallType], NEW p \in KeyRequests, NEW r \in KeyCallType
  PROVE  /\ Moved(c, p, r) \in [KeyRequests -> KeyCallType]
         /\ Moved(c, p, r)[p] = r
         /\ \A q \in KeyRequests \ {p} : Moved(c, p, r)[q] = c[q]
<1> HIDE DEF KeyCallType
<1> QED
  BY DEF Moved

(* Two sets of requests that differ at most in p.                          *)
LEMMA SizeOf ==
  ASSUME NEW S \in SUBSET KeyRequests, NEW T \in SUBSET KeyRequests, NEW p \in KeyRequests,
         \A q \in KeyRequests \ {p} : q \in S <=> q \in T
  PROVE  /\ Cardinality(S) \in 0 .. Reqs
         /\ (p \in S <=> p \in T) => Cardinality(T) = Cardinality(S)
         /\ p \in S /\ p \notin T => Cardinality(S) > 0 /\ Cardinality(T) = Cardinality(S) - 1
         /\ p \notin S /\ p \in T => Cardinality(T) = Cardinality(S) + 1
<1>1. IsFiniteSet(KeyRequests)
  BY ApiKeysAssumption
<1>2. /\ IsFiniteSet(S) /\ IsFiniteSet(T) /\ Cardinality(S) \in Nat /\ Cardinality(T) \in Nat
      /\ Cardinality(S) <= Reqs /\ Reqs \in Nat
  BY <1>1, FS_Subset, FS_CardinalityType DEF Reqs
<1>3. CASE p \in S /\ p \notin T
  <2>1. T = S \ {p}
    BY <1>3
  <2>2. Cardinality(S \ {p}) = Cardinality(S) - 1
    BY <1>2, <1>3, FS_RemoveElement
  <2> QED
    BY <1>2, <1>3, <2>1, <2>2
<1>4. CASE p \notin S /\ p \in T
  <2>1. T = S \cup {p}
    BY <1>4
  <2>2. Cardinality(S \cup {p}) = Cardinality(S) + 1
    BY <1>2, <1>4, FS_AddElement
  <2> QED
    BY <1>2, <1>4, <2>1, <2>2
<1>5. CASE p \in S <=> p \in T
  <2>1. T = S
    BY <1>5
  <2> QED
    BY <1>2, <1>5, <2>1
<1> QED
  BY <1>3, <1>4, <1>5

(* How many are about to count, when p moves.                              *)
LEMMA MovedCounts ==
  ASSUME NEW c \in [KeyRequests -> KeyCallType], NEW p \in KeyRequests, NEW r \in KeyCallType,
         NEW k
  PROVE  /\ ToCount(c, k) \in 0 .. Reqs
         /\ (Counts(c[p], k) <=> Counts(r, k)) => ToCount(Moved(c, p, r), k) = ToCount(c, k)
         /\ Counts(c[p], k) /\ ~Counts(r, k) =>
              ToCount(c, k) > 0 /\ ToCount(Moved(c, p, r), k) = ToCount(c, k) - 1
         /\ ~Counts(c[p], k) /\ Counts(r, k) => ToCount(Moved(c, p, r), k) = ToCount(c, k) + 1
<1> DEFINE S == Counting(c, k)
           T == Counting(Moved(c, p, r), k)
<1>1. S \in SUBSET KeyRequests /\ T \in SUBSET KeyRequests
  BY DEF Counting
<1>2. \A q \in KeyRequests \ {p} : q \in S <=> q \in T
  BY MovedIs DEF Counting
<1>3. (p \in S <=> Counts(c[p], k)) /\ (p \in T <=> Counts(r, k))
  BY MovedIs DEF Counting
<1>4. ToCount(c, k) = Cardinality(S) /\ ToCount(Moved(c, p, r), k) = Cardinality(T)
  BY DEF ToCount
<1> HIDE DEF S, T
<1> QED
  BY <1>1, <1>2, <1>3, <1>4, SizeOf

(* How many are about to begin the hour, when p moves.                     *)
LEMMA MovedRestarts ==
  ASSUME NEW c \in [KeyRequests -> KeyCallType], NEW p \in KeyRequests, NEW r \in KeyCallType,
         NEW k
  PROVE  /\ ToBegin(c, k) \in 0 .. Reqs
         /\ (Restarts(c[p], k) <=> Restarts(r, k)) => ToBegin(Moved(c, p, r), k) = ToBegin(c, k)
         /\ Restarts(c[p], k) /\ ~Restarts(r, k) =>
              ToBegin(c, k) > 0 /\ ToBegin(Moved(c, p, r), k) = ToBegin(c, k) - 1
         /\ ~Restarts(c[p], k) /\ Restarts(r, k) => ToBegin(Moved(c, p, r), k) = ToBegin(c, k) + 1
<1> DEFINE S == Restarting(c, k)
           T == Restarting(Moved(c, p, r), k)
<1>1. S \in SUBSET KeyRequests /\ T \in SUBSET KeyRequests
  BY DEF Restarting
<1>2. \A q \in KeyRequests \ {p} : q \in S <=> q \in T
  BY MovedIs DEF Restarting
<1>3. (p \in S <=> Restarts(c[p], k)) /\ (p \in T <=> Restarts(r, k))
  BY MovedIs DEF Restarting
<1>4. ToBegin(c, k) = Cardinality(S) /\ ToBegin(Moved(c, p, r), k) = Cardinality(T)
  BY DEF ToBegin
<1> HIDE DEF S, T
<1> QED
  BY <1>1, <1>2, <1>3, <1>4, SizeOf

(* No request is about to do both, so they are all the requests at most;   *)
(* one that does neither leaves room for one.                              *)
LEMMA AtMostReqs ==
  ASSUME NEW c \in [KeyRequests -> KeyCallType], NEW k
  PROVE  /\ ToCount(c, k) \in Nat /\ ToBegin(c, k) \in Nat /\ ToCount(c, k) + ToBegin(c, k) <= Reqs
         /\ \A p \in KeyRequests : ~Counts(c[p], k) /\ ~Restarts(c[p], k) =>
              ToCount(c, k) + ToBegin(c, k) < Reqs
<1> DEFINE S == Counting(c, k)
           T == Restarting(c, k)
<1>1. /\ S \in SUBSET KeyRequests /\ T \in SUBSET KeyRequests
      /\ \A p \in KeyRequests : (p \in S <=> Counts(c[p], k)) /\ (p \in T <=> Restarts(c[p], k))
  BY DEF Counting, Restarting
<1>2. \A p \in KeyRequests : ~(p \in S /\ p \in T)
  BY <1>1 DEF Counts, Restarts
<1>3. ToCount(c, k) = Cardinality(S) /\ ToBegin(c, k) = Cardinality(T)
  BY DEF ToCount, ToBegin
<1> HIDE DEF S, T
<1>4. IsFiniteSet(KeyRequests)
  BY ApiKeysAssumption
<1>5. IsFiniteSet(S) /\ IsFiniteSet(T) /\ Cardinality(S) \in Nat /\ Cardinality(T) \in Nat
  BY <1>1, <1>4, FS_Subset, FS_CardinalityType
<1>6. S \cap T = {} /\ S \cup T \subseteq KeyRequests
  BY <1>1, <1>2
<1>7. Cardinality(S \cup T) = Cardinality(S) + Cardinality(T) /\ IsFiniteSet(S \cup T)
  <2>1. Cardinality(S \cup T) = Cardinality(S) + Cardinality(T) - Cardinality(S \cap T)
    BY <1>5, FS_Union
  <2>2. Cardinality(S \cap T) = 0
    BY <1>6, FS_EmptySet
  <2> QED
    BY <1>5, <2>1, <2>2, FS_Union
<1>8. Cardinality(S \cup T) <= Reqs
  BY <1>4, <1>6, FS_Subset DEF Reqs
<1>9. ASSUME NEW p \in KeyRequests, p \notin S, p \notin T
      PROVE  Cardinality(S \cup T) < Reqs
  <2>1. S \cup T # KeyRequests
    BY <1>9
  <2>2. Cardinality(S \cup T) # Cardinality(KeyRequests)
    BY <1>4, <1>6, <2>1, FS_Subset
  <2>3. Cardinality(S \cup T) \in Nat /\ Reqs \in Nat
    BY <1>4, <1>7, FS_CardinalityType DEF Reqs
  <2> QED
    BY <1>8, <2>2, <2>3 DEF Reqs
<1> QED
  BY <1>1, <1>3, <1>5, <1>7, <1>8, <1>9

-----------------------------------------------------------------------------
(* The bound, over the keys, when a request moves.                         *)
Quiet(r) == r.op # "validate"

(* A request that does not validate neither counts nor begins the hour.    *)
LEMMA QuietIs == \A r, k : Quiet(r) => ~Counts(r, k) /\ ~Restarts(r, k)
BY DEF Quiet, Counts, Restarts

(* A request that ends, or that does something else, keeps the bound.      *)
LEMMA HourlyQuiet ==
  ASSUME NEW ks, NEW ad, NEW d, NEW n \in Nat, NEW t, NEW c, NEW p \in KeyRequests, NEW r \in KeyCallType,
         StoreOK(ks, ad, d, n), CallsOK(c, d, t), Hourly(ks, ad, c), Quiet(r)
  PROVE  Hourly(ks, ad, Moved(c, p, r))
<1> SUFFICES ASSUME NEW k \in DOMAIN ks
             PROVE  Bounded(ks[k], ad[k], ToCount(Moved(c, p, r), k), ToBegin(Moved(c, p, r), k))
  BY DEF Hourly
<1> DEFINE w == ToCount(c, k)
           b == ToBegin(c, k)
           w2 == ToCount(Moved(c, p, r), k)
           b2 == ToBegin(Moved(c, p, r), k)
<1>1. c \in [KeyRequests -> KeyCallType] /\ ~Counts(r, k) /\ ~Restarts(r, k)
  BY QuietIs DEF CallsOK
<1>2. ks[k] \in Row /\ k \in 1 .. n /\ ad[k] \in Nat
  BY DEF StoreOK
<1>3. Bounded(ks[k], ad[k], w, b)
  BY DEF Hourly
<1>4. w \in 0 .. Reqs /\ (w2 = w \/ (w > 0 /\ w2 = w - 1))
  BY <1>1, MovedCounts
<1>5. b \in 0 .. Reqs /\ (b2 = b \/ (b > 0 /\ b2 = b - 1))
  BY <1>1, MovedRestarts
<1>6. ~(Counts(c[p], k) /\ Restarts(c[p], k))
  BY DEF Counts, Restarts
<1>7. w2 = w \/ b2 = b
  BY <1>1, <1>6, MovedCounts, MovedRestarts
<1> HIDE DEF w, b, w2, b2
<1>8. w \in Nat /\ Reqs \in Nat
  BY <1>4, ReqsFacts
<1>9. /\ w > 0 => Bounded(ks[k], ad[k], w - 1, b)
      /\ b > 0 => Bounded(ks[k], ad[k], w, b - 1)
  BY <1>2, <1>3, <1>5, <1>8, BoundQuiet
<1>10. Bounded(ks[k], ad[k], w2, b2)
  BY <1>3, <1>4, <1>5, <1>7, <1>9
<1> QED
  BY <1>10 DEF w2, b2

(* A request that has read the row.                                        *)
LEMMA HourlyStart ==
  ASSUME NEW ks, NEW ad, NEW d, NEW n \in Nat, NEW t, NEW c, NEW p \in KeyRequests, NEW r \in KeyCallType,
         StoreOK(ks, ad, d, n), CallsOK(c, d, t), Hourly(ks, ad, c), Quiet(c[p]),
         NEW j \in DOMAIN ks, r.key = j, r.op = "validate",
         \/ r.step = "count" /\ ~ks[j].old /\ ks[j].count < ks[j].limit
         \/ r.step = "restart" /\ ks[j].old
  PROVE  Hourly(ks, ad, Moved(c, p, r))
<1> SUFFICES ASSUME NEW k \in DOMAIN ks
             PROVE  Bounded(ks[k], ad[k], ToCount(Moved(c, p, r), k), ToBegin(Moved(c, p, r), k))
  BY DEF Hourly
<1> DEFINE w == ToCount(c, k)
           b == ToBegin(c, k)
           w2 == ToCount(Moved(c, p, r), k)
           b2 == ToBegin(Moved(c, p, r), k)
<1>1. c \in [KeyRequests -> KeyCallType] /\ ~Counts(c[p], k) /\ ~Restarts(c[p], k)
  BY QuietIs DEF CallsOK
<1>2. ks[k] \in Row /\ k \in 1 .. n /\ ad[k] \in Nat
  BY DEF StoreOK
<1>3. Bounded(ks[k], ad[k], w, b)
  BY DEF Hourly
<1>4. w \in 0 .. Reqs /\ b \in 0 .. Reqs /\ w \in Nat /\ b \in Nat /\ Reqs \in Nat /\ w + b < Reqs
  BY <1>1, MovedCounts, MovedRestarts, AtMostReqs, ReqsFacts
<1>5. /\ Counts(r, k) => w2 = w + 1
      /\ ~Counts(r, k) => w2 = w
  BY <1>1, MovedCounts
<1>6. /\ Restarts(r, k) => b2 = b + 1
      /\ ~Restarts(r, k) => b2 = b
  BY <1>1, MovedRestarts
<1> HIDE DEF w, b, w2, b2
<1>7. /\ w + b < Reqs /\ ~ks[k].old /\ ks[k].count < ks[k].limit => Bounded(ks[k], ad[k], w + 1, b)
      /\ ks[k].old => \A s : Bounded(ks[k], ad[k], w, s)
  BY <1>2, <1>3, <1>4, BoundCount
<1>8. CASE k # j
  <2>1. ~Counts(r, k) /\ ~Restarts(r, k)
    BY <1>8 DEF Counts, Restarts
  <2> QED
    BY <2>1, <1>3, <1>5, <1>6 DEF w, b, w2, b2
<1>9. CASE k = j /\ r.step = "count" /\ ~ks[j].old /\ ks[j].count < ks[j].limit
  <2>1. Counts(r, k) /\ ~Restarts(r, k)
    BY <1>9 DEF Counts, Restarts
  <2>2. Bounded(ks[k], ad[k], w + 1, b)
    BY <1>4, <1>7, <1>9
  <2> QED
    BY <2>1, <2>2, <1>5, <1>6 DEF w2, b2
<1>10. CASE k = j /\ r.step = "restart" /\ ks[j].old
  <2>1. ~Counts(r, k) /\ Restarts(r, k)
    BY <1>10 DEF Counts, Restarts
  <2>2. Bounded(ks[k], ad[k], w, b2)
    BY <1>7, <1>10
  <2> QED
    BY <2>1, <2>2, <1>5, <1>6 DEF w2, b2
<1> QED
  BY <1>8, <1>9, <1>10

(* A request that writes the row.                                          *)
WithRow(ks, j, row) == [ks EXCEPT ![j] = row]
WithAdmitted(ad, j, a) == [ad EXCEPT ![j] = a]

(* What writing one row changes.                                           *)
LEMMA WithIs ==
  ASSUME NEW ks, NEW ad, NEW d, NEW n \in Nat, StoreOK(ks, ad, d, n),
         NEW j \in DOMAIN ks, NEW row \in Row, NEW a \in Nat
  PROVE  /\ StoreOK(WithRow(ks, j, row), WithAdmitted(ad, j, a), d, n)
         /\ DOMAIN WithRow(ks, j, row) = DOMAIN ks
         /\ WithRow(ks, j, row)[j] = row /\ WithAdmitted(ad, j, a)[j] = a
         /\ \A k \in DOMAIN ks : k # j => /\ WithRow(ks, j, row)[k] = ks[k]
                                          /\ WithAdmitted(ad, j, a)[k] = ad[k]
<1>1. /\ d \in 0 .. n /\ DOMAIN ks \subseteq 1 .. d /\ \A k \in DOMAIN ks : ks[k] \in Row
      /\ ad \in [1 .. n -> Nat] /\ \A k \in 1 .. n : k > d => ad[k] = 0
  BY DEF StoreOK
<1>2. j \in 1 .. n /\ ~(j > d) /\ \A k \in DOMAIN ks : k \in 1 .. n
  BY <1>1
<1> HIDE DEF Row
<1>3. /\ DOMAIN WithRow(ks, j, row) = DOMAIN ks /\ WithRow(ks, j, row)[j] = row
      /\ \A k \in DOMAIN ks : k # j => WithRow(ks, j, row)[k] = ks[k]
  BY DEF WithRow
<1>4. /\ WithAdmitted(ad, j, a) \in [1 .. n -> Nat] /\ WithAdmitted(ad, j, a)[j] = a
      /\ \A k \in 1 .. n : k # j => WithAdmitted(ad, j, a)[k] = ad[k]
  BY <1>1, <1>2 DEF WithAdmitted
<1> QED
  BY <1>1, <1>2, <1>3, <1>4 DEF StoreOK

(* Whatever of the three writes it is, the row written is within the       *)
(* bound.                                                                  *)
LEMMA HourlyWrite ==
  ASSUME NEW ks, NEW ad, NEW d, NEW n \in Nat, NEW t, NEW c, NEW p \in KeyRequests, NEW r \in KeyCallType,
         StoreOK(ks, ad, d, n), CallsOK(c, d, t), Hourly(ks, ad, c), Quiet(r),
         NEW j \in DOMAIN ks, NEW row \in Row, NEW a \in Nat,
         \/ /\ Counts(c[p], j)
            /\ row = [ks[j] EXCEPT !.count = @ + 1] /\ a = ad[j] + 1
         \/ /\ Restarts(c[p], j)
            /\ row = FreshRow(ks[j], 1) /\ a = (IF ks[j].old THEN 0 ELSE ad[j]) + 1
         \/ /\ Quiet(c[p]) /\ ks[j].old
            /\ row = FreshRow(ks[j], 0) /\ a = 0
  PROVE  Hourly(WithRow(ks, j, row), WithAdmitted(ad, j, a), Moved(c, p, r))
<1> DEFINE ks2 == WithRow(ks, j, row)
           ad2 == WithAdmitted(ad, j, a)
<1>0. /\ DOMAIN ks2 = DOMAIN ks /\ ks2[j] = row /\ ad2[j] = a
      /\ \A k \in DOMAIN ks : k # j => ks2[k] = ks[k] /\ ad2[k] = ad[k]
  BY WithIs
<1> HIDE DEF ks2, ad2
<1>1. Hourly(ks, ad, Moved(c, p, r))
  BY HourlyQuiet
<1> SUFFICES ASSUME NEW k \in DOMAIN ks
             PROVE  Bounded(ks2[k], ad2[k], ToCount(Moved(c, p, r), k), ToBegin(Moved(c, p, r), k))
  BY <1>0 DEF Hourly, ks2, ad2
<1>2. CASE k # j
  BY <1>0, <1>1, <1>2 DEF Hourly
<1>3. CASE k = j
  <2> DEFINE w == ToCount(c, j)
             b == ToBegin(c, j)
             w2 == ToCount(Moved(c, p, r), j)
             b2 == ToBegin(Moved(c, p, r), j)
  <2>1. c \in [KeyRequests -> KeyCallType] /\ ~Counts(r, j) /\ ~Restarts(r, j)
    BY QuietIs DEF CallsOK
  <2>2. ks[j] \in Row /\ j \in 1 .. n /\ ad[j] \in Nat
    BY DEF StoreOK
  <2>3. Bounded(ks[j], ad[j], w, b)
    BY DEF Hourly
  <2>4. w \in 0 .. Reqs /\ b \in 0 .. Reqs /\ w \in Nat /\ b \in Nat /\ Reqs \in Nat /\ w + b <= Reqs
    BY <2>1, MovedCounts, MovedRestarts, AtMostReqs, ReqsFacts
  <2>5. /\ Counts(c[p], j) => w > 0 /\ w2 = w - 1
        /\ ~Counts(c[p], j) => w2 = w
    BY <2>1, MovedCounts
  <2>6. /\ Restarts(c[p], j) => b > 0 /\ b2 = b - 1
        /\ ~Restarts(c[p], j) => b2 = b
    BY <2>1, MovedRestarts
  <2>7. Quiet(c[p]) => w + b < Reqs
    BY <2>1, QuietIs, AtMostReqs
  <2> HIDE DEF w, b, w2, b2
  <2>8. CASE Counts(c[p], j) /\ row = [ks[j] EXCEPT !.count = @ + 1] /\ a = ad[j] + 1
    <3>1. ~Restarts(c[p], j)
      BY <2>8 DEF Counts, Restarts
    <3>2. w > 0 => Bounded([ks[j] EXCEPT !.count = @ + 1], ad[j] + 1, w - 1, b)
      BY <2>2, <2>3, <2>4, BoundCount
    <3>3. Bounded(row, a, w2, b2)
      BY <2>5, <2>6, <2>8, <3>1, <3>2
    <3> QED
      BY <1>0, <1>3, <3>3 DEF w2, b2
  <2>9. CASE Restarts(c[p], j) /\ row = FreshRow(ks[j], 1) /\ a = (IF ks[j].old THEN 0 ELSE ad[j]) + 1
    <3>1. ~Counts(c[p], j)
      BY <2>9 DEF Counts, Restarts
    <3>2. b > 0 /\ w + b <= Reqs => Bounded(FreshRow(ks[j], 1), (IF ks[j].old THEN 0 ELSE ad[j]) + 1, w, b - 1)
      BY <2>2, <2>3, <2>4, BoundBegin
    <3>3. Bounded(row, a, w2, b2)
      BY <2>4, <2>5, <2>6, <2>9, <3>1, <3>2
    <3> QED
      BY <1>0, <1>3, <3>3 DEF w2, b2
  <2>10. CASE Quiet(c[p]) /\ ks[j].old /\ row = FreshRow(ks[j], 0) /\ a = 0
    <3>1. ~Counts(c[p], j) /\ ~Restarts(c[p], j)
      BY <2>10, QuietIs
    <3>2. ks[j].old /\ w + b < Reqs => Bounded(FreshRow(ks[j], 0), 0, w, b)
      BY <2>2, <2>3, <2>4, BoundBegin
    <3>3. Bounded(row, a, w2, b2)
      BY <2>5, <2>6, <2>7, <2>10, <3>1, <3>2
    <3> QED
      BY <1>0, <1>3, <3>3 DEF w2, b2
  <2> QED
    BY <2>8, <2>9, <2>10
<1> QED
  BY <1>2, <1>3

(* Rows that come, go and grow old.                                        *)
RowsAnd(ks, j, w) == [k \in DOMAIN ks \cup {j} |-> IF k = j THEN w ELSE ks[k]]

LEMMA HourlyInsert ==
  ASSUME NEW ks, NEW ad, NEW d, NEW n \in Nat, NEW t, NEW c,
         StoreOK(ks, ad, d, n), CallsOK(c, d, t), Hourly(ks, ad, c), d < n,
         NEW w \in Row, Bounded(w, 0, 0, 0)
  PROVE  StoreOK(RowsAnd(ks, d + 1, w), ad, d + 1, n) /\ Hourly(RowsAnd(ks, d + 1, w), ad, c)
<1> DEFINE ks2 == RowsAnd(ks, d + 1, w)
<1>1. /\ d \in 0 .. n /\ DOMAIN ks \subseteq 1 .. d /\ \A k \in DOMAIN ks : ks[k] \in Row
      /\ ad \in [1 .. n -> Nat] /\ \A k \in 1 .. n : k > d => ad[k] = 0
  BY DEF StoreOK
<1>2. d + 1 \in 1 .. n /\ d + 1 \notin DOMAIN ks /\ ad[d + 1] = 0
  BY <1>1
<1>4. /\ DOMAIN ks2 = DOMAIN ks \cup {d + 1} /\ ks2[d + 1] = w
      /\ \A k \in DOMAIN ks : ks2[k] = ks[k]
  BY <1>2 DEF RowsAnd
<1> HIDE DEF ks2
<1>5. StoreOK(ks2, ad, d + 1, n)
  <2>1. d + 1 \in 0 .. n /\ DOMAIN ks2 \subseteq 1 .. d + 1
    BY <1>1, <1>2, <1>4
  <2>2. \A k \in 1 .. n : k > d + 1 => ad[k] = 0
    BY <1>1
  <2>3. \A k \in DOMAIN ks2 : ks2[k] \in Row
    BY <1>1, <1>4
  <2> QED
    BY <1>1, <2>1, <2>2, <2>3 DEF StoreOK
<1>6. ToCount(c, d + 1) = 0 /\ ToBegin(c, d + 1) = 0
  <2>1. \A p \in KeyRequests : c[p].key # d + 1
    <3>1. \A p \in KeyRequests : c[p].key <= d
      BY DEF CallsOK
    <3> QED
      BY <3>1, <1>1
  <2>2. Counting(c, d + 1) = {} /\ Restarting(c, d + 1) = {}
    BY <2>1 DEF Counting, Restarting, Counts, Restarts
  <2> QED
    BY <2>2, FS_EmptySet DEF ToCount, ToBegin
<1>7. Bounded(ks2[d + 1], ad[d + 1], ToCount(c, d + 1), ToBegin(c, d + 1))
  BY <1>2, <1>4, <1>6
<1> QED
  BY <1>4, <1>5, <1>7 DEF Hourly, ks2

(* A key that is deleted leaves the others within the bound.               *)
LEMMA HourlyDelete ==
  ASSUME NEW ks, NEW ad, NEW d, NEW n \in Nat, NEW c, NEW j,
         StoreOK(ks, ad, d, n), Hourly(ks, ad, c),
         NEW ks2, ks2 = [k \in DOMAIN ks \ {j} |-> ks[k]]
  PROVE  StoreOK(ks2, ad, d, n) /\ Hourly(ks2, ad, c)
<1>1. DOMAIN ks2 = DOMAIN ks \ {j} /\ \A k \in DOMAIN ks2 : ks2[k] = ks[k]
  OBVIOUS
<1> QED
  BY <1>1 DEF StoreOK, Hourly

(* The hour of a key passes.                                               *)
LEMMA HourlyOver ==
  ASSUME NEW ks, NEW ad, NEW d, NEW n \in Nat, NEW t, NEW c, NEW j \in DOMAIN ks,
         StoreOK(ks, ad, d, n), CallsOK(c, d, t), Hourly(ks, ad, c),
         NEW ks2, ks2 = [ks EXCEPT ![j].old = TRUE]
  PROVE  StoreOK(ks2, ad, d, n) /\ Hourly(ks2, ad, c)
<1>1. /\ DOMAIN ks2 = DOMAIN ks /\ ks2[j] = [ks[j] EXCEPT !.old = TRUE]
      /\ \A k \in DOMAIN ks : k # j => ks2[k] = ks[k]
  OBVIOUS
<1>2. ks[j] \in Row /\ j \in 1 .. n /\ ad[j] \in Nat
  BY DEF StoreOK
<1>3. [ks[j] EXCEPT !.old = TRUE] \in Row
  BY <1>2 DEF Row
<1>4. StoreOK(ks2, ad, d, n)
  BY <1>1, <1>3 DEF StoreOK
<1>5. c \in [KeyRequests -> KeyCallType] /\ ToCount(c, j) \in Nat /\ ToBegin(c, j) \in 0 .. Reqs
  <2>1. c \in [KeyRequests -> KeyCallType]
    BY DEF CallsOK
  <2> QED
    BY <2>1, AtMostReqs, ReqsFacts
<1>6. Bounded(ks[j], ad[j], ToCount(c, j), ToBegin(c, j))
  BY DEF Hourly
<1>7. Bounded([ks[j] EXCEPT !.old = TRUE], ad[j], ToCount(c, j), ToBegin(c, j))
  BY <1>2, <1>5, <1>6, BoundCount
<1> QED
  BY <1>1, <1>4, <1>7 DEF Hourly

-----------------------------------------------------------------------------
(* The actions.                                                            *)
KeyInv == KeyTypes /\ HourInv

Called(op, step, user, key, at) ==
  [op |-> op, step |-> step, user |-> user, key |-> key, at |-> at]

(* The fields of a request.                                                *)
LEMMA CalledIs ==
  ASSUME NEW op \in KeyOps, NEW step \in KeySteps, NEW user \in Users \cup {"none"},
         NEW key \in Nat, NEW at \in Nat
  PROVE  LET r == Called(op, step, user, key, at)
         IN  r \in KeyCallType /\ r.op = op /\ r.step = step /\ r.key = key /\ r.at = at
BY DEF Called, KeyCallType

(* An idle request is quiet.                                               *)
LEMMA IdleIsQuiet == KeyIdle \in KeyCallType /\ Quiet(KeyIdle) /\ KeyIdle.key = 0 /\ KeyIdle.at = 0
BY DEF KeyIdle, KeyCallType, Quiet, KeyOps, KeySteps

(* A request that moves knows of no key that is not drawn and no time that *)
(* is to come.                                                             *)
LEMMA CallsMove ==
  ASSUME NEW c, NEW d \in Nat, NEW t \in Nat, CallsOK(c, d, t), NEW e \in Nat, d <= e,
         NEW p \in KeyRequests, NEW r \in KeyCallType, r.key <= e, r.at <= t
  PROVE  CallsOK(Moved(c, p, r), e, t)
<1>1. c \in [KeyRequests -> KeyCallType] /\ \A q \in KeyRequests : c[q].key <= d /\ c[q].at <= t
  BY DEF CallsOK
<1>2. \A q \in KeyRequests : c[q].key \in Nat /\ c[q].at \in Nat
  BY <1>1 DEF KeyCallType
<1>3. \A q \in KeyRequests : Moved(c, p, r)[q].key <= e /\ Moved(c, p, r)[q].at <= t
  <2> SUFFICES ASSUME NEW q \in KeyRequests PROVE Moved(c, p, r)[q].key <= e /\ Moved(c, p, r)[q].at <= t
    OBVIOUS
  <2>1. CASE q = p
    BY <1>1, <2>1, MovedIs
  <2>2. CASE q # p
    <3>1. Moved(c, p, r)[q] = c[q]
      BY <1>1, <2>2, MovedIs
    <3> QED
      BY <1>1, <1>2, <3>1
  <2> QED
    BY <2>1, <2>2
<1> QED
  BY <1>1, <1>3, MovedIs DEF CallsOK

(* At the start there is no key and no request.                            *)
LEMMA KeyInvInit == KeyInit => KeyInv
<1> SUFFICES ASSUME KeyInit PROVE KeyInv
  OBVIOUS
<1>1. /\ keyLoad \in KeyLoads /\ keys = << >> /\ drawn = 0 /\ link = [u \in Users |-> 0]
      /\ admitted = [k \in 1 .. keyLoad.keys |-> 0] /\ now = 0
      /\ keyCall = [p \in KeyRequests |-> KeyIdle]
  BY DEF KeyInit
<1>2. keyLoad.keys \in Nat /\ DOMAIN keys = {}
  BY <1>1, ApiKeysAssumption
<1>3. StoreOK(keys, admitted, drawn, keyLoad.keys)
  BY <1>1, <1>2 DEF StoreOK
<1>4. CallsOK(keyCall, drawn, now)
  BY <1>1, IdleIsQuiet DEF CallsOK
<1> QED
  BY <1>1, <1>2, <1>3, <1>4 DEF KeyInv, KeyTypes, HourInv, Hourly

(* A step that moves one quiet request and leaves the keys alone keeps the *)
(* invariant.                                                              *)
LEMMA Quietly ==
  ASSUME KeyInv, NEW p \in KeyRequests, NEW r \in KeyCallType, Quiet(r), r.key <= drawn, r.at <= now,
         keyCall' = Moved(keyCall, p, r), UNCHANGED <<keyLoad, keys, drawn, admitted, now>>,
         link' \in [Users -> 0 .. drawn]
  PROVE  KeyInv'
<1>1. /\ keyLoad \in KeyLoads /\ keyLoad.keys \in Nat /\ now \in Nat
      /\ StoreOK(keys, admitted, drawn, keyLoad.keys) /\ CallsOK(keyCall, drawn, now)
      /\ Hourly(keys, admitted, keyCall)
  BY DEF KeyInv, KeyTypes, HourInv
<1>2. drawn \in Nat /\ drawn <= drawn
  BY <1>1 DEF StoreOK
<1>3. CallsOK(Moved(keyCall, p, r), drawn, now)
  BY <1>1, <1>2, CallsMove
<1>4. Hourly(keys, admitted, Moved(keyCall, p, r))
  BY <1>1, HourlyQuiet
<1> QED
  BY <1>1, <1>3, <1>4 DEF KeyInv, KeyTypes, HourInv

(* A request writes the row of the key it has read, and ends.              *)
LEMMA Writes ==
  ASSUME KeyInv, NEW p \in KeyRequests, NEW j \in Held, NEW row \in Row, NEW a \in Nat,
         \/ /\ Counts(keyCall[p], j)
            /\ row = [keys[j] EXCEPT !.count = @ + 1] /\ a = admitted[j] + 1
         \/ /\ Restarts(keyCall[p], j)
            /\ row = FreshRow(keys[j], 1) /\ a = (IF keys[j].old THEN 0 ELSE admitted[j]) + 1
         \/ /\ Quiet(keyCall[p]) /\ keys[j].old
            /\ row = FreshRow(keys[j], 0) /\ a = 0,
         keys' = WithRow(keys, j, row), admitted' = WithAdmitted(admitted, j, a),
         keyCall' = Moved(keyCall, p, KeyIdle), UNCHANGED <<keyLoad, drawn, link, now>>
  PROVE  KeyInv'
<1>1. /\ keyLoad \in KeyLoads /\ keyLoad.keys \in Nat /\ now \in Nat
      /\ StoreOK(keys, admitted, drawn, keyLoad.keys) /\ CallsOK(keyCall, drawn, now)
      /\ Hourly(keys, admitted, keyCall) /\ link \in [Users -> 0 .. drawn] /\ j \in DOMAIN keys
  BY DEF KeyInv, KeyTypes, HourInv, Held
<1>2. drawn \in Nat /\ drawn <= drawn /\ 0 <= drawn /\ 0 <= now
  BY <1>1 DEF StoreOK
<1>3. CallsOK(Moved(keyCall, p, KeyIdle), drawn, now)
  BY <1>1, <1>2, CallsMove, IdleIsQuiet
<1>4. StoreOK(WithRow(keys, j, row), WithAdmitted(admitted, j, a), drawn, keyLoad.keys)
  BY <1>1, WithIs
<1>5. Hourly(WithRow(keys, j, row), WithAdmitted(admitted, j, a), Moved(keyCall, p, KeyIdle))
  BY <1>1, IdleIsQuiet, HourlyWrite
<1> QED
  BY <1>1, <1>3, <1>4, <1>5 DEF KeyInv, KeyTypes, HourInv

(* Types, spelled out for one request.                                     *)
LEMMA RowsAre ==
  ASSUME KeyInv, NEW p \in KeyRequests
  PROVE  /\ keyCall \in [KeyRequests -> KeyCallType] /\ keyCall[p] \in KeyCallType
         /\ keyCall[p].key \in Nat /\ keyCall[p].key <= drawn
         /\ keyCall[p].at \in Nat /\ keyCall[p].at <= now
         /\ \A k \in Held : keys[k] \in Row /\ admitted[k] \in Nat /\ k \in Nat /\ k <= drawn
         /\ drawn \in Nat /\ now \in Nat /\ link \in [Users -> 0 .. drawn]
         /\ \A u \in Users : link[u] \in Nat /\ link[u] <= drawn
<1>1. /\ keyLoad.keys \in Nat /\ now \in Nat
      /\ StoreOK(keys, admitted, drawn, keyLoad.keys) /\ CallsOK(keyCall, drawn, now)
      /\ link \in [Users -> 0 .. drawn]
  BY DEF KeyInv, KeyTypes
<1>2. keyCall \in [KeyRequests -> KeyCallType] /\ keyCall[p].key <= drawn /\ keyCall[p].at <= now
  BY <1>1 DEF CallsOK
<1>3. keyCall[p].key \in Nat /\ keyCall[p].at \in Nat
  BY <1>2 DEF KeyCallType
<1>4. /\ drawn \in 0 .. keyLoad.keys /\ Held \subseteq 1 .. drawn /\ \A k \in Held : keys[k] \in Row
      /\ admitted \in [1 .. keyLoad.keys -> Nat]
  BY <1>1 DEF StoreOK, Held
<1>5. \A k \in Held : k \in 1 .. keyLoad.keys
  BY <1>1, <1>4
<1>6. \A k \in Held : admitted[k] \in Nat /\ k \in Nat /\ k <= drawn
  BY <1>4, <1>5
<1>7. drawn \in Nat /\ \A u \in Users : link[u] \in Nat /\ link[u] <= drawn
  BY <1>1, <1>4
<1> QED
  BY <1>1, <1>2, <1>3, <1>4, <1>6, <1>7

(* The moves, as the actions write them.                                   *)
LEMMA StartsAre ==
  ASSUME NEW p
  PROVE  /\ \A k : KeyStarts(p, "validate", [KeyIdle EXCEPT !.step = "restart", !.key = k]) =>
                keyCall' = Moved(keyCall, p, Called("validate", "restart", "none", k, 0))
         /\ \A k : KeyStarts(p, "validate", [KeyIdle EXCEPT !.step = "count", !.key = k]) =>
                keyCall' = Moved(keyCall, p, Called("validate", "count", "none", k, 0))
         /\ \A u, k, s : KeyStarts(p, "get", [KeyIdle EXCEPT !.user = u, !.key = k, !.step = s]) =>
                keyCall' = Moved(keyCall, p, Called("get", s, u, k, 0))
         /\ \A u, k : KeyStarts(p, "usage", [KeyIdle EXCEPT !.user = u, !.key = k, !.step = "find"]) =>
                keyCall' = Moved(keyCall, p, Called("usage", "find", u, k, 0))
         /\ KeyStarts(p, "check", [KeyIdle EXCEPT !.step = "entry", !.at = now]) =>
                keyCall' = Moved(keyCall, p, Called("check", "entry", "none", 0, now))
         /\ KeyEnds(p) => keyCall' = Moved(keyCall, p, KeyIdle)
         /\ \A s : KeyGoes(p, s) => keyCall' = Moved(keyCall, p, [keyCall[p] EXCEPT !.step = s])
BY Zenon DEF KeyStarts, KeyBecomes, KeyEnds, KeyGoes, KeyIdle, Moved, Called

(* A request that goes to a step keeps its other fields.                   *)
LEMMA GoesOn ==
  ASSUME NEW r \in KeyCallType, NEW s \in KeySteps
  PROVE  LET q == [r EXCEPT !.step = s]
         IN  q \in KeyCallType /\ q.op = r.op /\ q.key = r.key /\ q.at = r.at
BY DEF KeyCallType

(* validate_and_track_usage, at each of its statements.                    *)
LEMMA ValidateKeeps ==
  ASSUME KeyInv, NEW p \in KeyRequests, Validate(p), UNCHANGED keyLoad
  PROVE  KeyInv'
<1>0. UNCHANGED <<asks, passed, now>>
  BY Zenon DEF Validate, limiter
<1>1. CASE \E k \in Held :
           /\ keys[k].old
           /\ KeyStarts(p, "validate", [KeyIdle EXCEPT !.step = "restart", !.key = k])
           /\ UNCHANGED table
  <2>1. PICK k \in Held :
           /\ keys[k].old
           /\ KeyStarts(p, "validate", [KeyIdle EXCEPT !.step = "restart", !.key = k])
           /\ UNCHANGED table
    BY Zenon, <1>1
  <2> DEFINE r == Called("validate", "restart", "none", k, 0)
  <2>2. keyCall' = Moved(keyCall, p, r)
    BY Zenon, <2>1, StartsAre
  <2>3. r \in KeyCallType /\ r.op = "validate" /\ r.step = "restart" /\ r.key = k /\ r.at = 0
    <3>1. "validate" \in KeyOps /\ "restart" \in KeySteps /\ "none" \in Users \cup {"none"}
      BY DEF KeyOps, KeySteps
    <3>2. k \in Nat
      BY RowsAre
    <3> QED
      BY <3>1, <3>2, CalledIs
  <2> HIDE DEF r
  <2>4. /\ keyLoad \in KeyLoads /\ keyLoad.keys \in Nat /\ now \in Nat
        /\ StoreOK(keys, admitted, drawn, keyLoad.keys) /\ CallsOK(keyCall, drawn, now)
        /\ Hourly(keys, admitted, keyCall) /\ link \in [Users -> 0 .. drawn] /\ k \in DOMAIN keys
    BY DEF KeyInv, KeyTypes, HourInv, Held
  <2>5. Quiet(keyCall[p])
    BY <2>1, IdleIsQuiet DEF KeyStarts
  <2>6. drawn \in Nat /\ drawn <= drawn /\ k <= drawn /\ 0 <= now
    BY <2>4, RowsAre
  <2>7. CallsOK(Moved(keyCall, p, r), drawn, now)
    BY <2>3, <2>4, <2>6, CallsMove
  <2>8. Hourly(keys, admitted, Moved(keyCall, p, r))
    BY <2>1, <2>3, <2>4, <2>5, HourlyStart
  <2> QED
    BY <1>0, <2>1, <2>2, <2>4, <2>7, <2>8 DEF KeyInv, KeyTypes, HourInv, table
<1>2. CASE \E k \in Held :
           /\ ~keys[k].old /\ MayUse(keys[k])
           /\ KeyStarts(p, "validate", [KeyIdle EXCEPT !.step = "count", !.key = k])
           /\ UNCHANGED table
  <2>1. PICK k \in Held :
           /\ ~keys[k].old /\ MayUse(keys[k])
           /\ KeyStarts(p, "validate", [KeyIdle EXCEPT !.step = "count", !.key = k])
           /\ UNCHANGED table
    BY Zenon, <1>2
  <2> DEFINE r == Called("validate", "count", "none", k, 0)
  <2>2. keyCall' = Moved(keyCall, p, r)
    BY Zenon, <2>1, StartsAre
  <2>3. r \in KeyCallType /\ r.op = "validate" /\ r.step = "count" /\ r.key = k /\ r.at = 0
    <3>1. "validate" \in KeyOps /\ "count" \in KeySteps /\ "none" \in Users \cup {"none"}
      BY DEF KeyOps, KeySteps
    <3>2. k \in Nat
      BY RowsAre
    <3> QED
      BY <3>1, <3>2, CalledIs
  <2> HIDE DEF r
  <2>4. /\ keyLoad \in KeyLoads /\ keyLoad.keys \in Nat /\ now \in Nat
        /\ StoreOK(keys, admitted, drawn, keyLoad.keys) /\ CallsOK(keyCall, drawn, now)
        /\ Hourly(keys, admitted, keyCall) /\ link \in [Users -> 0 .. drawn] /\ k \in DOMAIN keys
    BY DEF KeyInv, KeyTypes, HourInv, Held
  <2>5. Quiet(keyCall[p]) /\ keys[k].count < keys[k].limit
    BY <2>1, IdleIsQuiet DEF KeyStarts, MayUse
  <2>6. drawn \in Nat /\ drawn <= drawn /\ k <= drawn /\ 0 <= now
    BY <2>4, RowsAre
  <2>7. CallsOK(Moved(keyCall, p, r), drawn, now)
    BY <2>3, <2>4, <2>6, CallsMove
  <2>8. Hourly(keys, admitted, Moved(keyCall, p, r))
    BY <2>1, <2>3, <2>4, <2>5, HourlyStart
  <2> QED
    BY <1>0, <2>1, <2>2, <2>4, <2>7, <2>8 DEF KeyInv, KeyTypes, HourInv, table
<1>3. CASE /\ KeyAt(p, "validate", "restart")
           /\ Restart(keyCall[p].key, 1, 1)
           /\ KeyEnds(p)
           /\ UNCHANGED <<drawn, link>>
  <2> DEFINE k == keyCall[p].key
             a == (IF keys[k].old THEN 0 ELSE admitted[k]) + 1
  <2>1. keyCall' = Moved(keyCall, p, KeyIdle)
    BY Zenon, <1>3, StartsAre
  <2>2. CASE k \in Held
    <3>1. keys' = WithRow(keys, k, FreshRow(keys[k], 1)) /\ admitted' = WithAdmitted(admitted, k, a)
      BY <1>3, <2>2 DEF Restart, WithRow, WithAdmitted, FreshRow
    <3>2. a \in Nat
      BY <2>2, RowsAre DEF Row
    <3>3. FreshRow(keys[k], 1) \in Row
      BY <2>2, RowsAre DEF Row, FreshRow
    <3>4. Restarts(keyCall[p], k)
      BY <1>3 DEF KeyAt, Restarts
    <3> QED
      BY <1>0, <1>3, <2>1, <2>2, <3>1, <3>2, <3>3, <3>4, Writes
  <2>3. CASE k \notin Held
    <3>1. UNCHANGED <<keys, admitted>>
      BY <1>3, <2>3 DEF Restart
    <3>2. link' \in [Users -> 0 .. drawn] /\ 0 <= drawn /\ 0 <= now
      BY <1>3, RowsAre
    <3> QED
      BY <1>0, <1>3, <2>1, <3>1, <3>2, IdleIsQuiet, Quietly
  <2> QED
    BY <2>2, <2>3
<1>4. CASE /\ KeyAt(p, "validate", "count")
           /\ IF keyCall[p].key \in Held
                THEN /\ keys' = [keys EXCEPT ![keyCall[p].key].count = @ + 1]
                     /\ admitted' = [admitted EXCEPT ![keyCall[p].key] = @ + 1]
                ELSE UNCHANGED <<keys, admitted>>
           /\ KeyEnds(p)
           /\ UNCHANGED <<drawn, link>>
  <2> DEFINE k == keyCall[p].key
             a == admitted[k] + 1
             row == [keys[k] EXCEPT !.count = @ + 1]
  <2>1. keyCall' = Moved(keyCall, p, KeyIdle)
    BY Zenon, <1>4, StartsAre
  <2>2. CASE k \in Held
    <3>1. keys' = WithRow(keys, k, row) /\ admitted' = WithAdmitted(admitted, k, a)
      BY <1>4, <2>2 DEF WithRow, WithAdmitted
    <3>2. a \in Nat /\ row \in Row
      BY <2>2, RowsAre DEF Row
    <3>3. Counts(keyCall[p], k)
      BY <1>4 DEF KeyAt, Counts
    <3> QED
      BY <1>0, <1>4, <2>1, <2>2, <3>1, <3>2, <3>3, Writes
  <2>3. CASE k \notin Held
    <3>1. UNCHANGED <<keys, admitted>>
      BY <1>4, <2>3
    <3>2. link' \in [Users -> 0 .. drawn] /\ 0 <= drawn /\ 0 <= now
      BY <1>4, RowsAre
    <3> QED
      BY <1>0, <1>4, <2>1, <3>1, <3>2, IdleIsQuiet, Quietly
  <2> QED
    BY <2>2, <2>3
<1> QED
  BY Zenon, <1>1, <1>2, <1>3, <1>4 DEF Validate

(* What get_key stores as the limit.                                       *)
LEMMA FreeIsInt == FreeLimit \in Int
BY ApiKeysAssumption

(* get_key, at each of its statements.                                     *)
LEMMA GetKeyKeeps ==
  ASSUME KeyInv, NEW p \in KeyRequests, GetKey(p), UNCHANGED keyLoad
  PROVE  KeyInv'
<1>0. UNCHANGED <<admitted, asks, passed, now>>
  BY Zenon DEF GetKey, limiter
<1>1. CASE /\ \E u \in Users :
                KeyStarts(p, "get", [KeyIdle EXCEPT !.user = u, !.key = link[u],
                                     !.step = IF link[u] = 0 THEN "insert" ELSE "find"])
           /\ UNCHANGED <<keys, drawn, link>>
  <2>1. PICK u \in Users :
                KeyStarts(p, "get", [KeyIdle EXCEPT !.user = u, !.key = link[u],
                                     !.step = IF link[u] = 0 THEN "insert" ELSE "find"])
    BY Zenon, <1>1
  <2> DEFINE s == IF link[u] = 0 THEN "insert" ELSE "find"
             r == Called("get", s, u, link[u], 0)
  <2>2. keyCall' = Moved(keyCall, p, r)
    BY Zenon, <2>1, StartsAre
  <2>3. r \in KeyCallType /\ r.op = "get" /\ r.key = link[u] /\ r.at = 0
    <3>1. "get" \in KeyOps /\ s \in KeySteps /\ u \in Users \cup {"none"}
      BY DEF KeyOps, KeySteps
    <3>2. link[u] \in Nat
      BY RowsAre
    <3> QED
      BY <3>1, <3>2, CalledIs
  <2> HIDE DEF r
  <2>4. Quiet(r)
    BY <2>3 DEF Quiet
  <2>5. r.key <= drawn /\ r.at <= now /\ link' \in [Users -> 0 .. drawn]
    BY <1>1, <2>3, RowsAre
  <2> QED
    BY <1>0, <1>1, <2>2, <2>3, <2>4, <2>5, Quietly
<1>2. CASE /\ KeyAt(p, "get", "find") /\ keyCall[p].key \in Held
           /\ KeyEnds(p)
           /\ UNCHANGED <<keys, drawn, link>>
  <2>1. keyCall' = Moved(keyCall, p, KeyIdle)
    BY Zenon, <1>2, StartsAre
  <2>2. link' \in [Users -> 0 .. drawn] /\ 0 <= drawn /\ 0 <= now
    BY <1>2, RowsAre
  <2> QED
    BY <1>0, <1>2, <2>1, <2>2, IdleIsQuiet, Quietly
<1>3. CASE /\ KeyAt(p, "get", "find") /\ keyCall[p].key \notin Held
           /\ KeyGoes(p, "clear")
           /\ UNCHANGED <<keys, drawn, link>>
  <2> DEFINE r == [keyCall[p] EXCEPT !.step = "clear"]
  <2>1. keyCall' = Moved(keyCall, p, r)
    BY Zenon, <1>3, StartsAre
  <2>2. r \in KeyCallType /\ r.op = "get" /\ r.key = keyCall[p].key /\ r.at = keyCall[p].at
    BY <1>3, RowsAre, GoesOn DEF KeyAt, KeySteps
  <2> HIDE DEF r
  <2>3. r.key <= drawn /\ r.at <= now /\ link' \in [Users -> 0 .. drawn] /\ Quiet(r)
    BY <1>3, <2>2, RowsAre DEF Quiet
  <2> QED
    BY <1>0, <1>3, <2>1, <2>2, <2>3, Quietly
<1>4. CASE /\ KeyAt(p, "get", "clear")
           /\ link' = [link EXCEPT ![keyCall[p].user] = 0]
           /\ KeyGoes(p, "insert")
           /\ UNCHANGED <<keys, drawn>>
  <2> DEFINE r == [keyCall[p] EXCEPT !.step = "insert"]
  <2>1. keyCall' = Moved(keyCall, p, r)
    BY Zenon, <1>4, StartsAre
  <2>2. r \in KeyCallType /\ r.op = "get" /\ r.key = keyCall[p].key /\ r.at = keyCall[p].at
    BY <1>4, RowsAre, GoesOn DEF KeyAt, KeySteps
  <2> HIDE DEF r
  <2>3. r.key <= drawn /\ r.at <= now /\ Quiet(r)
    BY <2>2, RowsAre DEF Quiet
  <2>4. link' \in [Users -> 0 .. drawn]
    <3>1. link \in [Users -> 0 .. drawn] /\ 0 \in 0 .. drawn
      BY RowsAre
    <3> QED
      BY <1>4, <3>1
  <2> QED
    BY <1>0, <1>4, <2>1, <2>2, <2>3, <2>4, Quietly
<1>5. CASE /\ KeyAt(p, "get", "insert")
           /\ InsertKey(FreeLimit)
           /\ KeyBecomes(p, [keyCall[p] EXCEPT !.step = "link", !.key = drawn'])
           /\ UNCHANGED link
  <2> DEFINE w == NewRow(FreeLimit)
             r == [keyCall[p] EXCEPT !.step = "link", !.key = drawn + 1]
             k2 == [k \in Held \cup {drawn + 1} |->
                      IF k = drawn + 1 THEN w ELSE keys[k]]
  <2>1. drawn < keyLoad.keys /\ drawn' = drawn + 1 /\ keys' = k2 /\ keyCall' = Moved(keyCall, p, r)
    BY <1>5 DEF InsertKey, NewRow, KeyBecomes, Moved
  <2>2. r \in KeyCallType /\ r.op = "get" /\ r.key = drawn + 1 /\ r.at = keyCall[p].at
    <3>1. drawn + 1 \in Nat /\ "link" \in KeySteps /\ keyCall[p] \in KeyCallType /\ keyCall[p].op = "get"
      BY <1>5, RowsAre DEF KeyAt, KeySteps
    <3> QED
      BY <3>1 DEF KeyCallType
  <2> HIDE DEF r
  <2>3. /\ keyLoad \in KeyLoads /\ keyLoad.keys \in Nat /\ now \in Nat
        /\ StoreOK(keys, admitted, drawn, keyLoad.keys) /\ CallsOK(keyCall, drawn, now)
        /\ Hourly(keys, admitted, keyCall) /\ link \in [Users -> 0 .. drawn]
    BY DEF KeyInv, KeyTypes, HourInv
  <2>4. drawn \in Nat /\ drawn + 1 \in Nat /\ drawn <= drawn + 1 /\ r.key <= drawn + 1 /\ r.at <= now
    BY <2>2, RowsAre
  <2>5. k2 = RowsAnd(keys, drawn + 1, w)
    BY DEF Held, RowsAnd
  <2>6. Hourly(keys, admitted, Moved(keyCall, p, r)) /\ CallsOK(Moved(keyCall, p, r), drawn + 1, now)
    <3>1. Quiet(r)
      BY <2>2 DEF Quiet
    <3> QED
      BY <2>2, <2>3, <2>4, <3>1, HourlyQuiet, CallsMove
  <2>w. w \in Row /\ Bounded(w, 0, 0, 0)
    BY FreeIsInt, BoundNew
  <2> HIDE DEF k2, w
  <2>7. StoreOK(k2, admitted, drawn + 1, keyLoad.keys) /\ Hourly(k2, admitted, keyCall)
    BY <2>w, <2>1, <2>3, <2>5, HourlyInsert
  <2>8. Hourly(k2, admitted, Moved(keyCall, p, r))
    <3>1. Quiet(r)
      BY <2>2 DEF Quiet
    <3>2. CallsOK(keyCall, drawn + 1, now)
      <4>1. \A q \in KeyRequests : keyCall[q].key \in Nat
        BY <2>3 DEF CallsOK, KeyCallType
      <4>2. \A q \in KeyRequests : keyCall[q].key <= drawn + 1
        BY <2>3, <2>4, <4>1 DEF CallsOK
      <4> QED
        BY <2>3, <4>2 DEF CallsOK
    <3> QED
      BY <2>2, <2>3, <2>7, <3>1, <3>2, HourlyQuiet
  <2>9. link \in [Users -> 0 .. drawn + 1]
    BY <2>3, <2>4
  <2> QED
    BY <1>0, <1>5, <2>1, <2>3, <2>6, <2>7, <2>8, <2>9 DEF KeyInv, KeyTypes, HourInv
<1>6. CASE /\ KeyAt(p, "get", "link")
           /\ link' = [link EXCEPT ![keyCall[p].user] = keyCall[p].key]
           /\ KeyEnds(p)
           /\ UNCHANGED <<keys, drawn>>
  <2>1. keyCall' = Moved(keyCall, p, KeyIdle)
    BY Zenon, <1>6, StartsAre
  <2>2. 0 <= drawn /\ 0 <= now
    BY RowsAre
  <2>3. link' \in [Users -> 0 .. drawn]
    <3>1. link \in [Users -> 0 .. drawn] /\ keyCall[p].key \in 0 .. drawn
      BY RowsAre
    <3> QED
      BY <1>6, <3>1
  <2> QED
    BY <1>0, <1>6, <2>1, <2>2, <2>3, IdleIsQuiet, Quietly
<1> QED
  BY Zenon, <1>1, <1>2, <1>3, <1>4, <1>5, <1>6 DEF GetKey

(* api_usage, at each of its statements.                                   *)
LEMMA ApiUsageKeeps ==
  ASSUME KeyInv, NEW p \in KeyRequests, ApiUsage(p), UNCHANGED keyLoad
  PROVE  KeyInv'
<1>0. UNCHANGED <<asks, passed, now>>
  BY Zenon DEF ApiUsage, limiter
<1>1. CASE /\ \E u \in Users :
                /\ link[u] # 0
                /\ KeyStarts(p, "usage", [KeyIdle EXCEPT !.user = u, !.key = link[u],
                                          !.step = "find"])
           /\ UNCHANGED table
  <2>1. PICK u \in Users :
                KeyStarts(p, "usage", [KeyIdle EXCEPT !.user = u, !.key = link[u],
                                       !.step = "find"])
    BY Zenon, <1>1
  <2> DEFINE r == Called("usage", "find", u, link[u], 0)
  <2>2. keyCall' = Moved(keyCall, p, r)
    BY Zenon, <2>1, StartsAre
  <2>3. r \in KeyCallType /\ r.op = "usage" /\ r.key = link[u] /\ r.at = 0
    <3>1. "usage" \in KeyOps /\ "find" \in KeySteps /\ u \in Users \cup {"none"}
      BY DEF KeyOps, KeySteps
    <3>2. link[u] \in Nat
      BY RowsAre
    <3> QED
      BY <3>1, <3>2, CalledIs
  <2> HIDE DEF r
  <2>4. r.key <= drawn /\ r.at <= now /\ link' \in [Users -> 0 .. drawn] /\ Quiet(r)
    BY <1>1, <2>3, RowsAre DEF Quiet, table
  <2> QED
    BY <1>0, <1>1, <2>2, <2>3, <2>4, Quietly DEF table
<1>2. CASE /\ KeyAt(p, "usage", "find")
           /\ KeyGoes(p, IF keyCall[p].key \in Held THEN "restart" ELSE "clear")
           /\ UNCHANGED table
  <2> DEFINE s == IF keyCall[p].key \in Held THEN "restart" ELSE "clear"
             r == [keyCall[p] EXCEPT !.step = s]
  <2>1. keyCall' = Moved(keyCall, p, r)
    BY Zenon, <1>2, StartsAre
  <2>2. r \in KeyCallType /\ r.op = "usage" /\ r.key = keyCall[p].key /\ r.at = keyCall[p].at
    <3>1. s \in KeySteps /\ keyCall[p] \in KeyCallType /\ keyCall[p].op = "usage"
      BY <1>2, RowsAre DEF KeyAt, KeySteps
    <3> HIDE DEF s
    <3> QED
      BY <3>1, GoesOn
  <2> HIDE DEF r
  <2>3. r.key <= drawn /\ r.at <= now /\ link' \in [Users -> 0 .. drawn] /\ Quiet(r)
    BY <1>2, <2>2, RowsAre DEF Quiet, table
  <2> QED
    BY <1>0, <1>2, <2>1, <2>2, <2>3, Quietly DEF table
<1>3. CASE /\ KeyAt(p, "usage", "clear")
           /\ link' = [link EXCEPT ![keyCall[p].user] = 0]
           /\ KeyEnds(p)
           /\ UNCHANGED <<keys, drawn, admitted>>
  <2>1. keyCall' = Moved(keyCall, p, KeyIdle)
    BY Zenon, <1>3, StartsAre
  <2>2. 0 <= drawn /\ 0 <= now
    BY RowsAre
  <2>3. link' \in [Users -> 0 .. drawn]
    <3>1. link \in [Users -> 0 .. drawn] /\ 0 \in 0 .. drawn
      BY RowsAre
    <3> QED
      BY <1>3, <3>1
  <2> QED
    BY <1>0, <1>3, <2>1, <2>2, <2>3, IdleIsQuiet, Quietly
<1>4. CASE /\ KeyAt(p, "usage", "restart")
           /\ IF keyCall[p].key \in Held /\ keys[keyCall[p].key].old
                THEN Restart(keyCall[p].key, 0, 0) ELSE UNCHANGED <<keys, admitted>>
           /\ KeyEnds(p)
           /\ UNCHANGED <<drawn, link>>
  <2> DEFINE k == keyCall[p].key
  <2>1. keyCall' = Moved(keyCall, p, KeyIdle)
    BY Zenon, <1>4, StartsAre
  <2>2. CASE k \in Held /\ keys[k].old
    <3>1. keys' = WithRow(keys, k, FreshRow(keys[k], 0)) /\ admitted' = WithAdmitted(admitted, k, 0)
      <4>1. /\ keys' = [keys EXCEPT ![k] = [@ EXCEPT !.count = 0, !.old = FALSE]]
            /\ admitted' = [admitted EXCEPT ![k] = 0 + 0]
        BY <1>4, <2>2 DEF Restart
      <4> QED
        BY <4>1 DEF WithRow, WithAdmitted, FreshRow
    <3>2. FreshRow(keys[k], 0) \in Row /\ 0 \in Nat
      BY <2>2, RowsAre DEF Row, FreshRow
    <3>3. Quiet(keyCall[p])
      BY <1>4 DEF KeyAt, Quiet
    <3> QED
      BY <1>0, <1>4, <2>1, <2>2, <3>1, <3>2, <3>3, Writes
  <2>3. CASE ~(k \in Held /\ keys[k].old)
    <3>1. UNCHANGED <<keys, admitted>>
      BY <1>4, <2>3
    <3>2. link' \in [Users -> 0 .. drawn] /\ 0 <= drawn /\ 0 <= now
      BY <1>4, RowsAre
    <3> QED
      BY <1>0, <1>4, <2>1, <3>1, <3>2, IdleIsQuiet, Quietly
  <2> QED
    BY <2>2, <2>3
<1> QED
  BY Zenon, <1>1, <1>2, <1>3, <1>4 DEF ApiUsage

(* RateLimiter::check and a request that is dropped leave the keys alone.  *)
LEMMA CheckKeepsHour ==
  ASSUME KeyInv, NEW p \in KeyRequests, Check(p) \/ KeyStops(p), UNCHANGED keyLoad
  PROVE  KeyInv'
<1>0. UNCHANGED <<keys, drawn, link, admitted, now>>
  BY DEF Check, KeyStops, table
<1>1. link' \in [Users -> 0 .. drawn] /\ 0 <= drawn /\ 0 <= now /\ now <= now
  BY <1>0, RowsAre
<1>2. CASE KeyStarts(p, "check", [KeyIdle EXCEPT !.step = "entry", !.at = now])
  <2> DEFINE r == Called("check", "entry", "none", 0, now)
  <2>1. keyCall' = Moved(keyCall, p, r)
    BY Zenon, <1>2, StartsAre
  <2>2. r \in KeyCallType /\ r.op = "check" /\ r.key = 0 /\ r.at = now
    <3>1. "check" \in KeyOps /\ "entry" \in KeySteps /\ "none" \in Users \cup {"none"} /\ now \in Nat /\ 0 \in Nat
      BY RowsAre DEF KeyOps, KeySteps
    <3> QED
      BY <3>1, CalledIs
  <2> HIDE DEF r
  <2>3. Quiet(r)
    BY <2>2 DEF Quiet
  <2> QED
    BY <1>0, <1>1, <2>1, <2>2, <2>3, Quietly
<1>3. CASE KeyEnds(p)
  <2>1. keyCall' = Moved(keyCall, p, KeyIdle)
    BY Zenon, <1>3, StartsAre
  <2> QED
    BY <1>0, <1>1, <2>1, IdleIsQuiet, Quietly
<1> QED
  BY <1>2, <1>3 DEF Check, KeyStops

(* Keys made and deleted, hours that pass, and the clock.                  *)
LEMMA RowsKeep ==
  ASSUME KeyInv, CreateApiKey \/ DeleteApiKey \/ HourPasses \/ Tick, UNCHANGED keyLoad
  PROVE  KeyInv'
<1>0. /\ keyLoad \in KeyLoads /\ keyLoad.keys \in Nat /\ now \in Nat
      /\ StoreOK(keys, admitted, drawn, keyLoad.keys) /\ CallsOK(keyCall, drawn, now)
      /\ Hourly(keys, admitted, keyCall) /\ link \in [Users -> 0 .. drawn] /\ drawn \in Nat
  BY DEF KeyInv, KeyTypes, HourInv, StoreOK
<1>1. \A q \in KeyRequests : keyCall[q].key \in Nat /\ keyCall[q].at \in Nat
  BY <1>0 DEF CallsOK, KeyCallType
<1>2. CASE CreateApiKey
  <2>0. PICK l \in keyLoad.limits : InsertKey(l)
    BY <1>2 DEF CreateApiKey
  <2> DEFINE w == NewRow(l)
  <2>1. /\ drawn < keyLoad.keys /\ drawn' = drawn + 1
        /\ keys' = RowsAnd(keys, drawn + 1, w)
        /\ UNCHANGED <<link, admitted, now, keyCall>> /\ l \in Int
    BY <1>0, <1>2, <2>0, ApiKeysAssumption DEF CreateApiKey, InsertKey, NewRow, Held, RowsAnd, limiter
  <2>w. w \in Row /\ Bounded(w, 0, 0, 0)
    BY <2>1, BoundNew
  <2> HIDE DEF w
  <2>2. StoreOK(keys', admitted, drawn + 1, keyLoad.keys) /\ Hourly(keys', admitted, keyCall)
    BY <1>0, <2>1, <2>w, HourlyInsert
  <2>3. CallsOK(keyCall, drawn + 1, now)
    <3>1. \A q \in KeyRequests : keyCall[q].key <= drawn + 1
      BY <1>0, <1>1 DEF CallsOK
    <3> QED
      BY <1>0, <3>1 DEF CallsOK
  <2>4. link \in [Users -> 0 .. drawn + 1]
    BY <1>0
  <2> QED
    BY <1>0, <2>1, <2>2, <2>3, <2>4 DEF KeyInv, KeyTypes, HourInv
<1>3. CASE DeleteApiKey
  <2>1. PICK k \in Held : keys' = [j \in Held \ {k} |-> keys[j]]
    BY <1>3 DEF DeleteApiKey
  <2>2. UNCHANGED <<drawn, link, admitted, now, keyCall>>
    BY <1>3 DEF DeleteApiKey, limiter
  <2>3. StoreOK(keys', admitted, drawn, keyLoad.keys) /\ Hourly(keys', admitted, keyCall)
    BY <1>0, <2>1, HourlyDelete DEF Held
  <2> QED
    BY <1>0, <2>2, <2>3 DEF KeyInv, KeyTypes, HourInv
<1>4. CASE HourPasses
  <2>1. PICK k \in Held : keys' = [keys EXCEPT ![k].old = TRUE]
    BY <1>4 DEF HourPasses
  <2>2. UNCHANGED <<drawn, link, admitted, now, keyCall>>
    BY <1>4 DEF HourPasses, limiter
  <2>3. StoreOK(keys', admitted, drawn, keyLoad.keys) /\ Hourly(keys', admitted, keyCall)
    BY <1>0, <2>1, HourlyOver DEF Held
  <2> QED
    BY <1>0, <2>2, <2>3 DEF KeyInv, KeyTypes, HourInv
<1>5. CASE Tick
  <2>1. now' = now + 1 /\ UNCHANGED <<keys, drawn, link, admitted, keyCall>>
    BY <1>5 DEF Tick, table
  <2>2. CallsOK(keyCall, drawn, now + 1)
    <3>1. \A q \in KeyRequests : keyCall[q].at <= now + 1
      BY <1>0, <1>1 DEF CallsOK
    <3> QED
      BY <1>0, <3>1 DEF CallsOK
  <2> QED
    BY <1>0, <2>1, <2>2 DEF KeyInv, KeyTypes, HourInv
<1> QED
  BY <1>2, <1>3, <1>4, <1>5

(* Every step keeps the invariant of the keys.                             *)
LEMMA KeyInvKeeps == KeyInv /\ [KeyNext]_keyVars => KeyInv'
<1> SUFFICES ASSUME KeyInv, [KeyNext]_keyVars PROVE KeyInv'
  OBVIOUS
<1>1. CASE KeyNext
  <2>1. UNCHANGED keyLoad
    BY <1>1 DEF KeyNext
  <2>2. CASE \E p \in KeyRequests : \/ Validate(p) \/ GetKey(p) \/ ApiUsage(p)
                                    \/ Check(p) \/ KeyStops(p)
    BY <2>1, <2>2, ValidateKeeps, GetKeyKeeps, ApiUsageKeeps, CheckKeepsHour
  <2>3. CASE CreateApiKey \/ DeleteApiKey \/ HourPasses \/ Tick
    BY <2>1, <2>3, RowsKeep
  <2> QED
    BY <1>1, <2>2, <2>3 DEF KeyNext
<1>2. CASE UNCHANGED keyVars
  <2>1. UNCHANGED <<keyLoad, keys, drawn, link, admitted, now, keyCall>>
    BY <1>2 DEF keyVars, table
  <2> QED
    BY <2>1 DEF KeyInv, KeyTypes, HourInv
<1> QED
  BY <1>1, <1>2

(* So the hourly limit is missed by no more than its bound.                *)
LEMMA HourlyNear == KeyInv => HourlyNearLimit
<1> SUFFICES ASSUME KeyInv, NEW k \in Held
             PROVE  admitted[k] <= Reqs * Cap(keys[k]) + (Reqs * (Reqs - 1)) \div 2
  BY DEF HourlyNearLimit, Reqs, Cap
<1>1. /\ StoreOK(keys, admitted, drawn, keyLoad.keys) /\ CallsOK(keyCall, drawn, now)
      /\ Hourly(keys, admitted, keyCall) /\ k \in DOMAIN keys
  BY DEF KeyInv, KeyTypes, HourInv, Held
<1>2. PICK q : q \in KeyRequests
  BY ApiKeysAssumption
<1>3. keys[k] \in Row /\ admitted[k] \in Nat
  BY <1>2, RowsAre
<1>4. ToCount(keyCall, k) \in Nat /\ ToBegin(keyCall, k) \in 0 .. Reqs
  <2>1. keyCall \in [KeyRequests -> KeyCallType]
    BY <1>1 DEF CallsOK
  <2> QED
    BY <2>1, AtMostReqs, ReqsFacts
<1>5. Bounded(keys[k], admitted[k], ToCount(keyCall, k), ToBegin(keyCall, k))
  BY <1>1 DEF Hourly
<1> QED
  BY <1>3, <1>4, <1>5, BoundSays

-----------------------------------------------------------------------------
(* The entry of the address.                                               *)
LEMMA SpanIs ==
  ASSUME NEW t \in Nat
  PROVE  /\ Window \in Nat
         /\ \A x : x \in Span(t) <=> x \in Int /\ t <= x /\ x <= t + Window
<1>1. Window \in Nat
  BY ApiKeysAssumption
<1> QED
  BY <1>1 DEF Span

(* The entries of a window are some of those there are.                    *)
LEMMA EntriesType ==
  ASSUME NEW s \in Seq(Nat), NEW t
  PROVE  Entries(s, t) \in Nat /\ Entries(s, t) <= Len(s) /\ IsFiniteSet(AskedIn(s, t))
<1>1. DOMAIN s = 1 .. Len(s) /\ Len(s) \in Nat /\ AskedIn(s, t) \subseteq DOMAIN s
  BY DEF AskedIn
<1>2. IsFiniteSet(1 .. Len(s)) /\ Cardinality(1 .. Len(s)) = Len(s)
  <2>1. 1 \in Int /\ Len(s) \in Int
    BY <1>1
  <2> DEFINE n == Len(s)
  <2> HIDE DEF n
  <2>2. n \in Int
    BY <2>1 DEF n
  <2>3. IsFiniteSet(1 .. n) /\ Cardinality(1 .. n) = IF 1 > n THEN 0 ELSE n - 1 + 1
    BY <2>2, FS_Interval
  <2>4. n \in Nat
    BY <1>1 DEF n
  <2>5. Cardinality(1 .. n) = n
    BY <2>3, <2>4
  <2> QED
    BY <2>3, <2>5 DEF n
<1>3. IsFiniteSet(AskedIn(s, t)) /\ Cardinality(AskedIn(s, t)) <= Cardinality(1 .. Len(s))
  BY <1>1, <1>2, FS_Subset
<1> QED
  BY <1>2, <1>3, FS_CardinalityType DEF Entries

(* What is left of the entry: its end, from some place on, and what went   *)
(* was older than the window.                                              *)
Suffix(s, m) == SubSeq(s, m, Len(s))

(* The end of a sequence, place by place.                                  *)
LEMMA SuffixIs ==
  ASSUME NEW s \in Seq(Nat), NEW m \in 1 .. Len(s)
  PROVE  /\ Suffix(s, m) \in Seq(Nat) /\ Len(Suffix(s, m)) = Len(s) - m + 1
         /\ \A i \in 1 .. Len(s) - m + 1 : Suffix(s, m)[i] = s[m + i - 1]
<1>1. Len(s) \in Nat /\ \A i \in 1 .. Len(s) : s[i] \in Nat
  BY ElementOfSeq
<1>2. m \in Int /\ Len(s) \in Int /\ m <= Len(s) /\ \A i \in m .. Len(s) : s[i] \in Nat
  BY <1>1
<1> QED
  BY <1>2, SubSeqProperties DEF Suffix

(* DropOld takes entries from the front only, each older than the window.  *)
LEMMA DropOldIs ==
  ASSUME NEW s \in Seq(Nat), NEW at \in Nat
  PROVE  \/ /\ DropOld(s, at) = << >>
            /\ \A i \in 1 .. Len(s) : at - s[i] > Window
         \/ \E m \in 1 .. Len(s) : /\ DropOld(s, at) = Suffix(s, m)
                                   /\ \A i \in 1 .. m - 1 : at - s[i] > Window
<1> DEFINE kept == {i \in DOMAIN s : at - s[i] <= Window}
<1>1. DOMAIN s = 1 .. Len(s) /\ Len(s) \in Nat /\ \A i \in 1 .. Len(s) : s[i] \in Nat
  BY ElementOfSeq
<1>2. Window \in Nat
  BY ApiKeysAssumption
<1>3. \A i \in 1 .. Len(s) : i \notin kept => at - s[i] > Window
  BY <1>1, <1>2
<1>4. DropOld(s, at) = IF kept = {} THEN << >> ELSE SubSeq(s, Min(kept), Len(s))
  BY DEF DropOld
<1>5. kept \subseteq 1 .. Len(s)
  BY <1>1
<1> HIDE DEF kept
<1>6. CASE kept = {}
  BY <1>3, <1>4, <1>6
<1>7. CASE kept # {}
  <2>1. kept \subseteq Nat
    BY <1>5
  <2>2. \E m \in kept : \A y \in kept : m <= y
    BY <1>7, <2>1, Least
  <2>3. Min(kept) \in kept /\ \A y \in kept : Min(kept) <= y
    BY <2>2 DEF Min
  <2> DEFINE m == Min(kept)
  <2>4. m \in 1 .. Len(s) /\ DropOld(s, at) = Suffix(s, m)
    BY <1>4, <1>5, <1>7, <2>3 DEF Suffix
  <2>5. \A i \in 1 .. m - 1 : i \in 1 .. Len(s) /\ i \notin kept
    BY <1>1, <2>3, <2>4
  <2> QED
    BY <1>3, <2>4, <2>5
<1> QED
  BY <1>6, <1>7

(* An entry of the window stays, or the check is past the window.          *)
LEMMA StaysOrPast ==
  ASSUME NEW s \in Seq(Nat), NEW at \in Nat, NEW t \in Nat
  PROVE  /\ DropOld(s, at) \in Seq(Nat) /\ Len(DropOld(s, at)) <= Len(s)
         /\ Entries(s, t) <= Entries(DropOld(s, at), t) \/ at > t + Window
<1>1. DOMAIN s = 1 .. Len(s) /\ Len(s) \in Nat /\ \A i \in 1 .. Len(s) : s[i] \in Nat
  BY ElementOfSeq
<1>2. Window \in Nat /\ \A x : x \in Span(t) <=> x \in Int /\ t <= x /\ x <= t + Window
  BY SpanIs
<1>3. ASSUME NEW i \in 1 .. Len(s), at - s[i] > Window, s[i] \in Span(t)
      PROVE  at > t + Window
  BY <1>1, <1>2, <1>3
<1>4. CASE /\ DropOld(s, at) = << >>
           /\ \A i \in 1 .. Len(s) : at - s[i] > Window
  <2>1. << >> \in Seq(Nat) /\ Len(<< >>) = 0
    BY EmptySeq
  <2>2. at > t + Window \/ AskedIn(s, t) = {}
    BY <1>1, <1>3, <1>4 DEF AskedIn
  <2>3. Entries(<< >>, t) \in Nat
    BY <2>1, EntriesType
  <2>4. AskedIn(s, t) = {} => Entries(s, t) = 0
    BY FS_EmptySet DEF Entries
  <2> QED
    BY <1>1, <1>4, <2>1, <2>2, <2>3, <2>4
<1>5. CASE \E m \in 1 .. Len(s) : /\ DropOld(s, at) = Suffix(s, m)
                                  /\ \A i \in 1 .. m - 1 : at - s[i] > Window
  <2>1. PICK m \in 1 .. Len(s) : /\ DropOld(s, at) = Suffix(s, m)
                                 /\ \A i \in 1 .. m - 1 : at - s[i] > Window
    BY <1>5
  <2> DEFINE u == Suffix(s, m)
  <2>2. /\ u \in Seq(Nat) /\ Len(u) = Len(s) - m + 1
        /\ \A i \in 1 .. Len(s) - m + 1 : u[i] = s[m + i - 1]
    BY SuffixIs
  <2>3. m \in Nat /\ m >= 1 /\ m <= Len(s)
    BY <1>1
  <2> HIDE DEF u
  <2>4. ASSUME ~(at > t + Window)
        PROVE  Entries(s, t) <= Entries(u, t)
    <3>1. ASSUME NEW i \in AskedIn(s, t)
          PROVE  i - m + 1 \in AskedIn(u, t) /\ i \in Int
      <4>1. i \in 1 .. Len(s) /\ s[i] \in Span(t)
        BY <1>1 DEF AskedIn
      <4>2. ~(i \in 1 .. m - 1)
        BY <1>3, <2>1, <2>4, <4>1
      <4>3. i \in Int /\ i - m + 1 \in 1 .. Len(s) - m + 1 /\ m + (i - m + 1) - 1 = i
        BY <1>1, <2>3, <4>1, <4>2
      <4>4. u[i - m + 1] = s[i]
        BY <2>2, <4>3
      <4>5. DOMAIN u = 1 .. Len(s) - m + 1
        BY <2>2
      <4> QED
        BY <4>1, <4>3, <4>4, <4>5 DEF AskedIn
    <3> DEFINE S == AskedIn(s, t)
               T == AskedIn(u, t)
               f == [i \in S |-> i - m + 1]
    <3>2. IsFiniteSet(T) /\ Entries(s, t) = Cardinality(S) /\ Entries(u, t) = Cardinality(T)
      BY <2>2, EntriesType DEF Entries
    <3>3. \A i \in S : i - m + 1 \in T /\ i \in Int
      BY <3>1
    <3> HIDE DEF S, T
    <3>4. f \in [S -> T] /\ IsInjective(f)
      <4>1. \A a, b \in S : f[a] = f[b] => a = b
        BY <2>3, <3>3
      <4> QED
        BY <3>3, <4>1 DEF IsInjective
    <3>5. f \in Injection(S, T)
      BY <3>4 DEF Injection
    <3>6. Cardinality(S) <= Cardinality(T)
      BY <3>2, <3>5, FS_Injection
    <3> QED
      BY <3>2, <3>6
  <2>5. Len(u) <= Len(s)
    BY <1>1, <2>2, <2>3
  <2>6. DropOld(s, at) = u
    BY <2>1 DEF u
  <2> QED
    BY <2>2, <2>4, <2>5, <2>6
<1> QED
  BY <1>4, <1>5, DropOldIs

(* A check that passes adds its time to the windows it is in.              *)
LEMMA EntriesAppend ==
  ASSUME NEW s \in Seq(Nat), NEW at \in Nat, NEW t \in Nat
  PROVE  /\ Append(s, at) \in Seq(Nat) /\ Len(Append(s, at)) = Len(s) + 1
         /\ Entries(Append(s, at), t) = IF at \in Span(t) THEN Entries(s, t) + 1 ELSE Entries(s, t)
<1> DEFINE u == Append(s, at)
<1>1. /\ u \in Seq(Nat) /\ Len(u) = Len(s) + 1 /\ u[Len(s) + 1] = at
      /\ \A i \in 1 .. Len(s) : u[i] = s[i]
  BY AppendProperties
<1>2. DOMAIN s = 1 .. Len(s) /\ DOMAIN u = 1 .. Len(s) + 1 /\ Len(s) \in Nat
  BY <1>1
<1> HIDE DEF u
<1>3. AskedIn(u, t) = IF at \in Span(t) THEN AskedIn(s, t) \cup {Len(s) + 1} ELSE AskedIn(s, t)
  <2>1. \A i \in 1 .. Len(s) + 1 : i = Len(s) + 1 \/ i \in 1 .. Len(s)
    BY <1>2
  <2>2. \A i \in 1 .. Len(s) : i \in 1 .. Len(s) + 1
    BY <1>2
  <2>3. Len(s) + 1 \in 1 .. Len(s) + 1
    BY <1>2
  <2> QED
    BY <1>1, <1>2, <2>1, <2>2, <2>3 DEF AskedIn
<1>4. Len(s) + 1 \notin AskedIn(s, t)
  BY <1>2 DEF AskedIn
<1>5. IsFiniteSet(AskedIn(s, t))
  BY EntriesType
<1>6. Cardinality(AskedIn(s, t) \cup {Len(s) + 1}) = Cardinality(AskedIn(s, t)) + 1
  BY <1>4, <1>5, FS_AddElement
<1> QED
  BY <1>1, <1>3, <1>6 DEF Entries, u

WithPass(ps, at, i) == ps \cup {<<at, i>>}

(* A request that passes adds at most one to the windows its time is in.   *)
LEMMA PassesAdd ==
  ASSUME NEW ps, IsFiniteSet(ps), NEW at, NEW i, NEW t
  PROVE  /\ IsFiniteSet(WithPass(ps, at, i)) /\ Passes(ps, t) \in Nat
         /\ Passes(WithPass(ps, at, i), t) \in Nat
         /\ Passes(WithPass(ps, at, i), t) <= Passes(ps, t) + 1
         /\ at \notin Span(t) => Passes(WithPass(ps, at, i), t) = Passes(ps, t)
<1> DEFINE x == <<at, i>>
           S == PassedIn(ps, t)
           T == PassedIn(WithPass(ps, at, i), t)
<1>1. x[1] = at
  OBVIOUS
<1>0. WithPass(ps, at, i) = ps \cup {x}
  BY DEF WithPass
<1> HIDE DEF x
<1>2. S \subseteq ps /\ T = IF at \in Span(t) THEN S \cup {x} ELSE S
  BY <1>0, <1>1 DEF PassedIn
<1>3. Passes(ps, t) = Cardinality(S) /\ Passes(WithPass(ps, at, i), t) = Cardinality(T)
  BY DEF Passes
<1> HIDE DEF S, T
<1>4. IsFiniteSet(S) /\ Cardinality(S) \in Nat
  BY <1>2, FS_Subset, FS_CardinalityType
<1>5. Cardinality(S \cup {x}) = IF x \in S THEN Cardinality(S) ELSE Cardinality(S) + 1
  BY <1>4, FS_AddElement
<1>6. Cardinality(S \cup {x}) \in Nat /\ Cardinality(S \cup {x}) <= Cardinality(S) + 1
  BY <1>4, <1>5
<1>7. IsFiniteSet(WithPass(ps, at, i))
  BY <1>0, FS_AddElement
<1> QED
  BY <1>2, <1>3, <1>4, <1>6, <1>7

(* Checks under way, when a request moves.                                 *)
LEMMA AskingIs ==
  ASSUME NEW c \in [KeyRequests -> KeyCallType], NEW p \in KeyRequests, NEW r \in KeyCallType,
         NEW t
  PROVE  /\ Asking(c, t) \in Nat /\ Asking(Moved(c, p, r), t) \in Nat
         /\ ~Asks(r, t) => /\ Asking(Moved(c, p, r), t) <= Asking(c, t)
                           /\ Asking(Moved(c, p, r), t) <= Reqs - 1
                           /\ Asks(c[p], t) => Asking(Moved(c, p, r), t) = Asking(c, t) - 1
<1> DEFINE S == AskingIn(c, t)
           T == AskingIn(Moved(c, p, r), t)
<1>1. S \in SUBSET KeyRequests /\ T \in SUBSET KeyRequests
  BY DEF AskingIn
<1>2. \A q \in KeyRequests \ {p} : q \in S <=> q \in T
  BY MovedIs DEF AskingIn
<1>3. (p \in S <=> Asks(c[p], t)) /\ (p \in T <=> Asks(r, t))
  BY MovedIs DEF AskingIn
<1>4. Asking(c, t) = Cardinality(S) /\ Asking(Moved(c, p, r), t) = Cardinality(T)
  BY DEF Asking
<1> HIDE DEF S, T
<1>5. IsFiniteSet(KeyRequests)
  BY ApiKeysAssumption
<1>6. /\ Cardinality(S) \in Nat /\ Cardinality(T) \in Nat /\ Reqs \in Nat
      /\ Cardinality(T) <= Reqs
  BY <1>1, <1>5, FS_Subset, FS_CardinalityType DEF Reqs
<1>7. p \notin T => Cardinality(T) <= Cardinality(S)
  BY <1>1, <1>2, <1>6, SizeOf
<1>8. p \notin T /\ p \in S => Cardinality(T) = Cardinality(S) - 1
  BY <1>1, <1>2, SizeOf
<1>9. p \notin T => Cardinality(T) <= Reqs - 1
  <2> SUFFICES ASSUME p \notin T PROVE Cardinality(T) <= Reqs - 1
    OBVIOUS
  <2>1. T # KeyRequests
    OBVIOUS
  <2>2. Cardinality(T) # Cardinality(KeyRequests)
    BY <1>1, <1>5, <2>1, FS_Subset
  <2> QED
    BY <1>6, <2>2 DEF Reqs
<1> QED
  BY <1>3, <1>4, <1>6, <1>7, <1>8, <1>9

(* A request that is no check of the window, or becomes one as the clock   *)
(* says.                                                                   *)
LEMMA WindowQuiet ==
  ASSUME NEW s, NEW ps, NEW c \in [KeyRequests -> KeyCallType], NEW n \in Nat, NEW t \in Nat,
         NEW p \in KeyRequests, NEW r \in KeyCallType,
         InWindow(s, ps, c, n, t), r.op = "check" => r.at = n, IsFiniteSet(ps)
  PROVE  InWindow(s, ps, Moved(c, p, r), n, t)
<1>1. CASE Passes(ps, t) <= Entries(s, t)
  BY <1>1 DEF InWindow
<1>2. CASE n > t + Window /\ Passes(ps, t) + Asking(c, t) <= MaxRequests + Reqs - 1
  <2>1. ~Asks(r, t)
    <3>1. n \notin Span(t)
      BY <1>2, SpanIs
    <3> QED
      BY <3>1 DEF Asks
  <2>2. Passes(ps, t) \in Nat
    BY PassesAdd
  <2>3. /\ Asking(c, t) \in Nat /\ Asking(Moved(c, p, r), t) \in Nat
        /\ Asking(Moved(c, p, r), t) <= Asking(c, t)
    BY <2>1, AskingIs
  <2>4. MaxRequests \in Nat /\ Reqs \in Nat
    BY ApiKeysAssumption, ReqsFacts
  <2>5. Passes(ps, t) + Asking(Moved(c, p, r), t) <= MaxRequests + Reqs - 1
    BY <1>2, <2>2, <2>3, <2>4
  <2> QED
    BY <1>2, <2>5 DEF InWindow
<1> QED
  BY <1>1, <1>2 DEF InWindow

(* A check at the entry.                                                   *)
LEMMA WindowEntry ==
  ASSUME NEW s, NEW ps, NEW c \in [KeyRequests -> KeyCallType], NEW n \in Nat, NEW t \in Nat,
         NEW p \in KeyRequests, c[p].op = "check", c[p].step = "entry",
         EntryOK(s, ps), InWindow(s, ps, c, n, t),
         NEW at \in Nat, c[p].at = at, at <= n, NEW i, NEW s2, NEW ps2,
         \/ s2 = DropOld(s, at) /\ ps2 = ps
         \/ s2 = Append(DropOld(s, at), at) /\ ps2 = WithPass(ps, at, i)
  PROVE  InWindow(s2, ps2, Moved(c, p, KeyIdle), n, t)
<1> DEFINE c2 == Moved(c, p, KeyIdle)
           kept == DropOld(s, at)
<1>1. /\ s \in Seq(Nat) /\ Len(s) \in Nat /\ Len(s) <= MaxRequests /\ IsFiniteSet(ps)
      /\ MaxRequests \in Nat /\ Window \in Nat /\ Reqs \in Nat
  BY ApiKeysAssumption, ReqsFacts DEF EntryOK
<1>2. /\ kept \in Seq(Nat) /\ Len(kept) <= Len(s)
      /\ Entries(s, t) <= Entries(kept, t) \/ at > t + Window
  BY <1>1, StaysOrPast
<1>3. at \in Span(t) <=> t <= at /\ at <= t + Window
  BY SpanIs
<1>4. /\ Asking(c, t) \in Nat /\ Asking(c2, t) \in Nat
      /\ Asking(c2, t) <= Asking(c, t) /\ Asking(c2, t) <= Reqs - 1
      /\ at \in Span(t) => Asking(c2, t) = Asking(c, t) - 1
  <2>1. ~Asks(KeyIdle, t)
    BY DEF Asks, KeyIdle
  <2>2. at \in Span(t) => Asks(c[p], t)
    BY DEF Asks
  <2> QED
    BY <2>1, <2>2, IdleIsQuiet, AskingIs
<1>5. /\ Passes(ps, t) \in Nat /\ Passes(ps2, t) \in Nat
      /\ Passes(ps2, t) <= Passes(ps, t) + 1
      /\ at \notin Span(t) => Passes(ps2, t) = Passes(ps, t)
      /\ s2 = kept \/ s2 = Append(kept, at)
      /\ (s2 = kept /\ ps2 = ps) \/ s2 = Append(kept, at)
  <2> DEFINE more == WithPass(ps, at, i)
  <2>0. /\ Passes(ps, t) \in Nat /\ Passes(more, t) \in Nat
        /\ Passes(more, t) <= Passes(ps, t) + 1
        /\ at \notin Span(t) => Passes(more, t) = Passes(ps, t)
    BY <1>1, PassesAdd DEF more
  <2> HIDE DEF more, kept
  <2>1. CASE s2 = kept /\ ps2 = ps
    BY <2>0, <2>1
  <2>2. CASE s2 = Append(kept, at) /\ ps2 = more
    BY <2>0, <2>2
  <2> QED
    BY <2>1, <2>2 DEF more, kept
<1>6. /\ Entries(s, t) \in Nat /\ Entries(s, t) <= Len(s) /\ Entries(kept, t) \in Nat
      /\ Entries(Append(kept, at), t) = IF at \in Span(t) THEN Entries(kept, t) + 1 ELSE Entries(kept, t)
  BY <1>1, <1>2, EntriesType, EntriesAppend
<1> HIDE DEF c2, kept
<1>7. CASE n > t + Window /\ Passes(ps, t) + Asking(c, t) <= MaxRequests + Reqs - 1
  <2>1. Passes(ps2, t) + Asking(c2, t) <= Passes(ps, t) + Asking(c, t)
    BY <1>4, <1>5
  <2>2. Passes(ps2, t) + Asking(c2, t) <= MaxRequests + Reqs - 1
    BY <1>1, <1>4, <1>5, <1>7, <2>1
  <2> QED
    BY <1>7, <2>2 DEF InWindow, c2
<1>8. CASE Passes(ps, t) <= Entries(s, t) /\ Entries(s, t) <= Entries(kept, t)
  <2>1. Passes(ps, t) <= Entries(kept, t)
    BY <1>5, <1>6, <1>8
  <2>2. Passes(ps2, t) <= Entries(s2, t)
    <3>1. CASE s2 = kept /\ ps2 = ps
      BY <2>1, <3>1
    <3>2. CASE s2 = Append(kept, at) /\ at \in Span(t)
      BY <1>5, <1>6, <2>1, <3>2
    <3>3. CASE s2 = Append(kept, at) /\ at \notin Span(t)
      BY <1>5, <1>6, <2>1, <3>3
    <3> QED
      BY <1>5, <3>1, <3>2, <3>3
  <2> QED
    BY <2>2 DEF InWindow
<1>9. CASE Passes(ps, t) <= Entries(s, t) /\ at > t + Window
  <2>1. at \notin Span(t)
    BY <1>1, <1>3, <1>9
  <2>2. Passes(ps2, t) <= MaxRequests
    BY <1>1, <1>5, <1>6, <1>9, <2>1
  <2>3. Passes(ps2, t) + Asking(c2, t) <= MaxRequests + Reqs - 1
    BY <1>1, <1>4, <1>5, <2>2
  <2>4. n > t + Window
    BY <1>1, <1>9
  <2> QED
    BY <2>3, <2>4 DEF InWindow, c2
<1> QED
  BY <1>2, <1>7, <1>8, <1>9 DEF InWindow

-----------------------------------------------------------------------------
(* At the start the entry is empty.                                        *)
LEMMA WindowInvInit == KeyInit => WindowInv
<1> SUFFICES ASSUME KeyInit PROVE WindowInv
  OBVIOUS
<1>1. asks = << >> /\ passed = {} /\ MaxRequests \in Nat
  BY ApiKeysAssumption DEF KeyInit
<1>2. << >> \in Seq(Nat) /\ Len(<< >>) = 0 /\ IsFiniteSet({})
  BY EmptySeq, FS_EmptySet
<1>3. ASSUME NEW t PROVE Passes({}, t) <= Entries(<< >>, t)
  <2>1. PassedIn({}, t) = {} /\ AskedIn(<< >>, t) = {}
    BY DEF PassedIn, AskedIn
  <2>2. Cardinality({}) = 0
    BY FS_EmptySet
  <2>3. Passes({}, t) = 0
    BY <2>1, <2>2, Zenon DEF Passes
  <2>4. Entries(<< >>, t) = 0
    BY <2>1, <2>2, Zenon DEF Entries
  <2>5. \A x, y : x = 0 /\ y = 0 => x <= y
    OBVIOUS
  <2> QED
    BY <2>3, <2>4, <2>5, Zenon
<1>4. EntryOK(asks, passed)
  <2>1. \A n : n = 0 => n <= MaxRequests
    BY <1>1
  <2>3. Len(<< >>) <= MaxRequests
    BY <1>2, <2>1, Zenon
  <2>2. EntryOK(<< >>, {})
    BY <1>2, <2>3, Zenon DEF EntryOK
  <2> QED
    BY <1>1, <2>2, Zenon
<1>5. ASSUME NEW t PROVE InWindow(asks, passed, keyCall, now, t)
  <2>1. Passes(passed, t) <= Entries(asks, t)
    BY <1>1, <1>3
  <2> QED
    BY <2>1 DEF InWindow
<1> QED
  BY <1>4, <1>5 DEF WindowInv

(* RateLimiter::check: the clock read, and the entry visited.              *)
LEMMA WindowCheck ==
  ASSUME KeyInv, WindowInv, NEW p \in KeyRequests, Check(p)
  PROVE  WindowInv'
<1>1. /\ keyCall \in [KeyRequests -> KeyCallType] /\ now \in Nat /\ keyCall[p].at \in Nat
      /\ keyCall[p].at <= now /\ now' = now
  BY RowsAre DEF Check
<1>2. EntryOK(asks, passed) /\ \A t \in 0 .. MaxTime : InWindow(asks, passed, keyCall, now, t)
  BY DEF WindowInv
<1>3. CASE /\ KeyStarts(p, "check", [KeyIdle EXCEPT !.step = "entry", !.at = now])
           /\ UNCHANGED limiter
  <2> DEFINE r == Called("check", "entry", "none", 0, now)
  <2>1. keyCall' = Moved(keyCall, p, r) /\ UNCHANGED <<asks, passed>>
    BY Zenon, <1>3, StartsAre DEF limiter
  <2>2. r \in KeyCallType /\ r.op = "check" /\ r.key = 0 /\ r.at = now
    <3>1. "check" \in KeyOps /\ "entry" \in KeySteps /\ "none" \in Users \cup {"none"} /\ now \in Nat /\ 0 \in Nat
      BY RowsAre DEF KeyOps, KeySteps
    <3> QED
      BY <3>1, CalledIs
  <2> HIDE DEF r
  <2>3. \A t \in 0 .. MaxTime : InWindow(asks, passed, Moved(keyCall, p, r), now, t)
    BY <1>1, <1>2, <2>2, WindowQuiet DEF EntryOK
  <2> QED
    BY <1>1, <1>2, <2>1, <2>3 DEF WindowInv
<1>4. CASE /\ KeyAt(p, "check", "entry")
           /\ LET kept == DropOld(asks, keyCall[p].at)
              IN  IF Len(kept) >= MaxRequests
                    THEN asks' = kept /\ UNCHANGED passed
                    ELSE /\ asks' = Append(kept, keyCall[p].at)
                         /\ passed' = passed \cup {<<keyCall[p].at, PassedAt(keyCall[p].at) + 1>>}
           /\ KeyEnds(p)
  <2> DEFINE at == keyCall[p].at
             i == PassedAt(at) + 1
             kept == DropOld(asks, at)
  <2>1. keyCall' = Moved(keyCall, p, KeyIdle) /\ keyCall[p].op = "check" /\ keyCall[p].step = "entry"
    BY Zenon, <1>4, StartsAre DEF KeyAt
  <2>2. \/ asks' = kept /\ passed' = passed
        \/ asks' = Append(kept, at) /\ passed' = WithPass(passed, at, i) /\ ~(Len(kept) >= MaxRequests)
    BY <1>4 DEF WithPass
  <2>3. /\ asks \in Seq(Nat) /\ Len(asks) \in Nat /\ Len(asks) <= MaxRequests /\ IsFiniteSet(passed)
        /\ MaxRequests \in Nat
    BY <1>2, ApiKeysAssumption DEF EntryOK
  <2>4. kept \in Seq(Nat) /\ Len(kept) <= Len(asks) /\ Len(kept) \in Nat
    <3>1. 0 \in Nat /\ at \in Nat
      BY <1>1
    <3> QED
      BY <2>3, <3>1, StaysOrPast, LenProperties
  <2> HIDE DEF at, i, kept
  <2>5. at \in Nat /\ keyCall[p].at = at /\ at <= now
    BY <1>1 DEF at
  <2>6. EntryOK(asks', passed')
    <3>1. CASE asks' = kept /\ passed' = passed
      BY <2>3, <2>4, <3>1 DEF EntryOK
    <3>2. CASE asks' = Append(kept, at) /\ passed' = WithPass(passed, at, i) /\ ~(Len(kept) >= MaxRequests)
      <4>1. Append(kept, at) \in Seq(Nat) /\ Len(Append(kept, at)) = Len(kept) + 1
        BY <2>4, <2>5, AppendProperties
      <4>2. IsFiniteSet(WithPass(passed, at, i))
        BY <2>3, FS_AddElement DEF WithPass
      <4> QED
        BY <2>3, <2>4, <3>2, <4>1, <4>2 DEF EntryOK
    <3> QED
      BY <2>2, <3>1, <3>2
  <2>7. ASSUME NEW t \in 0 .. MaxTime
        PROVE  InWindow(asks', passed', Moved(keyCall, p, KeyIdle), now, t)
    <3>1. t \in Nat /\ InWindow(asks, passed, keyCall, now, t)
      BY <1>2
    <3> QED
      BY <1>1, <1>2, <2>1, <2>2, <2>5, <3>1, WindowEntry DEF kept
  <2> QED
    BY <1>1, <2>1, <2>6, <2>7 DEF WindowInv
<1> QED
  BY <1>3, <1>4 DEF Check

(* Requests of other kinds.                                                *)
LEMMA WindowMove ==
  ASSUME KeyInv, WindowInv, NEW p \in KeyRequests, NEW r \in KeyCallType, r.op # "check",
         keyCall' = Moved(keyCall, p, r), UNCHANGED <<asks, passed, now>>
  PROVE  WindowInv'
<1>1. keyCall \in [KeyRequests -> KeyCallType] /\ now \in Nat
  BY RowsAre
<1>2. EntryOK(asks, passed) /\ \A t \in 0 .. MaxTime : InWindow(asks, passed, keyCall, now, t)
  BY DEF WindowInv
<1>3. \A t \in 0 .. MaxTime : InWindow(asks, passed, Moved(keyCall, p, r), now, t)
  BY <1>1, <1>2, WindowQuiet DEF EntryOK
<1> QED
  BY <1>2, <1>3 DEF WindowInv

(* The clock ticks: a window that was over stays over.                     *)
LEMMA WindowTick ==
  ASSUME KeyInv, WindowInv, Tick
  PROVE  WindowInv'
<1>1. /\ now \in Nat /\ Window \in Nat
      /\ now' = now + 1 /\ UNCHANGED <<asks, passed, keyCall>>
  BY ApiKeysAssumption DEF KeyInv, KeyTypes, Tick, limiter
<1>2. ASSUME NEW t \in 0 .. MaxTime, InWindow(asks, passed, keyCall, now, t)
      PROVE  InWindow(asks, passed, keyCall, now + 1, t)
  <2>1. now > t + Window => now + 1 > t + Window
    BY <1>1
  <2> QED
    BY <1>2, <2>1 DEF InWindow
<1> QED
  BY <1>1, <1>2 DEF WindowInv

(* The other actions leave the entry and the clock alone.                  *)
LEMMA WindowOthers ==
  ASSUME KeyInv, WindowInv, NEW p \in KeyRequests,
         Validate(p) \/ GetKey(p) \/ ApiUsage(p) \/ KeyStops(p), UNCHANGED keyLoad
  PROVE  WindowInv'
<1>1. UNCHANGED <<asks, passed, now>>
  BY Zenon DEF Validate, GetKey, ApiUsage, KeyStops, limiter
<1>2. PICK r : r \in KeyCallType /\ r.op # "check" /\ keyCall' = Moved(keyCall, p, r)
  <2>1. KeyIdle \in KeyCallType /\ KeyIdle.op # "check"
    BY IdleIsQuiet DEF KeyIdle
  <2>2. CASE KeyEnds(p)
    BY Zenon, <2>1, <2>2, StartsAre
  <2>3. ASSUME NEW k \in Held, NEW s \in {"restart", "count"},
               KeyStarts(p, "validate", [KeyIdle EXCEPT !.step = s, !.key = k])
        PROVE  \E r : r \in KeyCallType /\ r.op # "check" /\ keyCall' = Moved(keyCall, p, r)
    <3> DEFINE r == Called("validate", s, "none", k, 0)
    <3>1. keyCall' = Moved(keyCall, p, r)
      BY Zenon, <2>3, StartsAre
    <3>2. "validate" \in KeyOps /\ s \in KeySteps /\ "none" \in Users \cup {"none"} /\ k \in Nat /\ 0 \in Nat
      BY RowsAre DEF KeyOps, KeySteps
    <3>3. r \in KeyCallType /\ r.op = "validate"
      BY <3>2, CalledIs
    <3> HIDE DEF r
    <3> QED
      BY <3>1, <3>3
  <2>4. ASSUME NEW u \in Users, NEW s \in {"insert", "find"},
               KeyStarts(p, "get", [KeyIdle EXCEPT !.user = u, !.key = link[u], !.step = s])
        PROVE  \E r : r \in KeyCallType /\ r.op # "check" /\ keyCall' = Moved(keyCall, p, r)
    <3> DEFINE r == Called("get", s, u, link[u], 0)
    <3>1. keyCall' = Moved(keyCall, p, r)
      BY Zenon, <2>4, StartsAre
    <3>2. "get" \in KeyOps /\ s \in KeySteps /\ u \in Users \cup {"none"} /\ link[u] \in Nat /\ 0 \in Nat
      BY RowsAre DEF KeyOps, KeySteps
    <3>3. r \in KeyCallType /\ r.op = "get"
      BY <3>2, CalledIs
    <3> HIDE DEF r
    <3> QED
      BY <3>1, <3>3
  <2>5. ASSUME NEW u \in Users,
               KeyStarts(p, "usage", [KeyIdle EXCEPT !.user = u, !.key = link[u], !.step = "find"])
        PROVE  \E r : r \in KeyCallType /\ r.op # "check" /\ keyCall' = Moved(keyCall, p, r)
    <3> DEFINE r == Called("usage", "find", u, link[u], 0)
    <3>1. keyCall' = Moved(keyCall, p, r)
      BY Zenon, <2>5, StartsAre
    <3>2. "usage" \in KeyOps /\ "find" \in KeySteps /\ u \in Users \cup {"none"} /\ link[u] \in Nat /\ 0 \in Nat
      BY RowsAre DEF KeyOps, KeySteps
    <3>3. r \in KeyCallType /\ r.op = "usage"
      BY <3>2, CalledIs
    <3> HIDE DEF r
    <3> QED
      BY <3>1, <3>3
  <2>6. ASSUME NEW s \in KeySteps, KeyGoes(p, s), keyCall[p].op \in {"get", "usage"}
        PROVE  \E r : r \in KeyCallType /\ r.op # "check" /\ keyCall' = Moved(keyCall, p, r)
    <3> DEFINE r == [keyCall[p] EXCEPT !.step = s]
    <3>1. keyCall' = Moved(keyCall, p, r)
      BY Zenon, <2>6, StartsAre
    <3>2. keyCall[p] \in KeyCallType
      BY RowsAre
    <3>3. r \in KeyCallType /\ r.op = keyCall[p].op
      BY <3>2, GoesOn
    <3>4. r.op # "check"
      BY <2>6, <3>3
    <3> HIDE DEF r
    <3> QED
      BY <3>1, <3>3, <3>4
  <2>7. ASSUME keyCall[p].op = "get", InsertKey(FreeLimit),
               KeyBecomes(p, [keyCall[p] EXCEPT !.step = "link", !.key = drawn'])
        PROVE  \E r : r \in KeyCallType /\ r.op # "check" /\ keyCall' = Moved(keyCall, p, r)
    <3> DEFINE r == [keyCall[p] EXCEPT !.step = "link", !.key = drawn + 1]
    <3>1. keyCall' = Moved(keyCall, p, r)
      BY <2>7 DEF InsertKey, KeyBecomes, Moved
    <3>2. drawn + 1 \in Nat /\ "link" \in KeySteps /\ keyCall[p] \in KeyCallType
      BY RowsAre DEF KeySteps
    <3>3. r \in KeyCallType /\ r.op = "get"
      BY Zenon, <2>7, <3>2 DEF KeyCallType
    <3> HIDE DEF r
    <3> QED
      BY <3>1, <3>3
  <2>8. CASE Validate(p)
    BY Zenon, <2>2, <2>3, <2>8 DEF Validate
  <2>9. CASE GetKey(p)
    <3>1. "clear" \in KeySteps /\ "insert" \in KeySteps
      BY DEF KeySteps
    <3>2. \A u \in Users : (IF link[u] = 0 THEN "insert" ELSE "find") \in {"insert", "find"}
      OBVIOUS
    <3> QED
      BY Zenon, <2>2, <2>4, <2>6, <2>7, <2>9, <3>1, <3>2 DEF GetKey, KeyAt
  <2>10. CASE ApiUsage(p)
    <3>1. (IF keyCall[p].key \in Held THEN "restart" ELSE "clear") \in KeySteps
      BY DEF KeySteps
    <3> QED
      BY Zenon, <2>2, <2>5, <2>6, <2>10, <3>1 DEF ApiUsage, KeyAt
  <2> QED
    BY <2>2, <2>8, <2>9, <2>10 DEF KeyStops
<1> QED
  BY <1>1, <1>2, WindowMove

(* Every step keeps the invariant of the windows.                          *)
LEMMA WindowInvKeeps == KeyInv /\ WindowInv /\ [KeyNext]_keyVars => WindowInv'
<1> SUFFICES ASSUME KeyInv, WindowInv, [KeyNext]_keyVars PROVE WindowInv'
  OBVIOUS
<1>1. ASSUME UNCHANGED <<asks, passed, now, keyCall>> PROVE WindowInv'
  BY <1>1 DEF WindowInv
<1>2. CASE KeyNext
  <2>1. UNCHANGED keyLoad
    BY <1>2 DEF KeyNext
  <2>2. CASE \E p \in KeyRequests : \/ Validate(p) \/ GetKey(p) \/ ApiUsage(p)
                                    \/ Check(p) \/ KeyStops(p)
    BY <2>1, <2>2, WindowOthers, WindowCheck
  <2>3. CASE CreateApiKey \/ DeleteApiKey \/ HourPasses
    <3>1. UNCHANGED <<asks, passed, now, keyCall>>
      BY <2>3 DEF CreateApiKey, DeleteApiKey, HourPasses, limiter
    <3> QED
      BY <1>1, <3>1
  <2>4. CASE Tick
    BY <2>4, WindowTick
  <2> QED
    BY <1>2, <2>2, <2>3, <2>4 DEF KeyNext
<1>3. CASE UNCHANGED keyVars
  <2>1. UNCHANGED <<asks, passed, now, keyCall>>
    BY <1>3 DEF keyVars, limiter
  <2> QED
    BY <1>1, <2>1
<1> QED
  BY <1>2, <1>3

(* So no window is passed by more than the limit and its bound.            *)
LEMMA WindowNear == KeyInv /\ WindowInv => WindowNearLimit
<1> SUFFICES ASSUME KeyInv, WindowInv, NEW t \in 0 .. MaxTime
             PROVE  Passes(passed, t) <= MaxRequests + Reqs - 1
  BY DEF WindowNearLimit, Passes, PassedIn, Span, Reqs
<1>1. EntryOK(asks, passed) /\ InWindow(asks, passed, keyCall, now, t)
  BY DEF WindowInv
<1>2. /\ asks \in Seq(Nat) /\ Len(asks) \in Nat /\ Len(asks) <= MaxRequests /\ IsFiniteSet(passed)
      /\ MaxRequests \in Nat /\ Reqs \in Nat \ {0} /\ t \in Nat
  BY <1>1, ApiKeysAssumption, ReqsFacts DEF EntryOK
<1>3. Entries(asks, t) \in Nat /\ Entries(asks, t) <= Len(asks) /\ Passes(passed, t) \in Nat
  BY <1>2, EntriesType, PassesAdd
<1>4. Asking(keyCall, t) \in Nat
  <2>1. PICK q : q \in KeyRequests
    BY ApiKeysAssumption
  <2>2. keyCall \in [KeyRequests -> KeyCallType]
    BY <2>1, RowsAre
  <2> QED
    BY <2>1, <2>2, IdleIsQuiet, AskingIs
<1> QED
  BY <1>1, <1>2, <1>3, <1>4 DEF InWindow

(* However requests overlap, a key is admitted in an hour and an address   *)
(* passes in any window no more than the limits and a bound that depends on *)
(* how many requests run at a time alone: for any number of requests, any  *)
(* limits and any window.                                                  *)
THEOREM KeysNearLimitHolds == KeySpec => []KeysNearLimit
<1>1. KeyInit => KeyInv /\ WindowInv
  BY KeyInvInit, WindowInvInit
<1>2. KeyInv /\ WindowInv /\ [KeyNext]_keyVars => (KeyInv /\ WindowInv)'
  BY KeyInvKeeps, WindowInvKeeps
<1>3. KeyInv /\ WindowInv => KeysNearLimit
  BY HourlyNear, WindowNear DEF KeysNearLimit
<1> QED
  BY <1>1, <1>2, <1>3, PTL DEF KeySpec

-----------------------------------------------------------------------------
(***************************************************************************)
(* PollPages.                                                              *)
(***************************************************************************)

(* The polls of a set can be put in order, one after the other.            *)
Orders(ids, live) ==
  /\ \A p, q \in ids : ~(Ahead(p, q, live) /\ Ahead(q, p, live))
  /\ \A p, q \in ids : p # q => Ahead(p, q, live) \/ Ahead(q, p, live)
  /\ \A p, q, r \in ids : Ahead(p, q, live) /\ Ahead(q, r, live) => Ahead(p, r, live)

UpTo(p, ids, live) == {q \in ids : q = p \/ Ahead(q, p, live)}

(* The first n positive numbers are n.                                     *)
LEMMA CountTo ==
  ASSUME NEW n \in Nat
  PROVE  IsFiniteSet(1 .. n) /\ Cardinality(1 .. n) = n
BY FS_Interval

(* Of two polls the one that is ahead has the smaller place, and a place   *)
(* is one of as many as there are polls (Rank).                            *)
LEMMA PlacesDiffer ==
  ASSUME NEW ids, NEW live, IsFiniteSet(ids), Orders(ids, live)
  PROVE  /\ \A p \in ids : Rank(p, ids, live) \in 1 .. Cardinality(ids)
         /\ \A p, q \in ids : Ahead(p, q, live) => Rank(p, ids, live) < Rank(q, ids, live)
<1>1. ASSUME NEW p \in ids PROVE /\ IsFiniteSet(UpTo(p, ids, live)) /\ p \in UpTo(p, ids, live)
                                 /\ Cardinality(UpTo(p, ids, live)) \in 1 .. Cardinality(ids)
  <2>1. UpTo(p, ids, live) \in SUBSET ids /\ p \in UpTo(p, ids, live)
    BY DEF UpTo
  <2>2. /\ IsFiniteSet(UpTo(p, ids, live)) /\ Cardinality(UpTo(p, ids, live)) <= Cardinality(ids)
    BY <2>1, FS_Subset
  <2>3. Cardinality(UpTo(p, ids, live)) \in Nat /\ Cardinality(ids) \in Nat
    BY <2>2, FS_CardinalityType
  <2>4. Cardinality(UpTo(p, ids, live)) # 0
    BY <2>1, <2>2, FS_EmptySet
  <2> QED BY <2>1, <2>2, <2>3, <2>4
<1>2. ASSUME NEW p \in ids, NEW q \in ids, Ahead(p, q, live)
      PROVE  Cardinality(UpTo(p, ids, live)) < Cardinality(UpTo(q, ids, live))
  <2>1. UpTo(p, ids, live) \in SUBSET UpTo(q, ids, live)
    BY <1>2 DEF UpTo, Orders
  <2>2. q \in UpTo(q, ids, live) /\ q \notin UpTo(p, ids, live)
    BY <1>2 DEF UpTo, Orders
  <2>3. /\ Cardinality(UpTo(p, ids, live)) <= Cardinality(UpTo(q, ids, live))
        /\ Cardinality(UpTo(q, ids, live)) # Cardinality(UpTo(p, ids, live))
    BY <1>1, <2>1, <2>2, FS_Subset
  <2>4. Cardinality(UpTo(p, ids, live)) \in Int /\ Cardinality(UpTo(q, ids, live)) \in Int
    BY <1>1
  <2> QED BY <2>3, <2>4
<1>3. \A p \in ids : Rank(p, ids, live) = Cardinality(UpTo(p, ids, live))
  BY DEF Rank, UpTo
<1> QED BY <1>1, <1>2, <1>3

(* There is a list of the polls in order.                                  *)
LEMMA ListExists ==
  ASSUME NEW ids, NEW live, IsFiniteSet(ids), Orders(ids, live)
  PROVE  \E s \in SetToSeqs(ids) : \A i, j \in DOMAIN s : i < j => Ahead(s[i], s[j], live)
<1> DEFINE n == Cardinality(ids)
           r == [p \in ids |-> Rank(p, ids, live)]
           s == [i \in 1 .. n |-> CHOOSE p \in ids : r[p] = i]
<1>1. n \in Nat
  BY FS_CardinalityType
<1>2. r \in [ids -> 1 .. n]
  BY PlacesDiffer
<1>3. \A p, q \in ids : Ahead(p, q, live) => r[p] < r[q]
  BY PlacesDiffer
<1>4. \A p, q \in ids : r[p] = r[q] => p = q
  <2> SUFFICES ASSUME NEW p \in ids, NEW q \in ids, p # q PROVE r[p] # r[q]
    OBVIOUS
  <2>1. Ahead(p, q, live) \/ Ahead(q, p, live)
    BY DEF Orders
  <2>2. r[p] \in Int /\ r[q] \in Int
    BY <1>1, <1>2
  <2> QED BY <1>3, <2>1, <2>2
<1>5. \A i \in 1 .. n : \E p \in ids : r[p] = i
  <2>1. r \in Injection(ids, 1 .. n)
    BY <1>2, <1>4 DEF Injection, IsInjective
  <2>2. IsFiniteSet(1 .. n) /\ Cardinality(1 .. n) = n
    BY <1>1, CountTo
  <2>3. r \in Surjection(ids, 1 .. n)
    BY <2>1, <2>2, FS_Injection
  <2> QED BY <2>3 DEF Surjection
<1>6. \A i \in 1 .. n : s[i] \in ids /\ r[s[i]] = i
  BY <1>5
<1>7. s \in [1 .. n -> ids] /\ DOMAIN s = 1 .. n
  BY <1>5
<1>8. \A i, j \in 1 .. n : i # j => s[i] # s[j]
  BY <1>6
<1>9. s \in SetToSeqs(ids)
  BY <1>7, <1>8 DEF SetToSeqs
<1>10. \A i, j \in 1 .. n : i < j => Ahead(s[i], s[j], live)
  <2> SUFFICES ASSUME NEW i \in 1 .. n, NEW j \in 1 .. n, i < j PROVE Ahead(s[i], s[j], live)
    OBVIOUS
  <2>1. i \in Int /\ j \in Int
    BY <1>1
  <2>2. s[i] # s[j] /\ s[i] \in ids /\ s[j] \in ids
    BY <1>6, <1>8, <2>1
  <2>3. ~Ahead(s[j], s[i], live)
    <3>1. Ahead(s[j], s[i], live) => r[s[j]] < r[s[i]]
      BY <1>3, <2>2
    <3>2. r[s[j]] = j /\ r[s[i]] = i
      BY <1>6
    <3> QED BY <3>1, <3>2, <2>1
  <2> QED BY <2>2, <2>3 DEF Orders
<1> QED BY <1>7, <1>9, <1>10

(* A list in order has each poll at its place (InOrder).                   *)
LEMMA ListInOrder ==
  ASSUME NEW ids, NEW live, IsFiniteSet(ids), Orders(ids, live),
         NEW s, s = InOrder(ids, live)
  PROVE  /\ Cardinality(ids) \in Nat
         /\ s \in [1 .. Cardinality(ids) -> ids]
         /\ \A i \in 1 .. Cardinality(ids) : Rank(s[i], ids, live) = i
         /\ \A p \in ids : /\ Rank(p, ids, live) \in 1 .. Cardinality(ids)
                           /\ s[Rank(p, ids, live)] = p
<1> DEFINE n == Cardinality(ids)
<1>1. n \in Nat
  BY FS_CardinalityType
<1>2. s \in SetToSeqs(ids) /\ \A i, j \in DOMAIN s : i < j => Ahead(s[i], s[j], live)
  BY ListExists DEF InOrder
<1>3. s \in [1 .. n -> ids] /\ \A i, j \in 1 .. n : i # j => s[i] # s[j]
  BY <1>2 DEF SetToSeqs
<1>4. \A i, j \in 1 .. n : i < j => Ahead(s[i], s[j], live)
  BY <1>2, <1>3
<1>5. \A p \in ids : \E i \in 1 .. n : s[i] = p
  <2>1. s \in Injection(1 .. n, ids)
    BY <1>3 DEF Injection, IsInjective
  <2>2. Cardinality(1 .. n) = n
    BY <1>1, CountTo
  <2>3. s \in Surjection(1 .. n, ids)
    BY <2>1, <2>2, FS_Injection
  <2> QED BY <2>3 DEF Surjection
<1>6. ASSUME NEW i \in 1 .. n PROVE Rank(s[i], ids, live) = i
  <2> DEFINE f == [j \in 1 .. i |-> s[j]]
             T == UpTo(s[i], ids, live)
  <2>1. i \in Nat /\ 1 .. i \subseteq 1 .. n
    BY <1>1
  <2>2. ASSUME NEW j \in 1 .. i PROVE s[j] \in T
    <3>1. j = i \/ j < i
      BY <2>1
    <3> QED BY <3>1, <2>1, <1>3, <1>4 DEF UpTo
  <2>3. ASSUME NEW q \in T PROVE \E j \in 1 .. i : s[j] = q
    <3>1. PICK k \in 1 .. n : s[k] = q
      BY <1>5 DEF UpTo
    <3>2. ~(i < k)
      BY <1>3, <1>4, <3>1, <2>1, <1>1 DEF UpTo, Orders
    <3>3. k \in 1 .. i
      BY <3>2, <2>1, <1>1
    <3> QED BY <3>1, <3>3
  <2>4. f \in [1 .. i -> T]
    BY <2>2
  <2>5. \A j, k \in 1 .. i : f[j] = f[k] => j = k
    BY <2>1, <1>3
  <2>6. \A q \in T : \E j \in 1 .. i : f[j] = q
    BY <2>3
  <2> HIDE DEF f, T
  <2>7. f \in Bijection(1 .. i, T)
    BY <2>4, <2>5, <2>6 DEF Bijection, Injection, Surjection, IsInjective
  <2>8. Cardinality(T) = i
    BY <2>7, <2>1, FS_CountingElements DEF ExistsBijection
  <2> QED BY <2>8 DEF T, Rank, UpTo
<1>7. \A p \in ids : Rank(p, ids, live) \in 1 .. n /\ s[Rank(p, ids, live)] = p
  BY <1>5, <1>6
<1> QED BY <1>1, <1>3, <1>6, <1>7

AnswerFields ==
  {"at", "op", "asof", "user", "poll", "live", "page", "flags", "total", "pages", "rows", "tally",
   "voters", "excluded", "selected", "out", "hidden", "refusal", "open", "scenes"}

IsAnswer(a) == a = [f \in AnswerFields |-> a[f]]

(* What a step leaves alone.                                               *)
LeavesAlone(a, b, fs) == \A f \in AnswerFields \ fs : b[f] = a[f]

PollsTyped ==
  /\ clock \in Nat
  /\ polls \in [Poll -> PollRow]
  /\ ballots \in [Poll -> [User -> SUBSET Option]]

(* A request keeps the moments it has lived through, the present one too.  *)
Moment(s) ==
  /\ s.now \in Nat /\ s.now <= clock
  /\ s.polls \in [Poll -> PollRow]
  /\ \A p \in Poll : s.polls[p].audience = polls[p].audience

Moments ==
  /\ IsFiniteSet(answer.scenes)
  /\ answer.at # "idle" => Scene \in answer.scenes
  /\ \A s \in answer.scenes : Moment(s)

(* The statements of each request.                                         *)
Figuring == {"tally", "voters", "excluded", "selected", "build"}
StagesOf(op) ==
  CASE op = "pages"  -> {"count", "page"} \cup (Figuring \ {"selected"})
    [] op = "mine"   -> {"viewer", "list", "hidden"} \cup Figuring
    [] op = "get"    -> {"viewer", "load", "exclusion", "audience"} \cup Figuring
    [] op = "access" -> {"viewer", "load", "exclusion", "audience", "selected"}

Formed(a) ==
  /\ IsAnswer(a)
  /\ a.at = "idle" => a = NoRequest
  /\ a.at # "idle" =>
       /\ a.op \in {"pages", "mine", "get", "access"}
       /\ a.at \in StagesOf(a.op) \cup {"done"}
       /\ a.live \in BOOLEAN /\ a.page \in Nat \ {0}
       /\ a.op # "pages" => a.user \in User
       /\ a.op \in {"get", "access"} => a.poll \in Poll
  /\ a.at # "done" \/ a.op = "access" => a.out = << >>
  /\ a.at \in {"count", "page", "viewer", "list", "hidden", "load"} => a.rows = << >>
  /\ a.at # "done" /\ a.op # "access" => a.refusal = "none" /\ a.hidden = 0
  /\ a.at \in {"viewer", "load", "exclusion", "audience"} => a.refusal = "none"

(* What it has read was so at one of its moments.                          *)
VotesAt(s, p, o) == Cardinality({u \in User : o \in s.ballots[p][u]})
VotersAt(s, p) == Cardinality({u \in User : s.ballots[p][u] # {}})


SawRows(a) ==
  \A i \in DOMAIN a.rows :
    /\ a.rows[i].id \in Poll /\ a.rows[i].row.open
    /\ \E s \in a.scenes : a.rows[i].row = s.polls[a.rows[i].id]

SawTally(a) ==
  a.op # "access" /\ a.at \in Figuring \ {"tally"} =>
    \A i \in DOMAIN a.rows :
      /\ a.tally[a.rows[i].id] \in [Option -> Nat]
      /\ \A o \in Option : \E s \in a.scenes :
           a.tally[a.rows[i].id][o] = VotesAt(s, a.rows[i].id, o)

SawVoters(a) ==
  a.op # "access" /\ a.at \in {"excluded", "selected", "build"} =>
    \A i \in DOMAIN a.rows : \E s \in a.scenes :
      a.voters[a.rows[i].id] = VotersAt(s, a.rows[i].id)

SawExcluded(a) ==
  a.op # "access" /\ a.at \in {"selected", "build"} =>
    \A i \in DOMAIN a.rows : \E s \in a.scenes :
      a.excluded[a.rows[i].id] = Cardinality(s.polls[a.rows[i].id].excluded)

SawSelected(a) ==
  a.op # "pages" /\ a.at = "build" =>
    \A i \in DOMAIN a.rows :
      /\ a.rows[i].id \in DOMAIN a.selected
      /\ \E s \in a.scenes : a.selected[a.rows[i].id] = s.ballots[a.rows[i].id][a.user]

SawEntitled(a) ==
  /\ a.at \in {"exclusion", "audience"} => \A i \in DOMAIN a.rows : a.rows[i].id = a.poll
  /\ a.at = "audience" => \E s \in a.scenes : a.user \notin s.polls[a.poll].excluded
  /\ a.op \in {"mine", "get"} /\ a.at \in Figuring =>
       \A i \in DOMAIN a.rows : \E s \in a.scenes :
         Entitled(s.polls[a.rows[i].id], a.user, a.flags)

(* And so were the figures it shows.                                       *)
IsTrue(a, shown) ==
  /\ shown.id \in Poll /\ DOMAIN shown.votes = Option
  /\ \A o \in Option : shown.percent[o] = Percent(shown.votes[o], shown.voters)
  /\ shown.leading = Leading(shown.votes)
  /\ \A o \in Option : \E s \in a.scenes : shown.votes[o] = VotesAt(s, shown.id, o)
  /\ \E s \in a.scenes : shown.voters = VotersAt(s, shown.id)
  /\ \E s \in a.scenes : shown.excluded = Cardinality(s.polls[shown.id].excluded)
  /\ a.op # "pages" => \E s \in a.scenes : shown.selected = s.ballots[shown.id][a.user]
  /\ shown.live => \E s \in a.scenes : Live(s.polls[shown.id], s.now)
  /\ a.op \in {"mine", "get"} =>
       \E s \in a.scenes : Entitled(s.polls[shown.id], a.user, a.flags)

SawOut(a) ==
  /\ \A i \in DOMAIN a.out : IsTrue(a, a.out[i])
  /\ a.at = "done" /\ (a.op = "pages" \/ (a.op = "mine" /\ a.refusal = "none")) =>
       /\ DOMAIN a.out = DOMAIN a.rows
       /\ \A i \in DOMAIN a.out : a.out[i].id = a.rows[i].id

Saw(a) ==
  /\ SawRows(a) /\ SawTally(a) /\ SawVoters(a) /\ SawExcluded(a)
  /\ SawSelected(a) /\ SawEntitled(a) /\ SawOut(a)

(* While nothing has changed, it is exact.                                 *)
TheHalf == Half(answer.live, clock)
HalfThen == Half(answer.live, answer.asof)
TheMine == {p \in TheHalf : Entitled(polls[p], answer.user, answer.flags)}

ExactTime == answer.at \in {"count", "page"} => answer.asof = clock

ExactCount ==
  answer.op = "pages" /\ answer.at # "count" =>
    /\ answer.total = Cardinality(TheHalf)
    /\ answer.pages = IF TheHalf = {} THEN 1
                      ELSE (Cardinality(TheHalf) + PageSize - 1) \div PageSize
    /\ answer.page <= answer.pages

ExactPage ==
  answer.op = "pages" /\ answer.at \notin {"count", "page"} =>
    /\ \A i \in DOMAIN answer.rows :
         /\ answer.rows[i].id \in TheHalf /\ i \in 1 .. PageSize
         /\ Rank(answer.rows[i].id, TheHalf, answer.live) = (answer.page - 1) * PageSize + i
    /\ \A p \in TheHalf :
         Rank(p, TheHalf, answer.live) - (answer.page - 1) * PageSize \in 1 .. PageSize =>
           p \in Ids(answer.rows)

ExactList ==
  answer.op = "mine" /\ answer.refusal = "none" /\ answer.at \notin {"viewer", "list"} =>
    /\ \A i \in DOMAIN answer.rows :
         /\ answer.rows[i].id \in TheMine /\ i \in Nat /\ (answer.live \/ i <= PastLimit)
         /\ Rank(answer.rows[i].id, TheMine, answer.live) = i
    /\ \A p \in TheMine :
         answer.live \/ Rank(p, TheMine, answer.live) <= PastLimit => p \in Ids(answer.rows)
    /\ answer.at = "hidden" => TheMine = {}
    /\ answer.at \in Figuring => TheMine # {}
    /\ answer.at = "done" => answer.hidden = IF TheMine = {} THEN Cardinality(TheHalf) ELSE 0

ExactAccess ==
  answer.op = "access" =>
    /\ answer.at \in {"exclusion", "audience"} =>
         answer.open = Live(polls[answer.poll], clock)
    /\ answer.at = "audience" => answer.user \notin polls[answer.poll].excluded
    /\ answer.at \in {"selected", "done"} /\ answer.refusal \notin {"unknown", "missing"} =>
         (answer.refusal = "none" <=>
            /\ Live(polls[answer.poll], clock)
            /\ Entitled(polls[answer.poll], answer.user, answer.flags))

ExactLive ==
  \A i \in DOMAIN answer.out : answer.out[i].live = Live(polls[answer.out[i].id], clock)

Exact == ExactTime /\ ExactCount /\ ExactPage /\ ExactList /\ ExactAccess /\ ExactLive

Still == answer.at # "idle" /\ answer.scenes = {Scene}

PagesInv ==
  /\ PollsTyped /\ Moments
  /\ Formed(answer) /\ Saw(answer)
  /\ Still => Exact

-----------------------------------------------------------------------------
(* What was true at a moment stays so as the request lives on.             *)
LEMMA TrueMore ==
  ASSUME NEW a, NEW b, NEW shown, b.op = a.op, b.user = a.user, b.flags = a.flags,
         a.scenes \subseteq b.scenes, IsTrue(a, shown)
  PROVE  IsTrue(b, shown)
BY DEF IsTrue

(* A moment more takes nothing back.                                       *)
LEMMA SawMore ==
  ASSUME NEW a, NEW b, LeavesAlone(a, b, {"scenes"}), a.scenes \subseteq b.scenes, Saw(a)
  PROVE  Saw(b)
<1>1. /\ b.at = a.at /\ b.op = a.op /\ b.user = a.user /\ b.poll = a.poll /\ b.flags = a.flags
      /\ b.rows = a.rows /\ b.tally = a.tally /\ b.voters = a.voters /\ b.out = a.out
      /\ b.excluded = a.excluded /\ b.selected = a.selected /\ b.refusal = a.refusal
  BY DEF LeavesAlone, AnswerFields
<1>2. SawRows(b)
  BY <1>1 DEF Saw, SawRows
<1>3. SawTally(b)
  BY <1>1 DEF Saw, SawTally
<1>4. SawVoters(b)
  BY <1>1 DEF Saw, SawVoters
<1>5. SawExcluded(b)
  BY <1>1 DEF Saw, SawExcluded
<1>6. SawSelected(b)
  BY <1>1 DEF Saw, SawSelected
<1>7. SawEntitled(b)
  BY <1>1 DEF Saw, SawEntitled
<1>8. ASSUME NEW shown, IsTrue(a, shown) PROVE IsTrue(b, shown)
  BY <1>1, <1>8, TrueMore
<1>9. SawOut(b)
  BY <1>1, <1>8 DEF Saw, SawOut
<1> QED BY <1>2, <1>3, <1>4, <1>5, <1>6, <1>7, <1>9 DEF Saw

(* An update of one poll row leaves every poll its audience.               *)
LEMMA PollRowChanges ==
  ASSUME NEW p \in Poll, NEW row \in PollRow, row.audience = polls[p].audience,
         polls \in [Poll -> PollRow], polls' = [polls EXCEPT ![p] = row]
  PROVE  polls' \in [Poll -> PollRow] /\ \A q \in Poll : polls'[q].audience = polls[q].audience
OBVIOUS

(* What happens around a request keeps the types and the audiences, and    *)
(* the clock does not go back.                                             *)
LEMMA AroundIsTyped ==
  ASSUME PollsTyped, World
  PROVE  /\ PollsTyped' /\ Changed
         /\ clock <= clock'
         /\ \A p \in Poll : polls'[p].audience = polls[p].audience
<1> DEFINE Typed == /\ PollsTyped' /\ Changed
                    /\ clock <= clock'
                    /\ \A p \in Poll : polls'[p].audience = polls[p].audience
<1> USE RulesAssumption DEF PollsTyped, PollRow, Time
<1>1. CASE TimePasses
  BY <1>1 DEF TimePasses
<1>2. ASSUME NEW u \in User, SetFlags(u) PROVE Typed
  BY <1>2 DEF SetFlags
<1>3. ASSUME NEW u \in User, Delete(u) PROVE Typed
  <2> DEFINE row(p) == [polls[p] EXCEPT !.excluded = polls[p].excluded \ {u}]
  <2>1. \A p \in Poll : row(p) \in PollRow /\ row(p).audience = polls[p].audience
    BY ZenonT(40)
  <2>2. polls' = [p \in Poll |-> row(p)]
    BY <1>3 DEF Delete
  <2>3. polls' \in [Poll -> PollRow] /\ \A p \in Poll : polls'[p].audience = polls[p].audience
    <3> HIDE DEF row, PollRow
    <3> QED BY <2>1, <2>2
  <2>4. ballots' \in [Poll -> [User -> SUBSET Option]]
    BY <1>3 DEF Delete
  <2> QED BY <1>3, <2>3, <2>4 DEF Delete
<1>4. ASSUME NEW u \in User, NEW p \in Poll, Vote(u, p) PROVE Typed
  BY <1>4 DEF Vote
<1>5. ASSUME NEW p \in Poll, Open(p) PROVE Typed
  <2> DEFINE row == [polls[p] EXCEPT !.open = TRUE]
  <2>1. row \in PollRow /\ row.audience = polls[p].audience
    OBVIOUS
  <2>2. polls' = [polls EXCEPT ![p] = row] /\ UNCHANGED <<clock, ballots>> /\ Changed
    BY <1>5 DEF Open
  <2> HIDE DEF row, PollRow
  <2>3. polls' \in [Poll -> PollRow] /\ \A q \in Poll : polls'[q].audience = polls[q].audience
    BY <2>1, <2>2, PollRowChanges
  <2> QED BY <2>2, <2>3
<1>6. ASSUME NEW p \in Poll, End(p) PROVE Typed
  <2> DEFINE row == [polls[p] EXCEPT !.ended = clock]
  <2>1. row \in PollRow /\ row.audience = polls[p].audience
    OBVIOUS
  <2>2. polls' = [polls EXCEPT ![p] = row] /\ UNCHANGED <<clock, ballots>> /\ Changed
    BY <1>6 DEF End
  <2> HIDE DEF row, PollRow
  <2>3. polls' \in [Poll -> PollRow] /\ \A q \in Poll : polls'[q].audience = polls[q].audience
    BY <2>1, <2>2, PollRowChanges
  <2> QED BY <2>2, <2>3
<1>7. ASSUME NEW p \in Poll, Extend(p) PROVE Typed
  <2>1. polls[p].closes \in Nat
    BY <1>7 DEF Extend
  <2> DEFINE t == polls[p].closes + 1
  <2>2. t \in Nat
    BY <2>1
  <2> HIDE DEF t
  <2> DEFINE row == [polls[p] EXCEPT !.closes = t]
  <2>3. row \in PollRow /\ row.audience = polls[p].audience
    BY <2>2
  <2>4. polls' = [polls EXCEPT ![p] = row] /\ UNCHANGED <<clock, ballots>> /\ Changed
    BY <1>7 DEF Extend, ExtensionTarget, t
  <2> HIDE DEF row, PollRow
  <2>5. polls' \in [Poll -> PollRow] /\ \A q \in Poll : polls'[q].audience = polls[q].audience
    BY <2>3, <2>4, PollRowChanges
  <2> QED BY <2>4, <2>5
<1> QED BY <1>1, <1>2, <1>3, <1>4, <1>5, <1>6, <1>7 DEF World

(* It is one moment more for the request, and nothing else of it changes.  *)
LEMMA AroundAdds ==
  ASSUME IsAnswer(answer), answer.at # "idle", Changed
  PROVE  /\ IsAnswer(answer)' /\ LeavesAlone(answer, answer', {"scenes"})
         /\ answer'.scenes = answer.scenes \cup {Scene'}
<1> DEFINE sc == answer.scenes \cup {Scene'}
<1>1. answer' = [answer EXCEPT !.scenes = sc]
  BY DEF Changed
<1> HIDE DEF sc
<1>2. "scenes" \in AnswerFields
  BY DEF AnswerFields
<1>3. answer'["scenes"] = sc /\ \A f \in AnswerFields \ {"scenes"} : answer'[f] = answer[f]
  BY <1>1, <1>2 DEF IsAnswer
<1>4. answer' = [f \in AnswerFields |-> answer'[f]]
  BY <1>1 DEF IsAnswer
<1> QED BY <1>3, <1>4 DEF IsAnswer, LeavesAlone, sc

(* A write or a tick adds the moment it makes to a request under way.      *)
LEMMA AroundKeepsMoments ==
  ASSUME PagesInv, World, answer.at # "idle"
  PROVE  Moments'
<1>1. /\ PollsTyped' /\ Changed /\ clock <= clock' /\ clock \in Nat /\ clock' \in Nat
      /\ \A p \in Poll : polls'[p].audience = polls[p].audience
  BY AroundIsTyped DEF PagesInv, PollsTyped
<1>2. answer'.scenes = answer.scenes \cup {Scene'}
  BY <1>1, AroundAdds DEF PagesInv, Formed
<1>3. IsFiniteSet(answer'.scenes)
  BY <1>2, FS_AddElement DEF PagesInv, Moments
<1>4. ASSUME NEW s \in answer.scenes PROVE Moment(s)'
  BY <1>1 DEF PagesInv, Moments, Moment
<1>5. Moment(Scene)'
  BY <1>1 DEF Moment, Scene, PollsTyped
<1> QED BY <1>2, <1>3, <1>4, <1>5 DEF Moments

(* A change that alters nothing leaves the exact parts exact.              *)
LEMMA AroundKeepsExact ==
  ASSUME PagesInv, World, answer.at # "idle", Still'
  PROVE  Exact'
<1>1. Changed
  BY AroundIsTyped DEF PagesInv
<1>2. answer'.scenes = answer.scenes \cup {Scene'} /\ LeavesAlone(answer, answer', {"scenes"})
  BY <1>1, AroundAdds DEF PagesInv, Formed
<1>3. Scene \in answer.scenes
  BY DEF PagesInv, Moments
<1>4. Scene = Scene' /\ answer.scenes = {Scene}
  BY <1>2, <1>3 DEF Still
<1>5. polls' = polls /\ clock' = clock
  BY <1>4 DEF Scene
<1>6. Exact
  BY <1>4 DEF PagesInv, Still
<1>7. /\ answer'.at = answer.at /\ answer'.op = answer.op /\ answer'.user = answer.user
      /\ answer'.poll = answer.poll /\ answer'.live = answer.live
      /\ answer'.page = answer.page /\ answer'.flags = answer.flags
      /\ answer'.total = answer.total /\ answer'.pages = answer.pages
      /\ answer'.rows = answer.rows /\ answer'.out = answer.out
      /\ answer'.hidden = answer.hidden /\ answer'.refusal = answer.refusal
      /\ answer'.open = answer.open /\ answer'.asof = answer.asof
  BY <1>2 DEF LeavesAlone, AnswerFields
<1>8. TheHalf' = TheHalf
  BY <1>5, <1>7 DEF TheHalf, Half, Live, Past
<1>9. TheMine' = TheMine
  BY <1>5, <1>7, <1>8 DEF TheMine
<1>10. ASSUME NEW p, NEW ids, NEW live PROVE Rank(p, ids, live)' = Rank(p, ids, live)
  BY <1>5 DEF Rank, Ahead, SoonerClosed, LaterStopped, Stopped
<1>11. Ids(answer.rows)' = Ids(answer.rows)
  BY <1>7 DEF Ids
<1>12. ExactCount'
  BY <1>6, <1>7, <1>8 DEF Exact, ExactCount
<1>13. ExactPage'
  BY <1>6, <1>7, <1>8, <1>10, <1>11 DEF Exact, ExactPage
<1>14. ExactList'
  BY <1>6, <1>7, <1>8, <1>9, <1>10, <1>11 DEF Exact, ExactList
<1>15. ExactAccess'
  BY <1>5, <1>6, <1>7 DEF Exact, ExactAccess
<1>16. ExactLive'
  BY <1>5, <1>6, <1>7 DEF Exact, ExactLive
<1>17. ExactTime'
  BY <1>5, <1>6, <1>7 DEF Exact, ExactTime
<1> QED BY <1>12, <1>13, <1>14, <1>15, <1>16, <1>17 DEF Exact

(* What others do around the request keeps the invariant.                  *)
LEMMA AroundKeeps ==
  ASSUME PagesInv, World
  PROVE  PagesInv'
<1>1. PollsTyped' /\ Changed
  BY AroundIsTyped DEF PagesInv
<1>2. CASE answer.at = "idle"
  <2>1. answer' = answer /\ answer.scenes = {}
    BY <1>1, <1>2 DEF Changed, PagesInv, Formed, NoRequest
  <2>2. Formed(answer)' /\ Saw(answer)'
    BY <2>1 DEF PagesInv, Formed, Saw, SawRows, SawTally, SawVoters, SawExcluded, SawSelected,
               SawEntitled, SawOut, IsTrue
  <2>3. Moments' /\ ~Still'
    BY <2>1, <1>2, FS_EmptySet DEF Moments, Still
  <2> QED BY <1>1, <2>2, <2>3 DEF PagesInv
<1>3. CASE answer.at # "idle"
  <2>1. /\ IsAnswer(answer)' /\ LeavesAlone(answer, answer', {"scenes"})
        /\ answer'.scenes = answer.scenes \cup {Scene'}
    BY <1>1, <1>3, AroundAdds DEF PagesInv, Formed
  <2>2. Saw(answer)'
    BY <2>1, SawMore DEF PagesInv
  <2>3. Formed(answer)'
    BY <2>1, <1>3 DEF PagesInv, Formed, LeavesAlone, AnswerFields
  <2> QED BY <1>1, <1>3, <2>2, <2>3, AroundKeepsMoments, AroundKeepsExact DEF PagesInv
<1> QED BY <1>2, <1>3

(* A statement of the request changes none of the tables.                  *)
LEMMA StepKeeps ==
  ASSUME PagesInv, UNCHANGED pollTables, answer.at # "idle",
         answer'.at # "idle", answer'.scenes = answer.scenes,
         Formed(answer)', Saw(answer)', Still => Exact'
  PROVE  PagesInv'
<1>1. PollsTyped' /\ Scene' = Scene
  BY DEF PagesInv, PollsTyped, pollTables, Scene
<1>2. Moments'
  BY <1>1 DEF PagesInv, Moments, Moment, pollTables
<1>3. Still' => Exact'
  BY <1>1 DEF Still
<1> QED BY <1>1, <1>2, <1>3 DEF PagesInv

(* A step of the request reads the tables it leaves as they are.           *)
LEMMA StepSees ==
  ASSUME UNCHANGED pollTables, answer'.live = answer.live
  PROVE  /\ TheHalf' = TheHalf
         /\ answer'.user = answer.user /\ answer'.flags = answer.flags => TheMine' = TheMine
         /\ \A p, ids, live : Rank(p, ids, live)' = Rank(p, ids, live)
<1>1. TheHalf' = TheHalf
  BY DEF TheHalf, Half, Live, Past, pollTables
<1>2. \A p, ids, live : Rank(p, ids, live)' = Rank(p, ids, live)
  BY DEF Rank, Ahead, SoonerClosed, LaterStopped, Stopped, pollTables
<1> QED BY <1>1, <1>2 DEF TheMine, pollTables

(* What is exact and does not depend on the statement it has come to.      *)
LEMMA ExactStays ==
  ASSUME PagesInv, Exact, UNCHANGED pollTables, answer.at \in Figuring,
         answer'.at \in Figuring \cup {"done"},
         LeavesAlone(answer, answer', {"at", "tally", "voters", "excluded", "selected", "out"}),
         answer.op = "access" => answer.at = "selected" /\ answer'.at = "done",
         ExactLive'
  PROVE  Exact'
<1>1. /\ answer'.op = answer.op /\ answer'.user = answer.user /\ answer'.poll = answer.poll
      /\ answer'.live = answer.live /\ answer'.page = answer.page /\ answer'.flags = answer.flags
      /\ answer'.total = answer.total /\ answer'.pages = answer.pages
      /\ answer'.rows = answer.rows /\ answer'.hidden = answer.hidden
      /\ answer'.refusal = answer.refusal /\ answer'.open = answer.open
  BY DEF LeavesAlone, AnswerFields
<1>2. /\ TheHalf' = TheHalf /\ TheMine' = TheMine
      /\ \A p, ids, live : Rank(p, ids, live)' = Rank(p, ids, live)
  BY <1>1, StepSees
<1>3. Ids(answer.rows)' = Ids(answer.rows)
  BY <1>1 DEF Ids
<1>4. ExactCount'
  BY <1>1, <1>2 DEF Exact, ExactCount, Figuring
<1>5. ExactPage'
  BY <1>1, <1>2, <1>3 DEF Exact, ExactPage, Figuring
<1>6. ExactList'
  BY <1>1, <1>2, <1>3 DEF Exact, ExactList, Figuring, PagesInv, Formed
<1>7. ExactAccess'
  BY <1>1 DEF Exact, ExactAccess, Figuring, pollTables
<1> QED BY <1>4, <1>5, <1>6, <1>7 DEF Exact, ExactTime, Figuring

-----------------------------------------------------------------------------
(* The read of the tallies keeps the invariant.                            *)
LEMMA TallyKeeps ==
  ASSUME PagesInv, Tally
  PROVE  PagesInv'
<1> DEFINE t == [p \in Ids(answer.rows) |->
                   [o \in Option |-> Cardinality({u \in User : o \in ballots[p][u]})]]
<1>1. /\ answer' = [answer EXCEPT !.at = "voters", !.tally = t] /\ UNCHANGED pollTables
      /\ answer.at = "tally"
  BY DEF Tally, Step
<1>2. \A i \in DOMAIN answer.rows :
        /\ t[answer.rows[i].id] \in [Option -> Nat]
        /\ \A o \in Option : t[answer.rows[i].id][o] = VotesAt(Scene, answer.rows[i].id, o)
  <2> SUFFICES ASSUME NEW i \in DOMAIN answer.rows
               PROVE  /\ t[answer.rows[i].id] \in [Option -> Nat]
                      /\ \A o \in Option :
                           t[answer.rows[i].id][o] = VotesAt(Scene, answer.rows[i].id, o)
    OBVIOUS
  <2> DEFINE p == answer.rows[i].id
  <2>1. p \in Ids(answer.rows)
    BY DEF Ids
  <2>2. ASSUME NEW o \in Option PROVE Cardinality({u \in User : o \in ballots[p][u]}) \in Nat
    BY PagesAssumption, FS_Subset, FS_CardinalityType
  <2>3. t[p] = [o \in Option |-> Cardinality({u \in User : o \in ballots[p][u]})]
    BY <2>1
  <2> QED BY ZenonT(40), <2>2, <2>3 DEF VotesAt, Scene
<1> HIDE DEF t
<1>3. /\ IsAnswer(answer)' /\ answer'.at = "voters" /\ answer'.tally = t
      /\ LeavesAlone(answer, answer', {"at", "tally"})
  BY Zenon, <1>1 DEF PagesInv, Formed, IsAnswer, AnswerFields, LeavesAlone
<1>4. /\ answer'.op = answer.op /\ answer'.user = answer.user /\ answer'.poll = answer.poll
      /\ answer'.live = answer.live /\ answer'.page = answer.page /\ answer'.flags = answer.flags
      /\ answer'.rows = answer.rows /\ answer'.hidden = answer.hidden
      /\ answer'.refusal = answer.refusal /\ answer'.scenes = answer.scenes
      /\ answer'.out = answer.out
  BY <1>3 DEF LeavesAlone, AnswerFields
<1>5. Formed(answer)' /\ answer.op # "access" /\ answer.out = << >>
  BY <1>1, <1>3, <1>4 DEF PagesInv, Formed, StagesOf, Figuring
<1>6. Scene \in answer.scenes
  BY <1>1 DEF PagesInv, Moments
<1>7. SawTally(answer)'
  BY <1>2, <1>3, <1>4, <1>6 DEF SawTally
<1>8. Saw(answer)'
  BY <1>1, <1>3, <1>4, <1>5, <1>7 DEF PagesInv, Saw, SawRows, SawVoters, SawExcluded, SawSelected,
       SawEntitled, SawOut, IsTrue, Figuring
<1>9. Still => Exact'
  <2> SUFFICES ASSUME Still PROVE Exact'
    OBVIOUS
  <2>1. ExactLive'
    BY <1>4, <1>5 DEF ExactLive
  <2>2. LeavesAlone(answer, answer', {"at", "tally", "voters", "excluded", "selected", "out"})
    BY <1>3 DEF LeavesAlone
  <2> QED BY <1>1, <1>3, <1>5, <2>1, <2>2, ExactStays DEF PagesInv, Figuring
<1> QED BY <1>1, <1>3, <1>4, <1>5, <1>8, <1>9, StepKeeps

(* The count of the voters keeps it.                                       *)
LEMMA VotersKeeps ==
  ASSUME PagesInv, Voters
  PROVE  PagesInv'
<1> DEFINE t == [p \in Ids(answer.rows) |-> Cardinality({u \in User : ballots[p][u] # {}})]
<1>1. /\ answer' = [answer EXCEPT !.at = "excluded", !.voters = t] /\ UNCHANGED pollTables
      /\ answer.at = "voters"
  BY DEF Voters, Step
<1>2. \A i \in DOMAIN answer.rows :
        t[answer.rows[i].id] = VotersAt(Scene, answer.rows[i].id)
  BY DEF Ids, VotersAt, Scene
<1> HIDE DEF t
<1>3. /\ IsAnswer(answer)' /\ answer'.at = "excluded" /\ answer'.voters = t
      /\ LeavesAlone(answer, answer', {"at", "voters"})
  BY Zenon, <1>1 DEF PagesInv, Formed, IsAnswer, AnswerFields, LeavesAlone
<1>4. /\ answer'.op = answer.op /\ answer'.user = answer.user /\ answer'.poll = answer.poll
      /\ answer'.live = answer.live /\ answer'.page = answer.page /\ answer'.flags = answer.flags
      /\ answer'.rows = answer.rows /\ answer'.hidden = answer.hidden
      /\ answer'.refusal = answer.refusal /\ answer'.scenes = answer.scenes
      /\ answer'.out = answer.out /\ answer'.tally = answer.tally
  BY <1>3 DEF LeavesAlone, AnswerFields
<1>5. Formed(answer)' /\ answer.op # "access" /\ answer.out = << >>
  BY <1>1, <1>3, <1>4 DEF PagesInv, Formed, StagesOf, Figuring
<1>6. Scene \in answer.scenes
  BY <1>1 DEF PagesInv, Moments
<1>7. SawVoters(answer)'
  BY <1>2, <1>3, <1>4, <1>6 DEF SawVoters
<1>8. Saw(answer)'
  BY <1>1, <1>3, <1>4, <1>5, <1>7 DEF PagesInv, Saw, SawRows, SawTally, SawExcluded, SawSelected,
       SawEntitled, SawOut, IsTrue, Figuring
<1>9. Still => Exact'
  <2> SUFFICES ASSUME Still PROVE Exact'
    OBVIOUS
  <2>1. ExactLive'
    BY <1>4, <1>5 DEF ExactLive
  <2>2. LeavesAlone(answer, answer', {"at", "tally", "voters", "excluded", "selected", "out"})
    BY <1>3 DEF LeavesAlone
  <2> QED BY <1>1, <1>3, <1>5, <2>1, <2>2, ExactStays DEF PagesInv, Figuring
<1> QED BY <1>1, <1>3, <1>4, <1>5, <1>8, <1>9, StepKeeps

(* The read of the exclusion keeps it.                                     *)
LEMMA ExcludedKeeps ==
  ASSUME PagesInv, Excluded
  PROVE  PagesInv'
<1> DEFINE t == [p \in Ids(answer.rows) |-> Cardinality(polls[p].excluded)]
           next == IF answer.op = "pages" THEN "build" ELSE "selected"
<1>1. /\ answer' = [answer EXCEPT !.at = next, !.excluded = t] /\ UNCHANGED pollTables
      /\ answer.at = "excluded"
  BY DEF Excluded, Step
<1>2. \A i \in DOMAIN answer.rows :
        t[answer.rows[i].id] = Cardinality(Scene.polls[answer.rows[i].id].excluded)
  BY DEF Ids, Scene
<1> HIDE DEF t
<1>3. /\ IsAnswer(answer)' /\ answer'.at = next /\ answer'.excluded = t
      /\ LeavesAlone(answer, answer', {"at", "excluded"})
  BY Zenon, <1>1 DEF PagesInv, Formed, IsAnswer, AnswerFields, LeavesAlone
<1>4. /\ answer'.op = answer.op /\ answer'.user = answer.user /\ answer'.poll = answer.poll
      /\ answer'.live = answer.live /\ answer'.page = answer.page /\ answer'.flags = answer.flags
      /\ answer'.rows = answer.rows /\ answer'.hidden = answer.hidden
      /\ answer'.refusal = answer.refusal /\ answer'.scenes = answer.scenes
      /\ answer'.out = answer.out /\ answer'.tally = answer.tally /\ answer'.voters = answer.voters
  BY <1>3 DEF LeavesAlone, AnswerFields
<1>5. Formed(answer)' /\ answer.op # "access" /\ answer.out = << >>
  BY <1>1, <1>3, <1>4 DEF PagesInv, Formed, StagesOf, Figuring
<1>6. Scene \in answer.scenes
  BY <1>1 DEF PagesInv, Moments
<1>7. SawExcluded(answer)'
  BY SMTT(30), <1>2, <1>3, <1>4, <1>6 DEF SawExcluded
<1>8. Saw(answer)'
  BY <1>1, <1>3, <1>4, <1>5, <1>7 DEF PagesInv, Saw, SawRows, SawTally, SawVoters, SawSelected,
       SawEntitled, SawOut, IsTrue, Figuring
<1>9. Still => Exact'
  <2> SUFFICES ASSUME Still PROVE Exact'
    OBVIOUS
  <2>1. ExactLive'
    BY <1>4, <1>5 DEF ExactLive
  <2>2. LeavesAlone(answer, answer', {"at", "tally", "voters", "excluded", "selected", "out"})
    BY <1>3 DEF LeavesAlone
  <2> QED BY <1>1, <1>3, <1>5, <2>1, <2>2, ExactStays DEF PagesInv, Figuring
<1> QED BY <1>1, <1>3, <1>4, <1>5, <1>8, <1>9, StepKeeps

(* The read of the marked options keeps it.                                *)
LEMMA SelectedKeeps ==
  ASSUME PagesInv, Selected
  PROVE  PagesInv'
<1> DEFINE t == [p \in Ids(answer.rows) |-> ballots[p][answer.user]]
           next == IF answer.op = "access" THEN "done" ELSE "build"
<1>1. /\ answer' = [answer EXCEPT !.at = next, !.selected = t] /\ UNCHANGED pollTables
      /\ answer.at = "selected"
  BY DEF Selected, Step
<1>2. \A i \in DOMAIN answer.rows :
        /\ answer.rows[i].id \in DOMAIN t
        /\ t[answer.rows[i].id] = Scene.ballots[answer.rows[i].id][answer.user]
  BY DEF Ids, Scene
<1> HIDE DEF t
<1>3. /\ IsAnswer(answer)' /\ answer'.at = next /\ answer'.selected = t
      /\ LeavesAlone(answer, answer', {"at", "selected"})
  BY Zenon, <1>1 DEF PagesInv, Formed, IsAnswer, AnswerFields, LeavesAlone
<1>4. /\ answer'.op = answer.op /\ answer'.user = answer.user /\ answer'.poll = answer.poll
      /\ answer'.live = answer.live /\ answer'.page = answer.page /\ answer'.flags = answer.flags
      /\ answer'.rows = answer.rows /\ answer'.hidden = answer.hidden
      /\ answer'.refusal = answer.refusal /\ answer'.scenes = answer.scenes
      /\ answer'.out = answer.out /\ answer'.tally = answer.tally /\ answer'.voters = answer.voters
      /\ answer'.excluded = answer.excluded
  BY <1>3 DEF LeavesAlone, AnswerFields
<1>5. Formed(answer)' /\ answer.op # "pages" /\ answer.out = << >>
  BY <1>1, <1>3, <1>4 DEF PagesInv, Formed, StagesOf, Figuring
<1>6. Scene \in answer.scenes
  BY <1>1 DEF PagesInv, Moments
<1>7. SawSelected(answer)'
  BY SMTT(30), <1>2, <1>3, <1>4, <1>6 DEF SawSelected
<1>8. Saw(answer)'
  BY <1>1, <1>3, <1>4, <1>5, <1>7 DEF PagesInv, Saw, SawRows, SawTally, SawVoters, SawExcluded,
       SawEntitled, SawOut, IsTrue, Figuring
<1>9. Still => Exact'
  <2> SUFFICES ASSUME Still PROVE Exact'
    OBVIOUS
  <2>1. ExactLive'
    BY <1>4, <1>5 DEF ExactLive
  <2>2. LeavesAlone(answer, answer', {"at", "tally", "voters", "excluded", "selected", "out"})
    BY <1>3 DEF LeavesAlone
  <2> QED BY <1>1, <1>3, <1>5, <2>1, <2>2, ExactStays DEF PagesInv, Figuring
<1> QED BY <1>1, <1>3, <1>4, <1>5, <1>8, <1>9, StepKeeps

(* What was live later was live when its row was read.                     *)
LEMMA LiveBefore ==
  ASSUME NEW row \in PollRow, NEW s \in Nat, NEW t \in Nat, s <= t,
         IsLive(row.ended, row.closes, t)
  PROVE  IsLive(row.ended, row.closes, s)
BY RulesAssumption DEF IsLive, PollRow, Time

(* An answer is put together from what was seen.                           *)
LEMMA ShownIsTrue ==
  ASSUME PagesInv, answer.at = "build", NEW i \in DOMAIN answer.rows
  PROVE  IsTrue(answer, Shown(answer.rows[i])) /\ Shown(answer.rows[i]).id = answer.rows[i].id
<1> DEFINE r == answer.rows[i]
           shown == Shown(r)
<1>1. /\ shown.id = r.id /\ shown.votes = answer.tally[r.id] /\ shown.voters = answer.voters[r.id]
      /\ shown.percent = [o \in Option |-> Percent(answer.tally[r.id][o], answer.voters[r.id])]
      /\ shown.leading = Leading(answer.tally[r.id])
      /\ shown.excluded = answer.excluded[r.id]
      /\ shown.selected = IF r.id \in DOMAIN answer.selected THEN answer.selected[r.id] ELSE {}
      /\ shown.live = IsLive(r.row.ended, r.row.closes, clock)
  BY DEF Shown
<1> HIDE DEF shown
<1>2. answer.op # "access"
  BY DEF PagesInv, Formed, StagesOf, Figuring
<1>3. /\ r.id \in Poll /\ r.row.open /\ \E s \in answer.scenes : r.row = s.polls[r.id]
  BY DEF PagesInv, Saw, SawRows
<1>4. /\ answer.tally[r.id] \in [Option -> Nat]
      /\ \A o \in Option : \E s \in answer.scenes : answer.tally[r.id][o] = VotesAt(s, r.id, o)
  BY <1>2 DEF PagesInv, Saw, SawTally, Figuring
<1>5. \E s \in answer.scenes : answer.voters[r.id] = VotersAt(s, r.id)
  BY <1>2 DEF PagesInv, Saw, SawVoters
<1>6. \E s \in answer.scenes : answer.excluded[r.id] = Cardinality(s.polls[r.id].excluded)
  BY <1>2 DEF PagesInv, Saw, SawExcluded
<1>7. answer.op # "pages" =>
        /\ r.id \in DOMAIN answer.selected
        /\ \E s \in answer.scenes : answer.selected[r.id] = s.ballots[r.id][answer.user]
  BY DEF PagesInv, Saw, SawSelected
<1>8. shown.live => \E s \in answer.scenes : Live(s.polls[r.id], s.now)
  <2> SUFFICES ASSUME shown.live PROVE \E s \in answer.scenes : Live(s.polls[r.id], s.now)
    OBVIOUS
  <2>1. PICK s \in answer.scenes : r.row = s.polls[r.id]
    BY <1>3
  <2>2. s.now \in Nat /\ s.now <= clock /\ clock \in Nat /\ s.polls[r.id] \in PollRow
    BY <1>3 DEF PagesInv, Moments, Moment, PollsTyped
  <2>3. IsLive(r.row.ended, r.row.closes, s.now)
    BY SMTT(30), <1>1, <2>1, <2>2, LiveBefore
  <2> QED BY Zenon, <1>3, <2>1, <2>3 DEF Live
<1>9. answer.op \in {"mine", "get"} =>
        \E s \in answer.scenes : Entitled(s.polls[r.id], answer.user, answer.flags)
  BY SMTT(30) DEF PagesInv, Saw, SawEntitled, Figuring
<1>10. DOMAIN shown.votes = Option
       /\ \A o \in Option : shown.percent[o] = Percent(shown.votes[o], shown.voters)
  BY ZenonT(40), <1>1, <1>4
<1>11. /\ shown.id \in Poll /\ shown.leading = Leading(shown.votes)
       /\ \A o \in Option : \E s \in answer.scenes : shown.votes[o] = VotesAt(s, shown.id, o)
       /\ \E s \in answer.scenes : shown.voters = VotersAt(s, shown.id)
  <2>1. shown.id \in Poll /\ shown.leading = Leading(shown.votes)
    BY <1>1, <1>3
  <2>2. \A o \in Option : \E s \in answer.scenes : shown.votes[o] = VotesAt(s, shown.id, o)
    BY ZenonT(40), <1>1, <1>4
  <2>3. \E s \in answer.scenes : shown.voters = VotersAt(s, shown.id)
    BY <1>1, <1>5
  <2> QED BY SMTT(30), <2>1, <2>2, <2>3
<1>12. /\ \E s \in answer.scenes : shown.excluded = Cardinality(s.polls[shown.id].excluded)
       /\ answer.op # "pages" =>
            \E s \in answer.scenes : shown.selected = s.ballots[shown.id][answer.user]
  BY ZenonT(40), <1>1, <1>6, <1>7
<1>13. /\ shown.live => \E s \in answer.scenes : Live(s.polls[shown.id], s.now)
       /\ answer.op \in {"mine", "get"} =>
            \E s \in answer.scenes : Entitled(s.polls[shown.id], answer.user, answer.flags)
  BY <1>1, <1>8, <1>9
<1>14. IsTrue(answer, shown)
  BY <1>10, <1>11, <1>12, <1>13 DEF IsTrue
<1> QED BY <1>1, <1>14 DEF shown

(* The figures, built from what was read, keep it.                         *)
LEMMA BuildKeeps ==
  ASSUME PagesInv, Build
  PROVE  PagesInv'
<1> DEFINE out == [i \in DOMAIN answer.rows |-> Shown(answer.rows[i])]
<1>1. /\ answer' = [answer EXCEPT !.at = "done", !.out = out] /\ UNCHANGED pollTables
      /\ answer.at = "build"
  BY DEF Build, Step
<1>2. /\ DOMAIN out = DOMAIN answer.rows
      /\ \A i \in DOMAIN out : IsTrue(answer, out[i]) /\ out[i].id = answer.rows[i].id
  BY <1>1, ShownIsTrue
<1>3. ASSUME Still, NEW i \in DOMAIN out PROVE out[i].live = Live(polls[out[i].id], clock)
  <2>1. PICK s \in answer.scenes : answer.rows[i].row = s.polls[answer.rows[i].id]
    BY DEF PagesInv, Saw, SawRows
  <2>2. answer.rows[i].row = polls[answer.rows[i].id] /\ answer.rows[i].row.open
    BY <1>3, <2>1 DEF Still, Scene, PagesInv, Saw, SawRows
  <2>3. out[i].live = IsLive(answer.rows[i].row.ended, answer.rows[i].row.closes, clock)
    BY Zenon DEF Shown
  <2>4. out[i].id = answer.rows[i].id
    BY <1>2
  <2>5. Live(polls[answer.rows[i].id], clock) = IsLive(polls[answer.rows[i].id].ended,
                                                       polls[answer.rows[i].id].closes, clock)
    BY <2>2 DEF Live, IsLive
  <2> HIDE DEF out
  <2> QED BY <2>2, <2>3, <2>4, <2>5
<1> HIDE DEF out
<1>4. /\ IsAnswer(answer)' /\ answer'.at = "done" /\ answer'.out = out
      /\ LeavesAlone(answer, answer', {"at", "out"})
  BY Zenon, <1>1 DEF PagesInv, Formed, IsAnswer, AnswerFields, LeavesAlone
<1>5. /\ answer'.op = answer.op /\ answer'.user = answer.user /\ answer'.poll = answer.poll
      /\ answer'.live = answer.live /\ answer'.page = answer.page /\ answer'.flags = answer.flags
      /\ answer'.rows = answer.rows /\ answer'.hidden = answer.hidden
      /\ answer'.refusal = answer.refusal /\ answer'.scenes = answer.scenes
  BY <1>4 DEF LeavesAlone, AnswerFields
<1>6. Formed(answer)' /\ answer.op # "access"
  BY <1>1, <1>4, <1>5 DEF PagesInv, Formed, StagesOf, Figuring
<1>7. \A i \in DOMAIN out : IsTrue(answer', out[i])
  BY <1>2, <1>5, TrueMore
<1>8. SawOut(answer)'
  BY <1>2, <1>4, <1>5, <1>7 DEF SawOut
<1>9. Saw(answer)'
  BY <1>1, <1>4, <1>5, <1>8 DEF PagesInv, Saw, SawRows, SawTally, SawVoters, SawExcluded,
       SawSelected, SawEntitled, Figuring
<1>10. Still => Exact'
  <2> SUFFICES ASSUME Still PROVE Exact'
    OBVIOUS
  <2>1. ExactLive'
    BY <1>1, <1>3, <1>4 DEF ExactLive, pollTables, Live
  <2>2. LeavesAlone(answer, answer', {"at", "tally", "voters", "excluded", "selected", "out"})
    BY <1>4 DEF LeavesAlone
  <2> QED BY <1>1, <1>4, <1>6, <2>1, <2>2, ExactStays DEF PagesInv, Figuring
<1> QED BY <1>1, <1>4, <1>5, <1>6, <1>9, <1>10, StepKeeps

-----------------------------------------------------------------------------
(* The first statement of an account's request.                            *)
LEMMA ViewerKeeps ==
  ASSUME PagesInv, Viewer
  PROVE  PagesInv'
<1>0. answer.at = "viewer" /\ UNCHANGED pollTables /\ answer.op # "pages"
  BY DEF Viewer, Step, Refuse, PagesInv, Formed, StagesOf, Figuring
<1>00. answer.out = << >> /\ answer.rows = << >> /\ answer.refusal = "none"
  BY <1>0 DEF PagesInv, Formed
<1>1. CASE answer.user \notin accounts
  <2>1. answer' = [answer EXCEPT !.at = "done", !.refusal = "unknown"]
    BY <1>1 DEF Viewer, Refuse, Step
  <2>2. /\ IsAnswer(answer)' /\ answer'.at = "done" /\ answer'.refusal = "unknown"
        /\ LeavesAlone(answer, answer', {"at", "refusal"})
    BY Zenon, <2>1 DEF PagesInv, Formed, IsAnswer, AnswerFields, LeavesAlone
  <2>3. /\ answer'.op = answer.op /\ answer'.user = answer.user /\ answer'.poll = answer.poll
        /\ answer'.live = answer.live /\ answer'.page = answer.page
        /\ answer'.flags = answer.flags /\ answer'.rows = answer.rows
        /\ answer'.hidden = answer.hidden /\ answer'.scenes = answer.scenes
        /\ answer'.out = answer.out
    BY <2>2 DEF LeavesAlone, AnswerFields
  <2>4. Formed(answer)'
    BY <1>0, <1>00, <2>2, <2>3 DEF PagesInv, Formed, StagesOf, Figuring
  <2>5. Saw(answer)'
    BY <1>0, <1>00, <2>2, <2>3 DEF Saw, SawRows, SawTally, SawVoters, SawExcluded,
         SawSelected, SawEntitled, SawOut, IsTrue, Figuring
  <2>6. Exact'
    BY <1>0, <1>00, <2>2, <2>3 DEF Exact, ExactTime, ExactCount, ExactPage, ExactList, ExactAccess, ExactLive
  <2> QED BY <1>0, <2>2, <2>3, <2>4, <2>5, <2>6, StepKeeps
<1>2. CASE answer.user \in accounts
  <2> DEFINE next == IF answer.op = "mine" THEN "list" ELSE "load"
             fl == flags[answer.user]
  <2>1. answer' = [answer EXCEPT !.flags = fl, !.at = next]
    BY <1>2 DEF Viewer, Step
  <2> HIDE DEF fl
  <2>2. /\ IsAnswer(answer)' /\ answer'.at = next /\ answer'.flags = fl
        /\ LeavesAlone(answer, answer', {"at", "flags"})
    BY Zenon, <2>1 DEF PagesInv, Formed, IsAnswer, AnswerFields, LeavesAlone
  <2>3. /\ answer'.op = answer.op /\ answer'.user = answer.user /\ answer'.poll = answer.poll
        /\ answer'.live = answer.live /\ answer'.page = answer.page
        /\ answer'.rows = answer.rows /\ answer'.refusal = answer.refusal
        /\ answer'.hidden = answer.hidden /\ answer'.scenes = answer.scenes
        /\ answer'.out = answer.out
    BY <2>2 DEF LeavesAlone, AnswerFields
  <2>4. Formed(answer)'
    BY <1>0, <1>00, <2>2, <2>3 DEF PagesInv, Formed, StagesOf, Figuring
  <2>5. Saw(answer)'
    BY <1>0, <1>00, <2>2, <2>3 DEF Saw, SawRows, SawTally, SawVoters, SawExcluded,
         SawSelected, SawEntitled, SawOut, IsTrue, Figuring
  <2>6. Exact'
    BY <1>0, <1>00, <2>2, <2>3 DEF Exact, ExactTime, ExactCount, ExactPage, ExactList, ExactAccess,
         ExactLive, PagesInv, Formed
  <2> QED BY <1>0, <2>2, <2>3, <2>4, <2>5, <2>6, StepKeeps
<1> QED BY <1>1, <1>2

(* A quotient is the last multiple that fits.                              *)
LEMMA Division ==
  ASSUME NEW a \in Nat, NEW b \in Nat \ {0}
  PROVE  /\ a \div b \in Nat
         /\ (a \div b) * b <= a /\ a < (a \div b) * b + b
OBVIOUS

(* And it is the only one.                                                 *)
LEMMA OneQuotient ==
  ASSUME NEW a \in Nat, NEW b \in Nat \ {0}, NEW k \in Nat, k * b <= a, a < k * b + b
  PROVE  a \div b = k
OBVIOUS

(* A function on 1 .. n is a sequence of length n.                         *)
LEMMA LengthIs ==
  ASSUME NEW S, NEW n \in Nat, NEW s \in [1 .. n -> S]
  PROVE  s \in Seq(S) /\ Len(s) = n
OBVIOUS

(* A window of a list (Page).                                              *)
LEMMA PageWindow ==
  ASSUME NEW S, NEW n \in Nat, NEW s \in [1 .. n -> S], NEW first \in Nat, NEW last \in Nat
  PROVE  /\ \A i : i \in DOMAIN SubSeq(s, first + 1, last) <=> i \in 1 .. (last - first)
         /\ \A i \in 1 .. (last - first) : SubSeq(s, first + 1, last)[i] = s[first + i]
OBVIOUS

(* The half of the polls a page lists is finite.                           *)
LEMMA TheHalfIs ==
  ASSUME PollsTyped, NEW half \in {TheHalf, HalfThen}
  PROVE  /\ IsFiniteSet(half) /\ half \subseteq Poll
         /\ \A T : T \subseteq half => IsFiniteSet(T)
<1>1. half \subseteq Poll
  BY DEF TheHalf, HalfThen, Half
<1> QED BY <1>1, PagesAssumption, FS_Subset

(* The orders of both halves (SoonerClosed, LaterStopped).                 *)
LEMMA HalvesAreOrdered ==
  ASSUME PollsTyped, NEW half \in {TheHalf, HalfThen}, NEW ids, ids \subseteq half,
         answer.live \in BOOLEAN
  PROVE  Orders(ids, answer.live)
<1>1. \A p \in ids : p \in Nat /\ polls[p].closes \in Nat \cup {Null}
                               /\ polls[p].ended \in Nat \cup {Null}
  BY PagesAssumption DEF PollsTyped, PollRow, Time, TheHalf, HalfThen, Half
<1>2. Null \notin Int
  BY RulesAssumption
<1>3. CASE answer.live
  <2>1. /\ \A p, q \in ids : ~(SoonerClosed(p, q) /\ SoonerClosed(q, p))
        /\ \A p, q \in ids : p # q => SoonerClosed(p, q) \/ SoonerClosed(q, p)
    BY <1>1, <1>2 DEF SoonerClosed
  <2>2. \A p, q, r \in ids : SoonerClosed(p, q) /\ SoonerClosed(q, r) => SoonerClosed(p, r)
    BY <1>1, <1>2 DEF SoonerClosed
  <2> QED BY <1>3, <2>1, <2>2 DEF Orders, Ahead
<1>4. CASE ~answer.live
  <2>1. \A p \in ids : Stopped(polls[p]) \in Nat
    BY <1>1, <1>2, <1>4 DEF TheHalf, HalfThen, Half, Past, PastSql, Stopped
  <2>2. /\ \A p, q \in ids : ~(LaterStopped(p, q) /\ LaterStopped(q, p))
        /\ \A p, q \in ids : p # q => LaterStopped(p, q) \/ LaterStopped(q, p)
    BY <1>1, <2>1 DEF LaterStopped
  <2>3. \A p, q, r \in ids : LaterStopped(p, q) /\ LaterStopped(q, r) => LaterStopped(p, r)
    BY <1>1, <2>1 DEF LaterStopped
  <2> QED BY <1>4, <2>2, <2>3 DEF Orders, Ahead
<1> QED BY <1>3, <1>4

(* What a request begins with.                                             *)
FirstAsk(a) ==
  /\ IsAnswer(a)
  /\ a.out = << >> /\ a.rows = << >> /\ a.refusal = "none" /\ a.hidden = 0
  /\ a.live \in BOOLEAN /\ a.page \in Nat \ {0}
  /\ \/ a.op = "pages" /\ a.at = "count" /\ a.asof = clock
     \/ /\ a.op \in {"mine", "get", "access"} /\ a.at = "viewer" /\ a.user \in User
        /\ a.op # "mine" => a.poll \in Poll

(* A request begins with the moment at which it came.                      *)
LEMMA BeginBegins ==
  ASSUME Begin
  PROVE  FirstAsk(answer') /\ answer'.scenes = {Scene}
<1>1. ASSUME NEW live \in BOOLEAN, NEW pg \in 1 .. Cardinality(Poll) + 1,
             answer' = [NoRequest EXCEPT !.at = "count", !.op = "pages", !.asof = clock,
                                         !.live = live, !.page = pg, !.scenes = {Scene}]
      PROVE  FirstAsk(answer') /\ answer'.scenes = {Scene}
  <2>1. pg \in Nat \ {0}
    BY PagesAssumption, FS_CardinalityType
  <2> QED BY ZenonT(40), <1>1, <2>1 DEF NoRequest, IsAnswer, AnswerFields, FirstAsk
<1>2. ASSUME NEW live \in BOOLEAN, NEW u \in User,
             answer' = [NoRequest EXCEPT !.at = "viewer", !.op = "mine", !.live = live,
                                         !.user = u, !.scenes = {Scene}]
      PROVE  FirstAsk(answer') /\ answer'.scenes = {Scene}
  <2>1. /\ answer'.op = "mine" /\ answer'.at = "viewer" /\ answer'.user = u
        /\ answer'.live = live /\ answer'.scenes = {Scene} /\ answer'.page = 1
        /\ answer'.out = << >> /\ answer'.rows = << >> /\ answer'.refusal = "none"
        /\ answer'.hidden = 0
    BY <1>2 DEF NoRequest
  <2>2. IsAnswer(answer')
    BY ZenonT(40), <1>2 DEF NoRequest, IsAnswer, AnswerFields
  <2> QED BY <2>1, <2>2 DEF FirstAsk
<1>3. ASSUME NEW op \in {"get", "access"}, NEW u \in User, NEW p \in Poll,
             answer' = [NoRequest EXCEPT !.at = "viewer", !.op = op, !.user = u, !.poll = p,
                                         !.scenes = {Scene}]
      PROVE  FirstAsk(answer') /\ answer'.scenes = {Scene}
  <2>1. /\ answer'.op = op /\ answer'.at = "viewer" /\ answer'.user = u /\ answer'.poll = p
        /\ answer'.live \in BOOLEAN /\ answer'.scenes = {Scene} /\ answer'.page = 1
        /\ answer'.out = << >> /\ answer'.rows = << >> /\ answer'.refusal = "none"
        /\ answer'.hidden = 0
    BY <1>3 DEF NoRequest
  <2>2. IsAnswer(answer')
    BY ZenonT(40), <1>3 DEF NoRequest, IsAnswer, AnswerFields
  <2> QED BY <2>1, <2>2 DEF FirstAsk
<1> QED BY Zenon, <1>1, <1>2, <1>3 DEF Begin

(* A request that has read nothing holds nothing untrue.                   *)
LEMMA FirstAskIsFine ==
  ASSUME NEW a, FirstAsk(a)
  PROVE  Formed(a) /\ Saw(a)
<1>1. Formed(a)
  BY DEF FirstAsk, Formed, StagesOf, Figuring
<1>2. Saw(a)
  BY DEF FirstAsk, Saw, SawRows, SawTally, SawVoters, SawExcluded, SawSelected, SawEntitled, SawOut,
         Figuring
<1> QED BY <1>1, <1>2

(* The start of a request keeps the invariant.                             *)
LEMMA BeginKeeps ==
  ASSUME PagesInv, Begin
  PROVE  PagesInv'
<1>1. UNCHANGED pollTables /\ FirstAsk(answer') /\ answer'.scenes = {Scene}
  BY Zenon, BeginBegins DEF Begin
<1>2. PollsTyped' /\ Scene' = Scene
  BY <1>1 DEF PagesInv, PollsTyped, pollTables, Scene
<1>3. Formed(answer') /\ Saw(answer')
  BY SMTT(30), <1>1, FirstAskIsFine
<1>4. Formed(answer)' /\ Saw(answer)'
  BY <1>3 DEF Formed, Saw, SawRows, SawTally, SawVoters, SawExcluded, SawSelected, SawEntitled,
              SawOut, IsTrue
<1>5. Moments'
  <2>1. Moment(Scene)'
    BY <1>2 DEF Moment, Scene, PollsTyped
  <2> QED BY <1>1, <1>2, <2>1, FS_Singleton DEF Moments
<1>6. Exact'
  BY <1>1 DEF pollTables, FirstAsk, Exact, ExactTime, ExactCount, ExactPage, ExactList, ExactAccess, ExactLive
<1> QED BY <1>2, <1>4, <1>5, <1>6 DEF PagesInv

(* Nor does the record of no request.                                      *)
LEMMA NobodyIsFine ==
  ASSUME NEW a, a = NoRequest
  PROVE  Formed(a) /\ Saw(a)
<1>1. /\ IsAnswer(a) /\ a.at = "idle" /\ a.op = "none" /\ a.out = << >> /\ a.rows = << >>
      /\ a.refusal = "none" /\ a.hidden = 0
  BY DEF NoRequest, IsAnswer, AnswerFields
<1>2. Formed(a)
  BY <1>1 DEF Formed
<1>3. Saw(a)
  BY <1>1 DEF Saw, SawRows, SawTally, SawVoters, SawExcluded, SawSelected, SawEntitled, SawOut,
              Figuring
<1> QED BY <1>2, <1>3

(* The end of a request keeps the invariant.                               *)
LEMMA CloseKeeps ==
  ASSUME PagesInv, Close
  PROVE  PagesInv'
<1>1. UNCHANGED pollTables /\ answer' = NoRequest
  BY SMTT(30) DEF Close, Step
<1>2. PollsTyped'
  BY SMTT(30), <1>1 DEF PagesInv, PollsTyped, pollTables
<1>3. Formed(answer') /\ Saw(answer')
  BY SMTT(30), <1>1, NobodyIsFine
<1>4. Formed(answer)' /\ Saw(answer)'
  BY <1>3 DEF Formed, Saw, SawRows, SawTally, SawVoters, SawExcluded, SawSelected, SawEntitled,
              SawOut, IsTrue
<1>5. Moments' /\ ~Still'
  BY <1>1, FS_EmptySet DEF NoRequest, Moments, Still
<1> QED BY <1>2, <1>4, <1>5 DEF PagesInv

-----------------------------------------------------------------------------
(* The statements of a page and of a list.                                 *)
LEMMA CountKeeps ==
  ASSUME PagesInv, Count
  PROVE  PagesInv'
<1> DEFINE n == Cardinality(HalfThen)
           pages == (n + PageSize - 1) \div PageSize
           known == IF pages = 0 THEN 1 ELSE pages
           pg == IF answer.page > known THEN known ELSE answer.page
<1>1. /\ answer' = [answer EXCEPT !.at = "page", !.total = n, !.pages = known, !.page = pg]
      /\ UNCHANGED pollTables /\ answer.at = "count"
  BY DEF Count, Step, HalfThen
<1>2. /\ answer.op = "pages" /\ answer.page \in Nat \ {0} /\ answer.live \in BOOLEAN
      /\ answer.out = << >> /\ answer.rows = << >> /\ answer.refusal = "none"
      /\ answer.hidden = 0
  BY <1>1 DEF PagesInv, Formed, StagesOf, Figuring
<1>3. n \in Nat /\ (n = 0 <=> HalfThen = {})
  BY TheHalfIs, FS_CardinalityType, FS_EmptySet DEF PagesInv
<1> HIDE DEF n
<1>4. /\ pages \in Nat /\ (n = 0 => pages = 0) /\ (n # 0 => pages # 0)
  <2> DEFINE a == n + PageSize - 1
  <2>1. a \in Nat /\ PageSize \in Nat \ {0} /\ (n = 0 => a < PageSize) /\ (n # 0 => PageSize <= a)
    BY <1>3, PagesAssumption
  <2> HIDE DEF a
  <2>2. /\ a \div PageSize \in Nat
        /\ (a \div PageSize) * PageSize <= a /\ a < (a \div PageSize) * PageSize + PageSize
    BY <2>1, Division
  <2> DEFINE q == a \div PageSize
  <2>3. a < PageSize => q = 0
    BY <2>1, <2>2
  <2>4. PageSize <= a => q # 0
    BY <2>1, <2>2
  <2> QED BY <2>1, <2>2, <2>3, <2>4 DEF a
<1> HIDE DEF pages
<1>5. /\ known = (IF HalfThen = {} THEN 1 ELSE pages) /\ known \in Nat \ {0}
      /\ pg \in Nat \ {0} /\ pg <= known
  BY <1>2, <1>3, <1>4
<1> HIDE DEF known, pg
<1>6. /\ IsAnswer(answer)' /\ answer'.at = "page" /\ answer'.total = n /\ answer'.pages = known
      /\ answer'.page = pg /\ LeavesAlone(answer, answer', {"at", "total", "pages", "page"})
  BY Zenon, <1>1 DEF PagesInv, Formed, IsAnswer, AnswerFields, LeavesAlone
<1>7. /\ answer'.op = answer.op /\ answer'.user = answer.user /\ answer'.live = answer.live
      /\ answer'.rows = answer.rows /\ answer'.refusal = answer.refusal
      /\ answer'.hidden = answer.hidden /\ answer'.scenes = answer.scenes
      /\ answer'.out = answer.out
  BY <1>6 DEF LeavesAlone, AnswerFields
<1>8. Formed(answer)'
  BY <1>2, <1>5, <1>6, <1>7 DEF Formed, StagesOf, Figuring
<1>9. Saw(answer)'
  BY <1>2, <1>6, <1>7 DEF Saw, SawRows, SawTally, SawVoters, SawExcluded, SawSelected, SawEntitled,
       SawOut, IsTrue, Figuring
<1>10. Still => Exact'
  <2> SUFFICES ASSUME Still PROVE Exact'
    OBVIOUS
  <2>1. answer.asof = clock /\ answer'.asof = answer.asof /\ clock' = clock
    BY <1>1, <1>6 DEF PagesInv, Exact, ExactTime, LeavesAlone, AnswerFields, pollTables
  <2>2. TheHalf' = TheHalf /\ HalfThen = TheHalf
    BY <1>1, <1>7, <2>1, StepSees DEF TheHalf, HalfThen
  <2>3. ExactCount'
    BY <1>5, <1>6, <1>7, <2>2 DEF ExactCount, n, pages
  <2> QED BY <1>2, <1>6, <1>7, <2>1, <2>3
          DEF Exact, ExactTime, ExactPage, ExactList, ExactAccess, ExactLive
<1> QED BY <1>1, <1>6, <1>7, <1>8, <1>9, <1>10, StepKeeps

(* The count of the polls keeps it.                                        *)
LEMMA CountHiddenKeeps ==
  ASSUME PagesInv, CountHidden
  PROVE  PagesInv'
<1> DEFINE n == Cardinality(TheHalf)
<1>1. /\ answer' = [answer EXCEPT !.at = "done", !.hidden = n]
      /\ UNCHANGED pollTables /\ answer.at = "hidden"
  BY DEF CountHidden, Step, TheHalf
<1>2. /\ answer.op = "mine" /\ answer.out = << >> /\ answer.refusal = "none"
  BY <1>1 DEF PagesInv, Formed, StagesOf, Figuring
<1> HIDE DEF n
<1>3. /\ IsAnswer(answer)' /\ answer'.at = "done" /\ answer'.hidden = n
      /\ LeavesAlone(answer, answer', {"at", "hidden"})
  BY Zenon, <1>1 DEF PagesInv, Formed, IsAnswer, AnswerFields, LeavesAlone
<1>4. /\ answer'.op = answer.op /\ answer'.user = answer.user /\ answer'.live = answer.live
      /\ answer'.page = answer.page /\ answer'.flags = answer.flags
      /\ answer'.rows = answer.rows /\ answer'.refusal = answer.refusal
      /\ answer'.scenes = answer.scenes /\ answer'.out = answer.out
  BY <1>3 DEF LeavesAlone, AnswerFields
<1>5. Formed(answer)'
  BY <1>1, <1>2, <1>3, <1>4 DEF PagesInv, Formed, StagesOf, Figuring
<1>6. answer.rows = << >>
  BY <1>1 DEF PagesInv, Formed
<1>7. Saw(answer)'
  BY <1>2, <1>3, <1>4, <1>6 DEF Saw, SawRows, SawTally, SawVoters, SawExcluded, SawSelected,
       SawEntitled, SawOut, IsTrue, Figuring
<1>8. Still => Exact'
  <2> SUFFICES ASSUME Still PROVE Exact'
    OBVIOUS
  <2>1. /\ TheHalf' = TheHalf /\ TheMine' = TheMine
        /\ \A p, ids, live : Rank(p, ids, live)' = Rank(p, ids, live)
    BY <1>1, <1>4, StepSees
  <2>2. Exact
    BY DEF PagesInv
  <2>3. TheMine = {}
    BY <1>1, <1>2, <2>2 DEF Exact, ExactList
  <2>4. ExactList'
    BY <1>3, <1>4, <1>6, <2>1, <2>3 DEF ExactList, n, Figuring
  <2> QED BY <1>2, <1>3, <1>4, <2>4 DEF Exact, ExactTime, ExactCount, ExactPage, ExactAccess, ExactLive
<1> QED BY <1>1, <1>3, <1>4, <1>5, <1>7, <1>8, StepKeeps

(* The rows of a listing (RowOf).                                          *)
LEMMA ListedRowsAre ==
  ASSUME NEW shown
  PROVE  /\ DOMAIN Rows(shown) = DOMAIN shown
         /\ \A i \in DOMAIN shown : /\ Rows(shown)[i].id = shown[i]
                                    /\ Rows(shown)[i].row = polls[shown[i]]
         /\ shown = << >> => Rows(shown) = << >>
BY DEF Rows, RowOf

(* A listed half holds open polls only.                                    *)
LEMMA FromTheHalf ==
  ASSUME NEW half \in {TheHalf, HalfThen}, NEW p \in half
  PROVE  p \in Poll /\ polls[p].open
BY DEF TheHalf, HalfThen, Half, Live, Past

(* Rows read now from the half are true now.                               *)
LEMMA ListingSees ==
  ASSUME NEW half \in {TheHalf, HalfThen},
         NEW shown, \A i \in DOMAIN shown : shown[i] \in half,
         Scene \in answer.scenes, answer'.rows = Rows(shown), answer'.scenes = answer.scenes
  PROVE  SawRows(answer)'
<1> SUFFICES ASSUME NEW i \in DOMAIN answer'.rows
             PROVE  /\ answer'.rows[i].id \in Poll /\ answer'.rows[i].row.open
                    /\ \E s \in answer'.scenes : answer'.rows[i].row = s.polls[answer'.rows[i].id]
  BY DEF SawRows
<1>1. /\ i \in DOMAIN shown /\ answer'.rows[i].id = shown[i]
      /\ answer'.rows[i].row = polls[shown[i]] /\ shown[i] \in half
  BY ListedRowsAre
<1>2. shown[i] \in Poll /\ polls[shown[i]].open
  BY <1>1, FromTheHalf
<1>3. Scene.polls = polls
  BY DEF Scene
<1> QED BY <1>1, <1>2, <1>3

(* The read of one page keeps the invariant.                               *)
LEMMA PageStepKeeps ==
  ASSUME PagesInv, Page
  PROVE  PagesInv'
<1> DEFINE s == InOrder(HalfThen, answer.live)
           first == (answer.page - 1) * PageSize
           last == IF first + PageSize > Len(s) THEN Len(s) ELSE first + PageSize
           shown == SubSeq(s, first + 1, last)
           next == IF shown = << >> THEN "done" ELSE "tally"
           n == Cardinality(HalfThen)
<1>1. /\ answer' = [answer EXCEPT !.at = next, !.rows = Rows(shown)]
      /\ UNCHANGED pollTables /\ answer.at = "page"
  BY DEF Page, Step, HalfThen
<1>2. /\ answer.op = "pages" /\ answer.page \in Nat \ {0} /\ answer.live \in BOOLEAN
      /\ answer.out = << >> /\ answer.refusal = "none" /\ answer.hidden = 0
  BY <1>1 DEF PagesInv, Formed, StagesOf, Figuring
<1>3. /\ n \in Nat /\ s \in [1 .. n -> HalfThen]
      /\ \A i \in 1 .. n : Rank(s[i], HalfThen, answer.live) = i
      /\ \A p \in HalfThen : /\ Rank(p, HalfThen, answer.live) \in 1 .. n
                            /\ s[Rank(p, HalfThen, answer.live)] = p
  BY <1>2, TheHalfIs, HalvesAreOrdered, ListInOrder DEF PagesInv
<1> HIDE DEF s, n
<1>4. Len(s) = n
  BY <1>3, LengthIs
<1>5. first \in Nat
  <2>1. answer.page - 1 \in Nat /\ PageSize \in Nat
    BY <1>2, PagesAssumption
  <2> QED BY <2>1
<1> HIDE DEF first
<1>6. /\ last \in Nat /\ last <= n /\ last - first <= PageSize
      /\ \A i \in 1 .. PageSize : first + i <= n => i <= last - first
  BY <1>3, <1>4, <1>5, PagesAssumption
<1> HIDE DEF last
<1>7. /\ \A i : i \in DOMAIN shown <=> i \in 1 .. (last - first)
      /\ \A i \in 1 .. (last - first) : shown[i] = s[first + i]
  BY <1>3, <1>5, <1>6, PageWindow
<1> HIDE DEF shown
<1>8. ASSUME NEW i \in DOMAIN shown
      PROVE  /\ shown[i] \in HalfThen /\ i \in 1 .. PageSize
             /\ Rank(shown[i], HalfThen, answer.live) = first + i
  <2>1. i \in 1 .. (last - first) /\ i \in Nat /\ first + i \in 1 .. n /\ i \in 1 .. PageSize
    BY <1>3, <1>5, <1>6, <1>7, PagesAssumption
  <2> QED BY <1>3, <1>7, <2>1
<1>9. ASSUME NEW p \in HalfThen, Rank(p, HalfThen, answer.live) - first \in 1 .. PageSize
      PROVE  \E i \in DOMAIN shown : shown[i] = p
  <2> DEFINE i == Rank(p, HalfThen, answer.live) - first
  <2>1. i \in 1 .. PageSize /\ first + i = Rank(p, HalfThen, answer.live) /\ first + i <= n
    BY <1>3, <1>5, <1>9
  <2> HIDE DEF i
  <2>2. i \in 1 .. (last - first)
    BY <2>1, <1>5, <1>6, PagesAssumption
  <2>3. s[first + i] = p
    BY <1>3, <2>1
  <2> QED BY <1>7, <2>2, <2>3
<1>10. /\ IsAnswer(answer)' /\ answer'.at = next /\ answer'.rows = Rows(shown)
       /\ LeavesAlone(answer, answer', {"at", "rows"})
  BY Zenon, <1>1 DEF PagesInv, Formed, IsAnswer, AnswerFields, LeavesAlone
<1>11. /\ answer'.op = answer.op /\ answer'.user = answer.user /\ answer'.live = answer.live
       /\ answer'.page = answer.page /\ answer'.flags = answer.flags
       /\ answer'.total = answer.total /\ answer'.pages = answer.pages
       /\ answer'.hidden = answer.hidden /\ answer'.refusal = answer.refusal
       /\ answer'.scenes = answer.scenes /\ answer'.out = answer.out
  BY <1>10 DEF LeavesAlone, AnswerFields
<1>12. Formed(answer)'
  BY <1>2, <1>10, <1>11 DEF Formed, StagesOf, Figuring
<1>13. SawRows(answer)'
  BY <1>1, <1>8, <1>10, <1>11, ListingSees DEF PagesInv, Moments
<1>14. SawOut(answer)'
  <2>1. DOMAIN answer'.out = {}
    BY <1>2, <1>11
  <2>2. next = "done" => DOMAIN answer'.rows = {}
    BY <1>10, ListedRowsAre
  <2> QED BY <1>10, <2>1, <2>2 DEF SawOut
<1>15. Saw(answer)'
  BY <1>2, <1>10, <1>11, <1>13, <1>14 DEF Saw, SawTally, SawVoters, SawExcluded, SawSelected,
       SawEntitled, Figuring
<1>16. Still => Exact'
  <2> SUFFICES ASSUME Still PROVE Exact'
    OBVIOUS
  <2>1. /\ HalfThen = TheHalf /\ TheHalf' = TheHalf
        /\ \A p, ids, live : Rank(p, ids, live)' = Rank(p, ids, live)
    BY <1>1, <1>11, StepSees DEF PagesInv, Exact, ExactTime, TheHalf, HalfThen
  <2>2. ExactCount /\ answer.at # "count"
    BY <1>1 DEF PagesInv, Exact
  <2>3. ExactCount'
    BY <1>10, <1>11, <2>1, <2>2 DEF ExactCount
  <2>4. ExactPage'
    <3>1. \A i \in DOMAIN answer'.rows :
            /\ answer'.rows[i].id \in HalfThen /\ i \in 1 .. PageSize
            /\ Rank(answer'.rows[i].id, HalfThen, answer.live) = first + i
      BY <1>8, <1>10, ListedRowsAre
    <3>2. ASSUME NEW p \in HalfThen, Rank(p, HalfThen, answer.live) - first \in 1 .. PageSize
          PROVE  p \in Ids(answer'.rows)
      BY <1>9, <1>10, <3>2, ListedRowsAre DEF Ids
    <3>3. first = (answer'.page - 1) * PageSize
      BY <1>11 DEF first
    <3> QED BY <1>11, <2>1, <3>1, <3>2, <3>3 DEF ExactPage, Ids
  <2> QED BY <1>2, <1>10, <1>11, <2>3, <2>4 DEF Exact, ExactTime, ExactList, ExactAccess, ExactLive
<1> QED BY <1>1, <1>10, <1>11, <1>12, <1>15, <1>16, StepKeeps

(* An account's list, of the polls that are for it.                        *)
LEMMA MineIs ==
  ASSUME PagesInv, answer.live \in BOOLEAN
  PROVE  LET n == Cardinality(TheMine)
             k == IF answer.live \/ n <= PastLimit THEN n ELSE PastLimit
             shown == Mine(answer.user, answer.flags, answer.live)
         IN /\ n \in Nat /\ k \in Nat /\ (k = 0 <=> n = 0) /\ (n = 0 <=> TheMine = {})
            /\ \A i : i \in DOMAIN shown <=> i \in 1 .. k
            /\ \A i \in 1 .. k : /\ shown[i] \in TheMine
                                 /\ Rank(shown[i], TheMine, answer.live) = i
            /\ \A p \in TheMine :
                 answer.live \/ Rank(p, TheMine, answer.live) <= PastLimit =>
                   \E i \in 1 .. k : shown[i] = p
            /\ k = 0 <=> shown = << >>
<1> DEFINE s == InOrder(TheMine, answer.live)
           n == Cardinality(TheMine)
           k == IF answer.live \/ n <= PastLimit THEN n ELSE PastLimit
           shown == Mine(answer.user, answer.flags, answer.live)
<1>1. TheMine = {p \in Half(answer.live, clock) :
                   /\ answer.user \notin polls[p].excluded
                   /\ polls[p].audience \cap AudiencesFor(answer.flags) # {}}
  BY DEF TheMine, TheHalf, Entitled, InAudience, AudiencesFor
<1>2. shown = IF answer.live \/ Len(s) <= PastLimit THEN s ELSE SubSeq(s, 1, PastLimit)
  BY <1>1 DEF Mine
<1>3. IsFiniteSet(TheMine) /\ Orders(TheMine, answer.live) /\ PastLimit \in Nat \ {0}
  BY TheHalfIs, HalvesAreOrdered, PagesAssumption DEF TheMine, PagesInv
<1>4. n = 0 <=> TheMine = {}
  BY <1>3, FS_EmptySet
<1>5. /\ n \in Nat /\ s \in [1 .. n -> TheMine]
      /\ \A i \in 1 .. n : Rank(s[i], TheMine, answer.live) = i
      /\ \A p \in TheMine : /\ Rank(p, TheMine, answer.live) \in 1 .. n
                            /\ s[Rank(p, TheMine, answer.live)] = p
  BY <1>3, ListInOrder
<1> HIDE DEF s, n, shown
<1>6. Len(s) = n
  BY <1>5, LengthIs
<1>7. k \in Nat /\ k <= n /\ (k = 0 <=> n = 0) /\ (~answer.live => k <= PastLimit)
      /\ (k = n \/ (~answer.live /\ k = PastLimit))
  BY <1>3, <1>5
<1>8. /\ \A i : i \in DOMAIN shown <=> i \in 1 .. k
      /\ \A i \in 1 .. k : shown[i] = s[i]
  <2>1. CASE answer.live \/ n <= PastLimit
    <3>1. k = n /\ shown = s
      BY <1>2, <1>6, <2>1
    <3> HIDE DEF k
    <3> QED BY <1>5, <3>1
  <2>2. CASE ~(answer.live \/ n <= PastLimit)
    <3>1. k = PastLimit /\ shown = SubSeq(s, 0 + 1, PastLimit)
      <4>1. k = PastLimit
        BY <2>2
      <4>2. ~(answer.live \/ Len(s) <= PastLimit)
        BY <1>6, <2>2
      <4>3. shown = SubSeq(s, 1, PastLimit)
        BY <1>2, <4>2, Zenon
      <4>4. 0 + 1 = 1
        OBVIOUS
      <4> HIDE DEF k
      <4> QED BY <4>1, <4>3, <4>4, Zenon
    <3>2. /\ \A i : i \in DOMAIN shown <=> i \in 1 .. (PastLimit - 0)
          /\ \A i \in 1 .. (PastLimit - 0) : shown[i] = s[0 + i]
      BY <1>3, <1>5, <3>1, PageWindow
    <3> HIDE DEF k
    <3> QED BY <1>3, <3>1, <3>2
  <2> QED BY <2>1, <2>2
<1>9. \A i \in 1 .. k : shown[i] \in TheMine /\ Rank(shown[i], TheMine, answer.live) = i
  BY <1>5, <1>7, <1>8
<1>10. ASSUME NEW p \in TheMine, answer.live \/ Rank(p, TheMine, answer.live) <= PastLimit
       PROVE  \E i \in 1 .. k : shown[i] = p
  <2> DEFINE i == Rank(p, TheMine, answer.live)
  <2>1. i \in 1 .. n /\ s[i] = p
    BY <1>5
  <2>2. i \in 1 .. k
    BY <1>3, <1>5, <1>10, <2>1
  <2> HIDE DEF i
  <2> QED BY <1>8, <2>1, <2>2
<1> HIDE DEF k
<1>11. k = 0 <=> shown = << >>
  <2>1. shown = << >> => k = 0
    <3>1. ASSUME k # 0 PROVE 1 \in DOMAIN shown
      BY <1>7, <1>8, <3>1
    <3> QED BY <3>1
  <2>2. ASSUME k = 0 PROVE shown = << >>
    <3>1. DOMAIN shown = {}
      BY <1>8, <2>2
    <3>2. shown \in [1 .. k -> TheMine]
      <4>1. CASE answer.live \/ n <= PastLimit
        <5>1. k = n /\ shown = s
          BY <1>2, <1>6, <4>1 DEF k
        <5> QED BY <1>5, <5>1
      <4>2. CASE ~(answer.live \/ n <= PastLimit)
        BY <1>3, <2>2, <4>2 DEF k
      <4> QED BY <4>1, <4>2
    <3> QED BY <3>2, <2>2
  <2> QED BY <2>1, <2>2
<1> QED BY <1>4, <1>5, <1>7, <1>8, <1>9, <1>10, <1>11 DEF k, n, shown

(* The read of a whole list keeps it.                                      *)
LEMMA ListKeeps ==
  ASSUME PagesInv, List
  PROVE  PagesInv'
<1> DEFINE shown == Mine(answer.user, answer.flags, answer.live)
           next == IF shown = << >> THEN "hidden" ELSE "tally"
           n == Cardinality(TheMine)
           k == IF answer.live \/ n <= PastLimit THEN n ELSE PastLimit
<1>1. /\ answer' = [answer EXCEPT !.at = next, !.rows = Rows(shown)]
      /\ UNCHANGED pollTables /\ answer.at = "list"
  BY DEF List, Step
<1>2. /\ answer.op = "mine" /\ answer.live \in BOOLEAN
      /\ answer.out = << >> /\ answer.refusal = "none" /\ answer.hidden = 0
  BY <1>1 DEF PagesInv, Formed, StagesOf, Figuring
<1>3. /\ n \in Nat /\ k \in Nat /\ (k = 0 <=> n = 0) /\ (n = 0 <=> TheMine = {})
      /\ \A i : i \in DOMAIN shown <=> i \in 1 .. k
      /\ \A i \in 1 .. k : shown[i] \in TheMine /\ Rank(shown[i], TheMine, answer.live) = i
      /\ \A p \in TheMine :
           answer.live \/ Rank(p, TheMine, answer.live) <= PastLimit =>
             \E i \in 1 .. k : shown[i] = p
      /\ k = 0 <=> shown = << >>
  BY <1>2, MineIs
<1>4. answer.live \/ k <= PastLimit
  BY <1>3, PagesAssumption
<1> HIDE DEF shown, n, k
<1>5. ASSUME NEW i \in DOMAIN shown
      PROVE  /\ shown[i] \in TheMine /\ i \in Nat /\ (answer.live \/ i <= PastLimit)
             /\ Rank(shown[i], TheMine, answer.live) = i
  BY <1>3, <1>4, PagesAssumption
<1>6. /\ IsAnswer(answer)' /\ answer'.at = next /\ answer'.rows = Rows(shown)
      /\ LeavesAlone(answer, answer', {"at", "rows"})
  BY Zenon, <1>1 DEF PagesInv, Formed, IsAnswer, AnswerFields, LeavesAlone
<1>7. /\ answer'.op = answer.op /\ answer'.user = answer.user /\ answer'.live = answer.live
      /\ answer'.page = answer.page /\ answer'.flags = answer.flags
      /\ answer'.hidden = answer.hidden /\ answer'.refusal = answer.refusal
      /\ answer'.scenes = answer.scenes /\ answer'.out = answer.out
  BY <1>6 DEF LeavesAlone, AnswerFields
<1>8. next = "hidden" => answer'.rows = << >>
  BY <1>6, ListedRowsAre
<1>9. Formed(answer)'
  <2>1. answer'.user \in User /\ answer'.page \in Nat \ {0}
    BY <1>1, <1>2, <1>7 DEF PagesInv, Formed
  <2> QED BY <1>2, <1>6, <1>7, <1>8, <2>1 DEF Formed, StagesOf, Figuring
<1>10. Scene \in answer.scenes
  BY <1>1 DEF PagesInv, Moments
<1>11. SawRows(answer)'
  <2>1. \A i \in DOMAIN shown : shown[i] \in TheHalf
    BY <1>5 DEF TheMine
  <2> QED BY <1>6, <1>7, <1>10, <2>1, ListingSees
<1>12. \A i \in DOMAIN answer'.rows : \E s \in answer'.scenes :
         Entitled(s.polls[answer'.rows[i].id], answer'.user, answer'.flags)
  <2> SUFFICES ASSUME NEW i \in DOMAIN answer'.rows
               PROVE  \E s \in answer'.scenes :
                        Entitled(s.polls[answer'.rows[i].id], answer'.user, answer'.flags)
    OBVIOUS
  <2>1. i \in DOMAIN shown /\ answer'.rows[i].id = shown[i]
    BY <1>6, ListedRowsAre
  <2>2. Entitled(polls[shown[i]], answer.user, answer.flags)
    BY <1>5, <2>1 DEF TheMine
  <2>3. Scene.polls = polls
    BY DEF Scene
  <2> QED BY <1>7, <1>10, <2>1, <2>2, <2>3
<1>13. SawEntitled(answer)'
  BY <1>6, <1>12 DEF SawEntitled
<1>14. Saw(answer)'
  BY <1>2, <1>6, <1>7, <1>11, <1>13 DEF Saw, SawTally, SawVoters, SawExcluded, SawSelected,
       SawOut, IsTrue, Figuring
<1>15. Still => Exact'
  <2> SUFFICES ASSUME Still PROVE Exact'
    OBVIOUS
  <2>1. /\ TheHalf' = TheHalf /\ TheMine' = TheMine
        /\ \A p, ids, live : Rank(p, ids, live)' = Rank(p, ids, live)
    BY <1>1, <1>7, StepSees
  <2>2. \A i \in DOMAIN answer'.rows :
          /\ answer'.rows[i].id \in TheMine /\ i \in Nat /\ (answer.live \/ i <= PastLimit)
          /\ Rank(answer'.rows[i].id, TheMine, answer.live) = i
    BY <1>5, <1>6, ListedRowsAre
  <2>3. ASSUME NEW p \in TheMine, answer.live \/ Rank(p, TheMine, answer.live) <= PastLimit
        PROVE  p \in Ids(answer'.rows)
    <3>1. PICK i \in DOMAIN shown : shown[i] = p
      BY <1>3, <2>3
    <3> QED BY <1>6, <3>1, ListedRowsAre DEF Ids
  <2>4. next = "hidden" <=> TheMine = {}
    BY <1>3
  <2>5. ExactList'
    BY <1>6, <1>7, <2>1, <2>2, <2>3, <2>4 DEF ExactList, Figuring, Ids
  <2> QED BY <1>2, <1>6, <1>7, <2>5 DEF Exact, ExactTime, ExactCount, ExactPage, ExactAccess, ExactLive
<1> QED BY <1>1, <1>6, <1>7, <1>9, <1>14, <1>15, StepKeeps

-----------------------------------------------------------------------------
(* One poll, and whether it is for the account.                            *)
LEMMA LoadKeeps ==
  ASSUME PagesInv, Load
  PROVE  PagesInv'
<1>1. /\ answer.at = "load" /\ UNCHANGED pollTables /\ answer.op \in {"get", "access"}
      /\ answer.out = << >> /\ answer.rows = << >> /\ answer.refusal = "none"
      /\ answer.poll \in Poll
  BY DEF Load, Step, Refuse, PagesInv, Formed, StagesOf, Figuring
<1>2. CASE ~polls[answer.poll].open
  <2>1. answer' = [answer EXCEPT !.at = "done", !.refusal = "missing"]
    BY <1>2 DEF Load, Refuse, Step
  <2>2. /\ IsAnswer(answer)' /\ answer'.at = "done" /\ answer'.refusal = "missing"
        /\ LeavesAlone(answer, answer', {"at", "refusal"})
    BY Zenon, <2>1 DEF PagesInv, Formed, IsAnswer, AnswerFields, LeavesAlone
  <2>3. /\ answer'.op = answer.op /\ answer'.user = answer.user /\ answer'.poll = answer.poll
        /\ answer'.live = answer.live /\ answer'.page = answer.page
        /\ answer'.flags = answer.flags /\ answer'.rows = answer.rows
        /\ answer'.hidden = answer.hidden /\ answer'.scenes = answer.scenes
        /\ answer'.out = answer.out
    BY <2>2 DEF LeavesAlone, AnswerFields
  <2>4. Formed(answer)'
    BY <1>1, <2>2, <2>3 DEF PagesInv, Formed, StagesOf, Figuring
  <2>5. Saw(answer)'
    BY <1>1, <2>2, <2>3 DEF Saw, SawRows, SawTally, SawVoters, SawExcluded,
         SawSelected, SawEntitled, SawOut, IsTrue, Figuring
  <2>6. Exact'
    BY <1>1, <2>2, <2>3 DEF Exact, ExactTime, ExactCount, ExactPage, ExactList, ExactAccess, ExactLive
  <2> QED BY <1>1, <2>2, <2>3, <2>4, <2>5, <2>6, StepKeeps
<1>3. CASE polls[answer.poll].open
  <2> DEFINE shown == <<answer.poll>>
             open == Live(polls[answer.poll], clock)
  <2>1. answer' = [answer EXCEPT !.at = "exclusion", !.rows = <<RowOf(answer.poll)>>,
                                 !.open = open]
    BY <1>3 DEF Load, Step
  <2> HIDE DEF open
  <2>2. /\ IsAnswer(answer)' /\ answer'.at = "exclusion" /\ answer'.rows = <<RowOf(answer.poll)>>
        /\ answer'.open = open /\ LeavesAlone(answer, answer', {"at", "rows", "open"})
    BY Zenon, <2>1 DEF PagesInv, Formed, IsAnswer, AnswerFields, LeavesAlone
  <2>3. /\ answer'.op = answer.op /\ answer'.user = answer.user /\ answer'.poll = answer.poll
        /\ answer'.live = answer.live /\ answer'.page = answer.page
        /\ answer'.flags = answer.flags /\ answer'.refusal = answer.refusal
        /\ answer'.hidden = answer.hidden /\ answer'.scenes = answer.scenes
        /\ answer'.out = answer.out
    BY <2>2 DEF LeavesAlone, AnswerFields
  <2>4. Formed(answer)'
    BY <1>1, <2>2, <2>3 DEF PagesInv, Formed, StagesOf, Figuring
  <2>5. \A i \in DOMAIN answer'.rows : /\ answer'.rows[i].id = answer.poll
                                       /\ answer'.rows[i].row = polls[answer.poll]
    BY <2>2 DEF RowOf
  <2>6. Scene \in answer.scenes /\ Scene.polls = polls
    BY <1>1 DEF PagesInv, Moments, Scene
  <2>7. SawRows(answer)'
    BY <1>1, <1>3, <2>3, <2>5, <2>6 DEF SawRows
  <2>8. Saw(answer)'
    BY <1>1, <2>2, <2>3, <2>5, <2>7 DEF Saw, SawTally, SawVoters, SawExcluded,
         SawSelected, SawEntitled, SawOut, IsTrue, Figuring
  <2>9. Exact'
    <3>1. ExactAccess'
      BY <1>1, <2>2, <2>3 DEF ExactAccess, open, Live, pollTables
    <3> QED BY <1>1, <2>2, <2>3, <3>1 DEF Exact, ExactTime, ExactCount, ExactPage, ExactList, ExactLive
  <2> QED BY <1>1, <2>2, <2>3, <2>4, <2>8, <2>9, StepKeeps
<1> QED BY <1>2, <1>3

(* The account is told why not (get_poll).                                 *)
LEMMA RefusalKeeps ==
  ASSUME PagesInv, answer.at \in {"exclusion", "audience"}, answer.op = "get",
         NEW why, Refuse(why)
  PROVE  PagesInv'
<1>1. answer' = [answer EXCEPT !.at = "done", !.refusal = why] /\ UNCHANGED pollTables
  BY DEF Refuse, Step
<1>2. /\ IsAnswer(answer)' /\ answer'.at = "done" /\ answer'.refusal = why
      /\ LeavesAlone(answer, answer', {"at", "refusal"})
  BY Zenon, <1>1 DEF PagesInv, Formed, IsAnswer, AnswerFields, LeavesAlone
<1>3. /\ answer'.op = answer.op /\ answer'.user = answer.user /\ answer'.poll = answer.poll
      /\ answer'.live = answer.live /\ answer'.page = answer.page
      /\ answer'.flags = answer.flags /\ answer'.rows = answer.rows
      /\ answer'.hidden = answer.hidden /\ answer'.scenes = answer.scenes
      /\ answer'.out = answer.out
  BY <1>2 DEF LeavesAlone, AnswerFields
<1>4. answer.out = << >>
  BY DEF PagesInv, Formed
<1>5. Formed(answer)'
  BY <1>2, <1>3, <1>4 DEF PagesInv, Formed, StagesOf, Figuring
<1>6. Saw(answer)'
  BY <1>2, <1>3, <1>4 DEF PagesInv, Saw, SawRows, SawTally, SawVoters, SawExcluded,
       SawSelected, SawEntitled, SawOut, IsTrue, Figuring
<1>7. Exact'
  BY <1>2, <1>3, <1>4 DEF Exact, ExactTime, ExactCount, ExactPage, ExactList, ExactAccess, ExactLive
<1> QED BY <1>1, <1>2, <1>3, <1>5, <1>6, <1>7, StepKeeps

(* The account is told whether it may vote (poll_access).                  *)
LEMMA VerdictKeeps ==
  ASSUME PagesInv, answer.at \in {"exclusion", "audience"}, answer.op = "access",
         NEW why, Judged(why), why \notin {"unknown", "missing"},
         Still => (why = "none" <=> Entitled(polls[answer.poll], answer.user, answer.flags))
  PROVE  PagesInv'
<1> DEFINE told == IF why = "none" /\ ~answer.open THEN "closed" ELSE why
<1>1. answer' = [answer EXCEPT !.at = "selected", !.refusal = told] /\ UNCHANGED pollTables
  BY DEF Judged, Step
<1>2. /\ told \notin {"unknown", "missing"}
      /\ told = "none" <=> why = "none" /\ answer.open
  OBVIOUS
<1> HIDE DEF told
<1>3. /\ IsAnswer(answer)' /\ answer'.at = "selected" /\ answer'.refusal = told
      /\ LeavesAlone(answer, answer', {"at", "refusal"})
  BY Zenon, <1>1 DEF PagesInv, Formed, IsAnswer, AnswerFields, LeavesAlone
<1>4. /\ answer'.op = answer.op /\ answer'.user = answer.user /\ answer'.poll = answer.poll
      /\ answer'.live = answer.live /\ answer'.page = answer.page
      /\ answer'.flags = answer.flags /\ answer'.rows = answer.rows
      /\ answer'.hidden = answer.hidden /\ answer'.scenes = answer.scenes
      /\ answer'.out = answer.out
  BY <1>3 DEF LeavesAlone, AnswerFields
<1>5. answer.out = << >>
  BY DEF PagesInv, Formed
<1>6. Formed(answer)'
  BY <1>3, <1>4, <1>5 DEF PagesInv, Formed, StagesOf, Figuring
<1>7. Saw(answer)'
  BY <1>3, <1>4, <1>5 DEF PagesInv, Saw, SawRows, SawTally, SawVoters, SawExcluded,
       SawSelected, SawEntitled, SawOut, IsTrue, Figuring
<1>8. Still => Exact'
  <2> SUFFICES ASSUME Still PROVE Exact'
    OBVIOUS
  <2>1. answer.open = Live(polls[answer.poll], clock)
    BY DEF PagesInv, Exact, ExactAccess
  <2>2. polls' = polls /\ clock' = clock
    BY <1>1 DEF pollTables
  <2>3. ExactAccess'
    BY <1>2, <1>3, <1>4, <2>1, <2>2 DEF ExactAccess
  <2> QED BY <1>3, <1>4, <1>5, <2>3 DEF Exact, ExactTime, ExactCount, ExactPage, ExactList, ExactLive
<1> QED BY <1>1, <1>3, <1>4, <1>6, <1>7, <1>8, StepKeeps

(* The read that removes the excluded polls keeps it.                      *)
LEMMA ExclusionKeeps ==
  ASSUME PagesInv, Exclusion
  PROVE  PagesInv'
<1>1. answer.at = "exclusion" /\ answer.op \in {"get", "access"} /\ answer.poll \in Poll
  BY DEF Exclusion, PagesInv, Formed, StagesOf, Figuring
<1>2. CASE answer.user \in polls[answer.poll].excluded
  <2>1. Judged("excluded")
    BY <1>2 DEF Exclusion
  <2>2. CASE answer.op = "get"
    BY <1>1, <2>1, <2>2, RefusalKeeps DEF Judged
  <2>3. CASE answer.op = "access"
    <3>1. ~Entitled(polls[answer.poll], answer.user, answer.flags)
      BY <1>2 DEF Entitled
    <3> QED BY <1>1, <2>1, <2>3, <3>1, VerdictKeeps
  <2> QED BY <1>1, <2>2, <2>3
<1>3. CASE answer.user \notin polls[answer.poll].excluded
  <2>1. answer' = [answer EXCEPT !.at = "audience"] /\ UNCHANGED pollTables
    BY <1>3 DEF Exclusion, Step
  <2>2. IsAnswer(answer)' /\ answer'.at = "audience" /\ LeavesAlone(answer, answer', {"at"})
    BY <2>1 DEF PagesInv, Formed, IsAnswer, AnswerFields, LeavesAlone
  <2>3. /\ answer'.op = answer.op /\ answer'.user = answer.user /\ answer'.poll = answer.poll
        /\ answer'.live = answer.live /\ answer'.page = answer.page
        /\ answer'.flags = answer.flags /\ answer'.rows = answer.rows
        /\ answer'.hidden = answer.hidden /\ answer'.scenes = answer.scenes
        /\ answer'.out = answer.out /\ answer'.refusal = answer.refusal
        /\ answer'.open = answer.open
    BY <2>2 DEF LeavesAlone, AnswerFields
  <2>4. answer.out = << >>
    BY <1>1 DEF PagesInv, Formed
  <2>5. Formed(answer)'
    BY <1>1, <2>2, <2>3, <2>4 DEF PagesInv, Formed, StagesOf, Figuring
  <2>6. Scene \in answer.scenes /\ Scene.polls = polls
    BY <1>1 DEF PagesInv, Moments, Scene
  <2>7. SawEntitled(answer)'
    BY <1>1, <1>3, <2>2, <2>3, <2>6 DEF PagesInv, Saw, SawEntitled, Figuring
  <2>8. Saw(answer)'
    BY <2>2, <2>3, <2>4, <2>7 DEF PagesInv, Saw, SawRows, SawTally, SawVoters, SawExcluded,
         SawSelected, SawOut, IsTrue, Figuring
  <2>9. Still => Exact'
    <3> SUFFICES ASSUME Still PROVE Exact'
      OBVIOUS
    <3>1. answer.op = "access" => answer.open = Live(polls[answer.poll], clock)
      BY <1>1 DEF PagesInv, Exact, ExactAccess
    <3>2. polls' = polls /\ clock' = clock
      BY <2>1 DEF pollTables
    <3>3. ExactAccess'
      BY <1>3, <2>2, <2>3, <3>1, <3>2 DEF ExactAccess
    <3> QED BY <1>1, <2>2, <2>3, <2>4, <3>3
            DEF Exact, ExactTime, ExactCount, ExactPage, ExactList, ExactLive
  <2> QED BY <1>1, <2>1, <2>2, <2>3, <2>5, <2>8, <2>9, StepKeeps
<1> QED BY <1>2, <1>3

(* The read of the audiences keeps it.                                     *)
LEMMA AudiencesKeeps ==
  ASSUME PagesInv, Audiences
  PROVE  PagesInv'
<1> DEFINE why == IF InAudience(polls[answer.poll].audience, answer.flags) THEN "none"
                  ELSE "not_eligible"
<1>1. answer.at = "audience" /\ answer.op \in {"get", "access"} /\ answer.poll \in Poll
  BY DEF Audiences, PagesInv, Formed, StagesOf, Figuring
<1>2. Judged(why)
  BY DEF Audiences
<1>3. /\ why \notin {"unknown", "missing"}
      /\ why = "none" <=> InAudience(polls[answer.poll].audience, answer.flags)
  OBVIOUS
<1> HIDE DEF why
<1>4. CASE answer.op = "access"
  <2>1. Still => answer.user \notin polls[answer.poll].excluded
    BY <1>1, <1>4 DEF PagesInv, Exact, ExactAccess
  <2>2. Still => (why = "none" <=> Entitled(polls[answer.poll], answer.user, answer.flags))
    BY <1>3, <2>1 DEF Entitled
  <2> QED BY <1>1, <1>2, <1>3, <1>4, <2>2, VerdictKeeps
<1>5. CASE answer.op = "get" /\ why # "none"
  BY <1>1, <1>2, <1>5, RefusalKeeps DEF Judged
<1>6. CASE answer.op = "get" /\ why = "none"
  <2>1. answer' = [answer EXCEPT !.at = "tally"] /\ UNCHANGED pollTables
    BY <1>2, <1>6 DEF Judged, Step
  <2>2. IsAnswer(answer)' /\ answer'.at = "tally" /\ LeavesAlone(answer, answer', {"at"})
    BY <2>1 DEF PagesInv, Formed, IsAnswer, AnswerFields, LeavesAlone
  <2>3. /\ answer'.op = answer.op /\ answer'.user = answer.user /\ answer'.poll = answer.poll
        /\ answer'.live = answer.live /\ answer'.page = answer.page
        /\ answer'.flags = answer.flags /\ answer'.rows = answer.rows
        /\ answer'.hidden = answer.hidden /\ answer'.scenes = answer.scenes
        /\ answer'.out = answer.out /\ answer'.refusal = answer.refusal
    BY <2>2 DEF LeavesAlone, AnswerFields
  <2>4. answer.out = << >>
    BY <1>1 DEF PagesInv, Formed
  <2>5. Formed(answer)'
    BY <1>1, <1>6, <2>2, <2>3, <2>4 DEF PagesInv, Formed, StagesOf, Figuring
  <2>6. \E s \in answer.scenes : Entitled(s.polls[answer.poll], answer.user, answer.flags)
    <3>1. PICK s \in answer.scenes : answer.user \notin s.polls[answer.poll].excluded
      BY <1>1 DEF PagesInv, Saw, SawEntitled
    <3>2. s.polls[answer.poll].audience = polls[answer.poll].audience
      BY <1>1 DEF PagesInv, Moments, Moment
    <3> QED BY <1>3, <1>6, <3>1, <3>2 DEF Entitled
  <2>7. \A i \in DOMAIN answer.rows : answer.rows[i].id = answer.poll
    BY <1>1 DEF PagesInv, Saw, SawEntitled
  <2>8. SawEntitled(answer)'
    BY <2>2, <2>3, <2>6, <2>7 DEF SawEntitled
  <2>9. Saw(answer)'
    BY <2>2, <2>3, <2>4, <2>8 DEF PagesInv, Saw, SawRows, SawTally, SawVoters, SawExcluded,
         SawSelected, SawOut, IsTrue, Figuring
  <2>10. Exact'
    BY <1>6, <2>2, <2>3, <2>4 DEF Exact, ExactTime, ExactCount, ExactPage, ExactList, ExactAccess, ExactLive
  <2> QED BY <1>1, <2>1, <2>2, <2>3, <2>5, <2>9, <2>10, StepKeeps
<1> QED BY <1>1, <1>4, <1>5, <1>6

(* The invariant holds before any request.                                 *)
LEMMA PagesInvInit == PagesInit => PagesInv
<1> SUFFICES ASSUME PagesInit PROVE PagesInv
  OBVIOUS
<1>1. answer = NoRequest /\ Formed(answer) /\ Saw(answer)
  BY NobodyIsFine DEF PagesInit
<1>2. PollsTyped
  BY PagesAssumption DEF PagesInit, PollsTyped
<1>3. Moments /\ ~Still
  BY <1>1, FS_EmptySet DEF NoRequest, Moments, Still
<1> QED BY <1>1, <1>2, <1>3 DEF PagesInv

(* Every step of the specification keeps it.                               *)
LEMMA PagesInvStep == PagesInv /\ [PagesNext]_pageVars => PagesInv'
<1> SUFFICES ASSUME PagesInv, [PagesNext]_pageVars PROVE PagesInv'
  OBVIOUS
<1>1. CASE World
  BY <1>1, AroundKeeps
<1>2. CASE Reader
  BY <1>2, BeginKeeps, ViewerKeeps, CountKeeps, PageStepKeeps, ListKeeps, CountHiddenKeeps,
     LoadKeeps, ExclusionKeeps, AudiencesKeeps, TallyKeeps, VotersKeeps, ExcludedKeeps,
     SelectedKeeps, BuildKeeps, CloseKeeps DEF Reader
<1>3. CASE UNCHANGED pageVars
  <2>1. /\ answer' = answer /\ clock' = clock /\ polls' = polls /\ ballots' = ballots
        /\ flags' = flags /\ accounts' = accounts
    BY <1>3 DEF pageVars, pollTables
  <2>2. /\ PollsTyped' /\ Scene' = Scene /\ UNCHANGED pollTables
    BY SMTT(30), <2>1 DEF PagesInv, PollsTyped, Scene, pollTables
  <2>3. Moments'
    BY SMTT(30), <2>1, <2>2 DEF PagesInv, Moments, Moment
  <2>4. Formed(answer)' /\ Saw(answer)'
    BY <2>1 DEF PagesInv, Formed, Saw, SawRows, SawTally, SawVoters, SawExcluded, SawSelected,
               SawEntitled, SawOut, IsTrue
  <2>5. /\ TheHalf' = TheHalf /\ TheMine' = TheMine
        /\ \A p, ids, live : Rank(p, ids, live)' = Rank(p, ids, live)
    BY <2>1, <2>2, StepSees
  <2>6. Still' => Exact'
    BY <2>1, <2>2, <2>5 DEF PagesInv, Still, Exact, ExactTime, ExactCount, ExactPage, ExactList, ExactAccess,
       ExactLive, Ids
  <2> QED BY <2>2, <2>3, <2>4, <2>6 DEF PagesInv
<1> QED BY <1>1, <1>2, <1>3 DEF PagesNext

-----------------------------------------------------------------------------
(* From the invariant to what is promised.                                 *)

(* Whatever an answer shows was true at a moment of its request.           *)
LEMMA FiguresFollow ==
  ASSUME PagesInv
  PROVE  AnswersWereTrue
<1> SUFFICES ASSUME Done, NEW i \in DOMAIN answer.out
             PROVE  /\ LET shown == answer.out[i]
                           p     == shown.id
                       IN /\ \A o \in Option : \E s \in answer.scenes :
                               shown.votes[o] = Cardinality({u \in User : o \in s.ballots[p][u]})
                          /\ \E s \in answer.scenes :
                               shown.voters = Cardinality({u \in User : s.ballots[p][u] # {}})
                          /\ \E s \in answer.scenes :
                               shown.excluded = Cardinality(s.polls[p].excluded)
                          /\ answer.op # "pages" =>
                               \E s \in answer.scenes : shown.selected = s.ballots[p][answer.user]
                          /\ shown.live => \E s \in answer.scenes : Live(s.polls[p], s.now)
                    /\ answer.op \in {"mine", "get"} =>
                         \E s \in answer.scenes :
                           Entitled(s.polls[answer.out[i].id], answer.user, answer.flags)
  BY DEF AnswersWereTrue, FiguresWereTrue, OnlyTheirPolls
<1>1. IsTrue(answer, answer.out[i])
  BY DEF PagesInv, Saw, SawOut
<1> QED BY Zenon, <1>1 DEF IsTrue, VotesAt, VotersAt

(* Twice a multiple is a multiple, for the rounding of percents.           *)
LEMMA Twice ==
  ASSUME NEW k \in Nat, NEW n \in Nat
  PROVE  k * n \in Nat /\ k * (2 * n) = 2 * (k * n)
OBVIOUS

(* A share is rounded by half a tenth of a percent at most (Percent).      *)
LEMMA ShareIsNear ==
  ASSUME NEW v \in Nat, NEW n \in Nat, v <= n
  PROVE  Percent(v, n) * n \in 1000 * v - n .. 1000 * v + n
<1>1. CASE v = 0 \/ n = 0
  BY <1>1 DEF Percent
<1>2. CASE v # 0 /\ n # 0
  <2> DEFINE a == 2000 * v + n
             b == 2 * n
             k == a \div b
             m == k * n
  <2>1. a \in Nat /\ b \in Nat \ {0}
    BY <1>2
  <2>2. Percent(v, n) = k
    BY <1>2 DEF Percent
  <2> HIDE DEF a, b
  <2>3. k \in Nat /\ k * b <= a /\ a < k * b + b
    BY <2>1, Division
  <2> HIDE DEF k
  <2>4. m \in Nat /\ k * b = 2 * m
    BY <2>3, Twice DEF b
  <2> HIDE DEF m
  <2>5. 2 * m <= a /\ a < 2 * m + b
    BY <2>3, <2>4
  <2>6. m \in 1000 * v - n .. 1000 * v + n
    BY <2>4, <2>5 DEF a, b
  <2> QED BY <2>2, <2>6 DEF m
<1> QED BY <1>1, <1>2

(* The figures of a poll that stands still.                                *)
LEMMA FiguresExact ==
  ASSUME PagesInv, Still, Done
  PROVE  FiguresAreExact
<1> SUFFICES ASSUME NEW i \in DOMAIN answer.out
             PROVE  LET shown == answer.out[i]
                        by    == ballots[shown.id]
                        most  == {o \in Option : \A other \in Option :
                                    shown.votes[other] <= shown.votes[o]}
                    IN /\ shown.live = Live(polls[shown.id], clock)
                       /\ shown.leading = IF \E u \in User : by[u] # {} THEN most ELSE {}
                       /\ \A o \in Option : shown.percent[o] * shown.voters
                            \in 1000 * shown.votes[o] - shown.voters
                                .. 1000 * shown.votes[o] + shown.voters
  BY Zenon DEF FiguresAreExact
<1> DEFINE shown == answer.out[i]
           by == ballots[shown.id]
           cast(o) == {u \in User : o \in by[u]}
           voted == {u \in User : by[u] # {}}
           most == {o \in Option : \A other \in Option : shown.votes[other] <= shown.votes[o]}
<1>1. IsTrue(answer, shown) /\ answer.scenes = {Scene} /\ Scene.ballots = ballots
  BY DEF PagesInv, Saw, SawOut, Still, Scene
<1>2. shown.live = Live(polls[shown.id], clock)
  BY DEF PagesInv, Exact, ExactLive
<1> HIDE DEF shown
<1>3. /\ shown.id \in Poll /\ DOMAIN shown.votes = Option
      /\ \A o \in Option : shown.percent[o] = Percent(shown.votes[o], shown.voters)
      /\ shown.leading = Leading(shown.votes)
  BY <1>1 DEF IsTrue
<1>4. \A o \in Option : shown.votes[o] = Cardinality(cast(o))
  BY <1>1 DEF IsTrue, VotesAt
<1>5. shown.voters = Cardinality(voted)
  BY <1>1 DEF IsTrue, VotersAt
<1>6. by \in [User -> SUBSET Option]
  BY <1>3 DEF PagesInv, PollsTyped
<1> HIDE DEF by
<1>7. IsFiniteSet(voted) /\ Cardinality(voted) \in Nat
  BY PagesAssumption, FS_Subset, FS_CardinalityType
<1>8. ASSUME NEW o \in Option
      PROVE  /\ IsFiniteSet(cast(o)) /\ Cardinality(cast(o)) \in Nat
             /\ Cardinality(cast(o)) <= Cardinality(voted)
             /\ Cardinality(cast(o)) = 0 <=> cast(o) = {}
  <2>1. cast(o) \in SUBSET voted
    OBVIOUS
  <2> QED BY <1>7, <2>1, FS_Subset, FS_CardinalityType, FS_EmptySet
<1> HIDE DEF voted, cast
<1>9. \A o \in Option : shown.percent[o] * shown.voters
        \in 1000 * shown.votes[o] - shown.voters .. 1000 * shown.votes[o] + shown.voters
  <2> TAKE o \in Option
  <2> DEFINE v == shown.votes[o]
             n == shown.voters
  <2>1. v \in Nat /\ n \in Nat /\ v <= n
    BY <1>4, <1>5, <1>7, <1>8
  <2>2. shown.percent[o] = Percent(v, n)
    BY <1>3
  <2> HIDE DEF v, n
  <2>3. shown.percent[o] * n \in 1000 * v - n .. 1000 * v + n
    BY <2>1, <2>2, ShareIsNear
  <2> QED BY <2>3 DEF v, n
<1>10. shown.leading = {o \in Option : /\ shown.votes[o] > 0
                                       /\ \A other \in Option :
                                            shown.votes[other] <= shown.votes[o]}
  BY <1>3 DEF Leading
<1>11. CASE \E u \in User : by[u] # {}
  <2>1. PICK u \in User, c \in Option : c \in by[u]
    BY <1>6, <1>11
  <2>2. shown.votes[c] > 0
    <3>1. cast(c) # {}
      BY <2>1 DEF cast
    <3> QED BY <1>4, <1>8, <3>1
  <2>3. ASSUME NEW o \in most PROVE shown.votes[o] > 0
    BY <1>4, <1>8, <2>2
  <2> QED BY <1>2, <1>9, <1>10, <1>11, <2>3 DEF shown, by
<1>12. CASE ~\E u \in User : by[u] # {}
  <2>1. ASSUME NEW o \in Option PROVE ~(shown.votes[o] > 0)
    <3>1. cast(o) = {}
      BY <1>12 DEF cast
    <3> QED BY <1>4, <1>8, <3>1
  <2> QED BY <1>2, <1>9, <1>10, <1>12, <2>1 DEF shown, by
<1> QED BY <1>11, <1>12

(* A listing that stands still shows each poll at its place.               *)
LEMMA PlacesAreExact ==
  ASSUME PagesInv, NEW ids, NEW off \in Nat,
         DOMAIN answer.out = DOMAIN answer.rows,
         \A i \in DOMAIN answer.out : answer.out[i].id = answer.rows[i].id,
         \A i \in DOMAIN answer.rows :
           i \in Nat /\ Rank(answer.rows[i].id, ids, answer.live) = off + i,
         NEW p \in Ids(answer.rows)
  PROVE  PlaceOf(p) = Rank(p, ids, answer.live) - off
<1> DEFINE at == PlaceOf(p)
<1>1. \E i \in DOMAIN answer.out : answer.out[i].id = p
  BY DEF Ids
<1>2. at \in DOMAIN answer.out /\ answer.out[at].id = p
  BY <1>1 DEF PlaceOf
<1> HIDE DEF at
<1>3. at \in Nat /\ Rank(p, ids, answer.live) = off + at
  BY <1>2
<1>4. Rank(p, ids, answer.live) - off = at
  BY <1>3
<1> QED BY <1>4 DEF at

(* A page nothing disturbed is the slice its number names.                 *)
LEMMA PagesExact ==
  ASSUME PagesInv, Still, Done, answer.op = "pages"
  PROVE  PageIsExact
<1> DEFINE off == (answer.page - 1) * PageSize
<1>1. /\ ExactCount /\ ExactPage /\ answer.at = "done"
      /\ answer.page \in Nat \ {0} /\ answer.live \in BOOLEAN
  BY DEF PagesInv, Exact, Formed, Done
<1>2. answer.page - 1 \in Nat /\ PageSize \in Nat \ {0}
  BY <1>1, PagesAssumption
<1>3. off \in Nat
  BY <1>2
<1>4. \A p \in TheHalf : Rank(p, TheHalf, answer.live) \in Nat \ {0}
  <2>1. Orders(TheHalf, answer.live) /\ IsFiniteSet(TheHalf)
    BY <1>1, TheHalfIs, HalvesAreOrdered DEF PagesInv
  <2>2. \A p \in TheHalf : Rank(p, TheHalf, answer.live) \in 1 .. Cardinality(TheHalf)
    BY <2>1, PlacesDiffer
  <2>3. Cardinality(TheHalf) \in Nat
    BY <2>1, FS_CardinalityType
  <2> QED BY <2>2, <2>3
<1>5. /\ \A i \in DOMAIN answer.rows :
           /\ answer.rows[i].id \in TheHalf /\ i \in 1 .. PageSize
           /\ Rank(answer.rows[i].id, TheHalf, answer.live) = off + i
      /\ \A p \in TheHalf :
           Rank(p, TheHalf, answer.live) - off \in 1 .. PageSize => p \in Ids(answer.rows)
  BY <1>1 DEF ExactPage
<1>6. /\ DOMAIN answer.out = DOMAIN answer.rows
      /\ \A i \in DOMAIN answer.out : answer.out[i].id = answer.rows[i].id
  BY <1>1 DEF PagesInv, Saw, SawOut
<1> HIDE DEF off
<1>7. ASSUME NEW p \in Ids(answer.rows)
      PROVE  PlaceOf(p) = Rank(p, TheHalf, answer.live) - off
  <2>1. \A i \in DOMAIN answer.rows :
          i \in Nat /\ Rank(answer.rows[i].id, TheHalf, answer.live) = off + i
    BY <1>2, <1>5
  <2> QED BY <1>3, <1>6, <2>1, PlacesAreExact
<1>8. ASSUME NEW p \in TheHalf
      PROVE  p \in Ids(answer.rows) <=>
               (Rank(p, TheHalf, answer.live) - 1) \div PageSize = answer.page - 1
  <2> DEFINE r == Rank(p, TheHalf, answer.live)
             a == r - 1
             k == answer.page - 1
  <2>1. r \in Nat \ {0} /\ a \in Nat /\ k \in Nat /\ r = a + 1
    BY <1>2, <1>4
  <2>2. off = k * PageSize
    BY DEF off
  <2>3. p \in Ids(answer.rows) <=> r - off \in 1 .. PageSize
    <3>1. ASSUME p \in Ids(answer.rows) PROVE r - off \in 1 .. PageSize
      <4>1. PICK i \in DOMAIN answer.rows : answer.rows[i].id = p
        BY <3>1 DEF Ids
      <4>2. i \in 1 .. PageSize /\ r = off + i
        BY <1>5, <4>1
      <4> HIDE DEF r
      <4> QED BY <1>2, <1>3, <4>2
    <3> QED BY <1>5, <3>1
  <2> HIDE DEF r, a, k
  <2>4. r - off \in 1 .. PageSize <=> off <= a /\ a < off + PageSize
    BY <1>2, <1>3, <2>1
  <2>5. a \div PageSize = k <=> off <= a /\ a < off + PageSize
    BY <1>2, <2>1, <2>2, Division, OneQuotient
  <2> QED BY <2>3, <2>4, <2>5 DEF r, a, k
<1>9. /\ answer.total = Cardinality(TheHalf) /\ answer.page <= answer.pages
      /\ answer.pages = IF TheHalf = {} THEN 1
                        ELSE (Cardinality(TheHalf) + PageSize - 1) \div PageSize
  BY <1>1 DEF ExactCount
<1> QED BY <1>7, <1>8, <1>9 DEF off, TheHalf, PageIsExact

(* A list nothing disturbed is whole and in order.                         *)
LEMMA ListsExact ==
  ASSUME PagesInv, Still, Done, answer.op = "mine", answer.refusal = "none"
  PROVE  ListIsExact
<1>1. ExactList /\ answer.at = "done" /\ answer.live \in BOOLEAN
  BY DEF PagesInv, Exact, Formed, Done
<1>2. /\ \A i \in DOMAIN answer.rows :
           /\ answer.rows[i].id \in TheMine /\ i \in Nat /\ (answer.live \/ i <= PastLimit)
           /\ Rank(answer.rows[i].id, TheMine, answer.live) = i
      /\ \A p \in TheMine :
           answer.live \/ Rank(p, TheMine, answer.live) <= PastLimit => p \in Ids(answer.rows)
      /\ answer.hidden = IF TheMine = {} THEN Cardinality(TheHalf) ELSE 0
  BY <1>1 DEF ExactList
<1>3. /\ DOMAIN answer.out = DOMAIN answer.rows
      /\ \A i \in DOMAIN answer.out : answer.out[i].id = answer.rows[i].id
  BY <1>1 DEF PagesInv, Saw, SawOut
<1>4. ASSUME NEW p \in Ids(answer.rows)
      PROVE  PlaceOf(p) = Rank(p, TheMine, answer.live)
  <2>1. \A i \in DOMAIN answer.rows :
          i \in Nat /\ Rank(answer.rows[i].id, TheMine, answer.live) = 0 + i
    BY <1>2
  <2>2. PlaceOf(p) = Rank(p, TheMine, answer.live) - 0
    BY <1>3, <2>1, PlacesAreExact
  <2>3. PICK i \in DOMAIN answer.rows : answer.rows[i].id = p
    BY DEF Ids
  <2>4. Rank(p, TheMine, answer.live) \in Nat
    BY <1>2, <2>3
  <2> QED BY <2>2, <2>4
<1>5. ASSUME NEW p \in Poll
      PROVE  p \in Ids(answer.rows) <=>
               p \in TheMine /\ (answer.live \/ Rank(p, TheMine, answer.live) <= PastLimit)
  <2>1. ASSUME p \in Ids(answer.rows)
        PROVE  p \in TheMine /\ (answer.live \/ Rank(p, TheMine, answer.live) <= PastLimit)
    <3>1. PICK i \in DOMAIN answer.rows : answer.rows[i].id = p
      BY <2>1 DEF Ids
    <3> QED BY <1>2, <3>1
  <2> QED BY <1>2, <2>1
<1>6. ~answer.live => answer.live = FALSE
  BY <1>1
<1>7. ASSUME NEW p \in Poll
      PROVE  p \in Ids(answer.rows) <=>
               p \in TheMine /\ (answer.live \/ Rank(p, TheMine, FALSE) <= PastLimit)
  BY <1>5, <1>6
<1> QED BY <1>2, <1>4, <1>7 DEF TheMine, TheHalf, ListIsExact

(* The invariant implies the property.                                     *)
LEMMA AnswersFollow ==
  ASSUME PagesInv
  PROVE  AnswersAreTrue
<1>1. ASSUME Undisturbed PROVE Still /\ Done
  <2>1. Scene \in answer.scenes /\ IsFiniteSet(answer.scenes) /\ answer.at # "idle"
    BY <1>1 DEF Undisturbed, Done, PagesInv, Moments
  <2>2. PICK s : answer.scenes = {s}
    BY <1>1, <2>1, FS_Singleton DEF Undisturbed
  <2> QED BY <1>1, <2>1, <2>2 DEF Still, Undisturbed
<1>2. ASSUME Still, Done PROVE AccessIsExact
  BY <1>2 DEF PagesInv, Exact, ExactAccess, Done, AccessIsExact
<1>3. ASSUME Still, Done PROVE PageIsExact /\ ListIsExact
  <2>1. answer.op # "pages" => PageIsExact
    BY DEF PageIsExact
  <2>2. ~(answer.op = "mine" /\ answer.refusal = "none") => ListIsExact
    BY DEF ListIsExact
  <2> QED BY <1>3, <2>1, <2>2, PagesExact, ListsExact
<1>4. QuietAnswersAreExact
  BY <1>1, <1>2, <1>3, FiguresExact DEF QuietAnswersAreExact
<1> QED BY <1>4, FiguresFollow DEF AnswersAreTrue

(* An answer about polls is exact when nothing changes meanwhile; and when *)
(* something does, every part of it was true at some moment of the request,*)
(* of polls that were for the account (list_polls_admin, list_my_polls,    *)
(* get_poll, poll_access, poll_response).                                  *)
THEOREM AnswersAreTrueHolds == PagesSpec => []AnswersAreTrue
<1>1. PagesInv => AnswersAreTrue
  BY AnswersFollow
<1> QED BY <1>1, PagesInvInit, PagesInvStep, PTL DEF PagesSpec
=============================================================================
