------------------------------ MODULE Projects ------------------------------
(***************************************************************************)
(* The projects of one user (src/src/src/routes/projects.rs): rows in two   *)
(* tables, and for each project a numbered directory whose metadata.json    *)
(* names it and whose files the rows of project_files point at.  A handler  *)
(* works on the rows and on the directory in turn, without a transaction or *)
(* a lock, and may be dropped between two of its steps; one definition below *)
(* is one handler, one disjunct of it one statement or file operation.      *)
(*                                                                         *)
(* A path is the directory's number and a name that is drawn afresh (time   *)
(* and random number) for every stored file.                                *)
(***************************************************************************)
EXTENDS Integers, FiniteSets, FiniteSetsExt

CONSTANTS Requests,     \* requests of the user that run at a time
          MaxProjects,  \* MAX_PROJECTS_PER_USER
          MaxBytes,     \* MAX_BYTES_PER_USER
          Loads         \* what a user may do: the kinds of requests, the sizes of
                        \* uploads, and bounds on the projects and files made

ASSUME ProjectsAssumption ==
    /\ IsFiniteSet(Requests)
    /\ MaxProjects \in Nat \ {0} /\ MaxBytes \in Nat
    /\ \A l \in Loads : /\ l.sizes \subseteq 1 .. MaxBytes /\ l.sizes # {}
                         /\ l.made \in Nat /\ l.stored \in Nat

VARIABLES load,     \* the load, chosen once
          projects, \* rows of projects: ids
          made,     \* ids drawn so far
          files,    \* rows of project_files: id -> project, size, path
          dirs,     \* number -> the project its metadata.json names, 0 if none
          disk,     \* path -> size of the file there
          stored,   \* names drawn so far (a row's id is its first file's name)
          lost,     \* rows whose file went in one of the ways the code allows
          call      \* the requests

tables == <<projects, made, files>>
storage == <<dirs, disk, stored>>
vars == <<load, tables, storage, lost, call>>

Paths == [dir : 1 .. load.made, name : 1 .. load.stored]
NoPath == [dir |-> 0, name |-> 0]
NoRow == [project |-> 0, size |-> 0, path |-> NoPath]
Idle == [op |-> "idle", step |-> "none", id |-> 0, dir |-> 0, size |-> 0,
         path |-> NoPath, row |-> NoRow]

Without(f, D) == [x \in DOMAIN f \ D |-> f[x]]
With(f, x, v) == [y \in DOMAIN f \cup {x} |-> IF y = x THEN v ELSE f[y]]
FilesOf(i) == {f \in DOMAIN files : files[f].project = i}
Within(d) == {a \in DOMAIN disk : a.dir = d}
DirsOf(i) == {d \in DOMAIN dirs : dirs[d] = i}

\* The sum of the sizes of all files of all projects, as a number of bytes.
Bytes == {x \in (DOMAIN files) \X (1 .. MaxBytes) : x[2] <= files[x[1]].size}
Usage == Cardinality(Bytes)

\* One more than the highest number in use.
NextIndex == IF dirs = << >> THEN 1 ELSE Max(DOMAIN dirs) + 1

\* (Mutant: the limit is compared with the wrong sign of equality.)
MayCreateLast == Cardinality(projects) <= MaxProjects

MayCreate == Cardinality(projects) < MaxProjects

\* (Mutants: the quota forgets what is in use; the size already counted.)
FitsAlone(used, old, size) == size <= MaxBytes

Fits(used, old, size) == used - old + size <= MaxBytes

\* GET /{id}/files/{file_id}: the file, or "File missing on server".
Download(f) == IF files[f].path \in DOMAIN disk THEN disk[files[f].path] ELSE 0

-----------------------------------------------------------------------------
Init ==
    /\ load \in Loads
    /\ projects = {} /\ made = 0 /\ files = << >>
    /\ dirs = << >> /\ disk = << >> /\ stored = 0
    /\ lost = {}
    /\ call = [p \in Requests |-> Idle]

At(p, op, step) == call[p].op = op /\ call[p].step = step
Becomes(p, r) == call' = [call EXCEPT ![p] = r]
Goes(p, step) == Becomes(p, [call[p] EXCEPT !.step = step])
Ends(p) == Becomes(p, Idle)
Starts(p, op, step, id) ==
    /\ call[p] = Idle /\ op \in load.ops
    /\ Becomes(p, [Idle EXCEPT !.op = op, !.step = step, !.id = id])

\* A check refuses, a statement or a file operation fails, or the client goes
\* away: what has been done stays done.
Stops(p) ==
    /\ call[p] # Idle /\ Ends(p)
    /\ lost' = IF At(p, "replace", "row") \/ At(p, "delfile", "row")
                 THEN (lost \cup {call[p].id}) \cap DOMAIN files ELSE lost
    /\ UNCHANGED <<tables, storage>>

\* POST /: count, INSERT, pick a number, make the directory, write metadata.json
\* (which fails when the directory is gone again).
Create(p) ==
    /\ \/ /\ MayCreate
          /\ Starts(p, "create", "insert", 0)
          /\ UNCHANGED <<projects, made, dirs>>
       \/ /\ At(p, "create", "insert") /\ made < load.made
          /\ made' = made + 1
          /\ projects' = projects \cup {made'}
          /\ Becomes(p, [call[p] EXCEPT !.step = "index", !.id = made'])
          /\ UNCHANGED dirs
       \/ /\ At(p, "create", "index")
          /\ Becomes(p, [call[p] EXCEPT !.step = "mkdir", !.dir = NextIndex])
          /\ UNCHANGED <<projects, made, dirs>>
       \/ /\ At(p, "create", "mkdir")
          /\ dirs' = IF call[p].dir \in DOMAIN dirs THEN dirs ELSE With(dirs, call[p].dir, 0)
          /\ Goes(p, "metadata")
          /\ UNCHANGED <<projects, made>>
       \/ /\ At(p, "create", "metadata") /\ call[p].dir \in DOMAIN dirs
          /\ dirs' = [dirs EXCEPT ![call[p].dir] = call[p].id]
          /\ Ends(p)
          /\ UNCHANGED <<projects, made>>
    /\ UNCHANGED <<files, disk, stored, lost>>

\* DELETE FROM projects WHERE id = ?, and ON DELETE CASCADE its files' rows.
DropProject(i) ==
    /\ projects' = projects \ {i}
    /\ files' = Without(files, FilesOf(i))

\* DELETE /{id}: look the project up, find its directory, remove it with all
\* that is in it, delete the files' rows, then the project's.
DeleteProject(p) ==
    /\ \/ /\ \E i \in projects : Starts(p, "delete", "find", i)
          /\ UNCHANGED <<projects, files, dirs, disk, lost>>
       \/ /\ At(p, "delete", "find") /\ DirsOf(call[p].id) = {}
          /\ Goes(p, "files")
          /\ UNCHANGED <<projects, files, dirs, disk, lost>>
       \/ /\ At(p, "delete", "find")
          /\ \E d \in DirsOf(call[p].id) :
              Becomes(p, [call[p] EXCEPT !.step = "rmdir", !.dir = d])
          /\ UNCHANGED <<projects, files, dirs, disk, lost>>
       \/ /\ At(p, "delete", "rmdir")
          /\ dirs' = Without(dirs, {call[p].dir})
          /\ disk' = Without(disk, Within(call[p].dir))
          /\ lost' = lost \cup {f \in DOMAIN files : files[f].path.dir = call[p].dir}
          /\ Goes(p, "files")
          /\ UNCHANGED <<projects, files>>
       \/ /\ At(p, "delete", "files")
          /\ files' = Without(files, FilesOf(call[p].id))
          /\ Goes(p, "project")
          /\ lost' = lost \cap DOMAIN files'
          /\ UNCHANGED <<projects, dirs, disk>>
       \/ /\ At(p, "delete", "project")
          /\ DropProject(call[p].id)
          /\ Ends(p)
          /\ lost' = lost \cap DOMAIN files'
          /\ UNCHANGED <<dirs, disk>>
    /\ UNCHANGED <<made, stored>>

\* (Mutant: the name under which a file is stored is not drawn afresh.)
MoveFileOver(p, d, next) ==
    /\ stored < load.stored
    /\ stored' = stored + 1
    /\ dirs' = IF d \in DOMAIN dirs THEN dirs ELSE With(dirs, d, 0)
    /\ disk' = With(disk, [dir |-> d, name |-> 1], call[p].size)
    /\ Becomes(p, [call[p] EXCEPT !.step = next, !.path = [dir |-> d, name |-> 1]])

\* The upload goes from the temporary directory to a fresh name in directory d,
\* which move_file makes again when it is gone (without metadata.json).
MoveFile(p, d, next) ==
    /\ stored < load.stored
    /\ stored' = stored + 1
    /\ dirs' = IF d \in DOMAIN dirs THEN dirs ELSE With(dirs, d, 0)
    /\ disk' = With(disk, [dir |-> d, name |-> stored'], call[p].size)
    /\ Becomes(p, [call[p] EXCEPT !.step = next, !.path = [dir |-> d, name |-> stored']])

\* POST /{id}/files: look the project up, find its directory, receive the file,
\* check the quota, move the file, INSERT the row (an error without project).
Upload(p) ==
    /\ \/ /\ \E i \in projects : \E d \in DirsOf(i), s \in load.sizes :
              /\ call[p] = Idle /\ "upload" \in load.ops
              /\ Becomes(p, [Idle EXCEPT !.op = "upload", !.step = "quota", !.id = i,
                                         !.dir = d, !.size = s])
          /\ UNCHANGED <<files, storage, lost>>
       \/ /\ At(p, "upload", "quota") /\ Fits(Usage, 0, call[p].size)
          /\ Goes(p, "move")
          /\ UNCHANGED <<files, storage, lost>>
       \/ /\ At(p, "upload", "move")
          /\ MoveFile(p, call[p].dir, "row")
          /\ UNCHANGED <<files, lost>>
       \/ /\ At(p, "upload", "row") /\ call[p].id \in projects
          /\ files' = With(files, call[p].path.name,
                           [project |-> call[p].id, size |-> call[p].size, path |-> call[p].path])
          /\ lost' = IF call[p].path \in DOMAIN disk
                       THEN lost ELSE lost \cup {call[p].path.name}
          /\ Ends(p)
          /\ UNCHANGED storage
    /\ UNCHANGED <<projects, made>>

\* (Mutant: the row keeps the size of the file it had.)
UpdateFilePath(f, size, path) ==
    files' = IF f \in DOMAIN files
               THEN [files EXCEPT ![f].path = path] ELSE files

\* UPDATE project_files ... WHERE id = ?
UpdateFile(f, size, path) ==
    files' = IF f \in DOMAIN files
               THEN [files EXCEPT ![f].size = size, ![f].path = path] ELSE files

\* PATCH /{id}/files/{file_id}: read the row, receive the file, check the quota
\* less the size just read, move the file beside the old one, remove the old
\* one, update the row.
Replace(p) ==
    /\ \/ /\ \E f \in DOMAIN files, s \in load.sizes :
              /\ call[p] = Idle /\ "replace" \in load.ops
              /\ Becomes(p, [Idle EXCEPT !.op = "replace", !.step = "quota", !.id = f,
                                         !.size = s, !.row = files[f]])
          /\ UNCHANGED <<files, storage>>
       \/ /\ At(p, "replace", "quota") /\ Fits(Usage, call[p].row.size, call[p].size)
          /\ Goes(p, "store")
          /\ UNCHANGED <<files, storage>>
       \/ /\ At(p, "replace", "store")
          /\ MoveFile(p, call[p].row.path.dir, "unlink")
          /\ UNCHANGED files
       \/ /\ At(p, "replace", "unlink")
          /\ disk' = Without(disk, {call[p].row.path})
          /\ Goes(p, "row")
          /\ UNCHANGED <<files, dirs, stored>>
       \/ /\ At(p, "replace", "row")
          /\ UpdateFile(call[p].id, call[p].size, call[p].path)
          /\ Ends(p)
          /\ UNCHANGED storage
    /\ UNCHANGED <<projects, made, lost>>

\* DELETE /{id}/files/{file_id}: read the row, remove the file, delete the row.
DeleteFile(p) ==
    /\ \/ /\ \E f \in DOMAIN files :
              /\ call[p] = Idle /\ "delfile" \in load.ops
              /\ Becomes(p, [Idle EXCEPT !.op = "delfile", !.step = "unlink", !.id = f,
                                         !.row = files[f]])
          /\ UNCHANGED <<files, disk, lost>>
       \/ /\ At(p, "delfile", "unlink")
          /\ disk' = Without(disk, {call[p].row.path})
          /\ Goes(p, "row")
          /\ UNCHANGED <<files, lost>>
       \/ /\ At(p, "delfile", "row")
          /\ files' = Without(files, {call[p].id})
          /\ lost' = lost \ {call[p].id}
          /\ Ends(p)
          /\ UNCHANGED disk
    /\ UNCHANGED <<projects, made, dirs, stored>>

Next == \E p \in Requests :
    /\ \/ Create(p) \/ DeleteProject(p) \/ Upload(p) \/ Replace(p)
       \/ DeleteFile(p) \/ Stops(p)
    /\ UNCHANGED load

Spec == Init /\ [][Next]_vars

-----------------------------------------------------------------------------
TypeOK ==
    /\ made \in 0 .. load.made /\ projects \subseteq 1 .. made
    /\ stored \in 0 .. load.stored
    /\ DOMAIN files \subseteq 1 .. stored
    /\ \A f \in DOMAIN files :
        files[f].project \in projects /\ files[f].size \in load.sizes /\ files[f].path \in Paths
    /\ lost \subseteq DOMAIN files
    /\ DOMAIN dirs \subseteq 1 .. load.made
    /\ \A d \in DOMAIN dirs : dirs[d] \in 0 .. made
    /\ DOMAIN disk \subseteq Paths /\ \A a \in DOMAIN disk : a.dir \in DOMAIN dirs

\* The limit on projects is exceeded by no more than the creations that were
\* let in together: the count is read before the INSERT.
ProjectsNearLimit ==
    Cardinality(projects) <= MaxProjects + Cardinality(Requests) - 1

\* The quota is exceeded by no more than the other uploads that were checked
\* before this one was stored, however they overlap with replacements and
\* deletions that change the sum, and the size, they were checked against.
QuotaNearLimit ==
    Usage <= MaxBytes + (Cardinality(Requests) - 1) * Max(load.sizes)

\* So neither limit is missed by more than the requests that raced.
LimitsNear == ProjectsNearLimit /\ QuotaNearLimit

\* The size a row counts towards the quota is the size of the file it points at.
SizesTrue ==
    \A f \in DOMAIN files : files[f].path \in DOMAIN disk => Download(f) = files[f].size

\* A file that is still listed can be downloaded, unless a request is between
\* removing the file and changing the row, was dropped there, or a project's
\* deletion took the directory with the file in it.
Handling(f) == \E p \in Requests :
    call[p].op \in {"replace", "delfile"} /\ call[p].step = "row" /\ call[p].id = f
ListedIsStored ==
    /\ SizesTrue
    /\ \A f \in DOMAIN files : Download(f) = 0 => f \in lost \/ Handling(f)

=============================================================================
