------------------------------- MODULE Roster -------------------------------
(***************************************************************************)
(* The list of everybody who ever played, put together from the files of   *)
(* the game server, read one after the other while the server rewrites     *)
(* them, and from the names of those who are on.  A file is the sequence   *)
(* of its entries; the server writes one file at a time, and a read that   *)
(* catches it in the middle sees none of it.  server.properties names the  *)
(* world, which is not called "world".  Letter case is left out.           *)
(***************************************************************************)
EXTENDS Naturals, FiniteSets, SequencesExt

CONSTANTS
  Player,      \* their uuids
  Name, None,
  FirstName,   \* what each is called at first
  MaxEvents    \* bound on what happens besides the requests

VARIABLES
  name,        \* what each player is called
  on,          \* who is on the server
  dats,        \* who has a file in playerdata
  file,        \* usercache.json, ops.json, banned-players.json, whitelist.json
  torn,        \* the file the server is in the middle of writing, which
               \* may be server.properties, called "properties"
  events,
  call         \* a request for the roster

game == <<name, on, dats, file, torn, events>>
vars == <<game, call>>

Flags == {"ops", "banned", "whitelist"}
Files == {"usercache"} \cup Flags

Entry(p, n) == [uuid |-> {p}, name |-> {n}]
Lists(entries, p) == \E i \in DOMAIN entries : entries[i].uuid = {p}
Without(entries, p) == SelectSeq(entries, LAMBDA e : e.uuid # {p})

(* What there is to be seen at a moment.                                   *)
Scene == [on |-> on, name |-> name, file |-> file, torn |-> torn]

Idle == [at |-> "idle", world |-> TRUE, online |-> {}, playing |-> {}, dats |-> {}, seen |-> {},
         read |-> [f \in Files |-> << >>], scenes |-> {}, rows |-> << >>]

-----------------------------------------------------------------------------
(* The game server.  Whatever it does while a request is under way is part *)
(* of what the request might have seen.                                    *)

Watched ==
  call' = IF call.at = "idle" THEN call ELSE [call EXCEPT !.scenes = @ \cup {Scene'}]

Happens == events < MaxEvents /\ events' = events + 1 /\ Watched

Write(f, entries) ==
  /\ torn = None /\ torn' = f
  /\ file' = [file EXCEPT ![f] = entries]

Join(p) ==
  /\ p \notin on
  /\ on' = on \cup {p}
  /\ Write("usercache", Append(Without(file["usercache"], p), Entry(p, name[p])))
  /\ UNCHANGED <<name, dats>> /\ Happens

Leave(p) ==
  /\ p \in on
  /\ on' = on \ {p} /\ dats' = dats \cup {p}
  /\ UNCHANGED <<name, file, torn>> /\ Happens

(* An entry of the cache expires; its player has not been on for a month.  *)
Expire(p) ==
  /\ p \notin on /\ Lists(file["usercache"], p)
  /\ Write("usercache", Without(file["usercache"], p))
  /\ UNCHANGED <<name, on, dats>> /\ Happens

(* An operator puts a player on a list, under the name of the day, or      *)
(* takes them off it.                                                      *)
Flag(f, p) ==
  /\ Write(f, IF Lists(file[f], p) THEN Without(file[f], p)
              ELSE Append(file[f], Entry(p, name[p])))
  /\ UNCHANGED <<name, on, dats>> /\ Happens

(* A player who is not on takes a name nobody had.                         *)
Rename(p, n) ==
  /\ p \notin on
  /\ \A q \in Player : n # name[q] /\ n # FirstName[q]
  /\ name' = [name EXCEPT ![p] = n]
  /\ UNCHANGED <<on, dats, file, torn>> /\ Happens

(* The server writes its settings down, the world's name as it was.        *)
Settle ==
  /\ torn = None /\ torn' = "properties"
  /\ UNCHANGED <<name, on, dats, file>> /\ Happens

Written ==
  /\ torn # None
  /\ torn' = None
  /\ UNCHANGED <<name, on, dats, file, events>>
  /\ Watched

-----------------------------------------------------------------------------
(* build_roster.                                                           *)

Nobody == [name |-> {}, uuid |-> {}, online |-> FALSE, ops |-> FALSE, banned |-> FALSE,
           whitelist |-> FALSE, seen |-> FALSE]

(* seed: an entry with a uuid has a row, and its name leads to it.         *)
Seed(acc, e) ==
  IF e.uuid = {} THEN acc
  ELSE LET p == CHOOSE u \in e.uuid : TRUE
           row == IF p \in DOMAIN acc.rows THEN acc.rows[p] ELSE [Nobody EXCEPT !.uuid = {p}]
           named == IF row.name = {} THEN [row EXCEPT !.name = e.name] ELSE row
       IN [rows |-> p :> named @@ acc.rows,
           keyOf |-> [n \in e.name |-> p] @@ acc.keyOf]

(* The row an entry is about: by its uuid, or else by its name.            *)
Lookup(acc, e) ==
  (IF e.uuid # {} THEN e.uuid ELSE {acc.keyOf[n] : n \in e.name \cap DOMAIN acc.keyOf})
    \cap DOMAIN acc.rows

Mark(acc, f, entries) ==
  LET marked == UNION {Lookup(acc, entries[i]) : i \in DOMAIN entries}
  IN [acc EXCEPT !.rows = [k \in DOMAIN acc.rows |->
        IF k \in marked THEN [acc.rows[k] EXCEPT ![f] = TRUE] ELSE acc.rows[k]]]

(* Mutant: a name that is on has a row of its own.                         *)
OnlineApart(acc, names) ==
  [k \in {<<n>> : n \in names} |-> [Nobody EXCEPT !.name = {k[1]}, !.online = TRUE]] @@ acc.rows

(* The names that are on, each on the row it leads to or on one of its own.*)
Online(acc, names) ==
  LET Key(n) == IF n \in DOMAIN acc.keyOf THEN acc.keyOf[n] ELSE <<n>>
      Row(k) == IF k \in DOMAIN acc.rows THEN acc.rows[k] ELSE Nobody
      Called(k) == CHOOSE n \in names : Key(n) = k
  IN [k \in {Key(n) : n \in names} |->
        [Row(k) EXCEPT !.online = TRUE,
                       !.name = IF @ = {} THEN {Called(k)} ELSE @]] @@ acc.rows

(* Mutant: who has only a file in playerdata is left out.                  *)
BuildRosterNamed(read, seen, online) ==
  LET all == read["usercache"] \o read["ops"] \o read["banned"] \o read["whitelist"]
      seeded == FoldLeft(Seed, [rows |-> << >>, keyOf |-> << >>], all)
      opped == Mark(seeded, "ops", read["ops"])
      banned == Mark(opped, "banned", read["banned"])
      listed == Mark(banned, "whitelist", read["whitelist"])
  IN Online(listed, online)

BuildRoster(read, seen, online) ==
  LET all == read["usercache"] \o read["ops"] \o read["banned"] \o read["whitelist"]
      seeded == FoldLeft(Seed, [rows |-> << >>, keyOf |-> << >>], all)
      known == [seeded EXCEPT !.rows = @ @@ [p \in seen |-> [Nobody EXCEPT !.uuid = {p}]]]
      opped == Mark(known, "ops", read["ops"])
      banned == Mark(opped, "banned", read["banned"])
      listed == Mark(banned, "whitelist", read["whitelist"])
      rows == Online(listed, online)
  IN [k \in DOMAIN rows |-> [rows[k] EXCEPT !.seen = k \in seen]]

-----------------------------------------------------------------------------
(* A request.  The names that are on come first, then server.properties,   *)
(* the directory of the world it names, and the files in this order.       *)

Order == <<"usercache", "ops", "banned", "whitelist">>

Begin ==
  /\ call.at = "idle"
  /\ call' = [Idle EXCEPT !.at = "properties", !.online = {name[p] : p \in on}, !.playing = on,
                          !.dats = dats, !.scenes = {Scene}]
  /\ UNCHANGED game

(* level_name: the line may be missing of a file caught half written.      *)
ReadProperties ==
  /\ call.at = "properties"
  /\ \E found \in (IF torn = "properties" THEN BOOLEAN ELSE {TRUE}) :
       call' = [call EXCEPT !.at = "dir", !.world = found]
  /\ UNCHANGED game

(* Another world's directory is not there, or of nobody.                   *)
ReadDir ==
  /\ call.at = "dir"
  /\ call' = [call EXCEPT !.at = Head(Order), !.seen = IF call.world THEN dats ELSE {}]
  /\ UNCHANGED game

(* read_optional and parse_entries: a file caught half written is empty.   *)
ReadFile ==
  /\ call.at \in Files
  /\ LET i == CHOOSE j \in DOMAIN Order : Order[j] = call.at
         read == [call.read EXCEPT ![call.at] = IF torn = call.at THEN << >> ELSE file[call.at]]
     IN call' = [call EXCEPT !.read = read,
                             !.at = IF i = Len(Order) THEN "build" ELSE Order[i + 1]]
  /\ UNCHANGED game

Build ==
  /\ call.at = "build"
  /\ call' = [call EXCEPT !.at = "done", !.rows = BuildRoster(call.read, call.seen, call.online)]
  /\ UNCHANGED game

Close ==
  /\ call.at = "done"
  /\ call' = Idle
  /\ UNCHANGED game

-----------------------------------------------------------------------------
Init ==
  /\ name = FirstName
  /\ on = {} /\ dats = {}
  /\ file = [f \in Files |-> << >>]
  /\ torn = None /\ events = 0
  /\ call = Idle

Game ==
  \/ \E p \in Player : Join(p) \/ Leave(p) \/ Expire(p) \/ \E f \in Flags : Flag(f, p)
  \/ \E p \in Player, n \in Name : Rename(p, n)
  \/ Settle \/ Written

Next == Game \/ Begin \/ ReadProperties \/ ReadDir \/ ReadFile \/ Build \/ Close

Spec == Init /\ [][Next]_vars

-----------------------------------------------------------------------------
(* Properties.                                                             *)

Done == call.at = "done"
Rows == {call.rows[k] : k \in DOMAIN call.rows}

(* A player keeps a place in a file, under this name, all the while.       *)
StaysIn(f, p, n) ==
  \A s \in call.scenes : s.torn # f /\ \E i \in DOMAIN s.file[f] : s.file[f][i] = Entry(p, n)

(* Who was on when the request began is one row that says so, and nobody   *)
(* else is; it is the row of their uuid if the cache had them all along    *)
(* (build_roster: otherwise they would show up twice).                     *)
OnlineIsTheirs ==
  Done =>
    LET said == {r \in Rows : r.online}
    IN \E of \in [said -> call.playing] :
         /\ \A p \in call.playing : Cardinality({r \in said : of[r] = p}) = 1
         /\ \A r \in said : \E s \in call.scenes :
              \/ r.uuid = {of[r]}
              \/ r.uuid = {} /\ r.name = {s.name[of[r]]}
         /\ \A r \in said : \A s \in call.scenes :
              StaysIn("usercache", of[r], s.name[of[r]]) => r.uuid = {of[r]}

(* Nobody with a saved file is left out, unless server.properties was      *)
(* being written; and a flag says what was so at some moment of the        *)
(* request, and may be missing for a file that was being written           *)
(* (load_roster, parse_entries).                                           *)
FlagsAreTrue ==
  Done =>
    /\ \/ call.dats \subseteq DOMAIN call.rows
       \/ \E s \in call.scenes : s.torn = "properties"
    /\ \A p \in Player \cap DOMAIN call.rows, f \in Flags :
         IF call.rows[p][f] THEN \E s \in call.scenes : Lists(s.file[f], p)
         ELSE \E s \in call.scenes : s.torn = f \/ ~Lists(s.file[f], p)

(* Whatever joins, leaves, is renamed or rewritten meanwhile, the roster   *)
(* tells each player's presence once and their flags as they were.         *)
RosterIsTrue == OnlineIsTheirs /\ FlagsAreTrue

=============================================================================
