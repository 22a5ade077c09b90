-------------------------------- MODULE Site --------------------------------
(***************************************************************************)
(* Starting the service on whatever database an earlier one left (db.rs,    *)
(* main.rs), and the status page it then serves (routes/status.rs).         *)
(*                                                                         *)
(* init_database runs its statements one by one and starts over after a     *)
(* crash or an error: what was done stays done, what it knew is gone.  The  *)
(* handlers of the status page run statement by statement too; one          *)
(* definition is one handler, one disjunct of it one statement.             *)
(***************************************************************************)
EXTENDS Integers, Sequences, FiniteSets, SequencesExt

CONSTANTS SiteRequests, \* requests of admins that run at a time
          Columns,      \* columns of users the code relies on
          Renames,      \* old column -> new column, in the order of the code
          Adds,         \* columns added when missing, in the order of the code
          Indexes,      \* unique indexes made when missing, in order
          Seeds,        \* components the status page starts with, in order
          SiteLoads     \* the database found, what admins do, and bounds

\* Columns that CREATE TABLE does not name: they are only ever added.
AddedLater == {"email", "oauth_provider", "oauth_subject"}

Fixes == Renames \o [k \in 1 .. Len(Adds) |-> [old |-> "none", new |-> Adds[k]]]

OldNames == {Renames[k].old : k \in DOMAIN Renames}

\* What an earlier version may have left: each column under its old name or its
\* new one, not both; only those that are added may be missing.  A column the
\* code relies on but never adds, is_projallowed, is taken to be in every table.
LeftBehind(cols) ==
    /\ cols \subseteq Columns \cup OldNames
    /\ \A k \in DOMAIN Renames : Renames[k].new \in cols <=> Renames[k].old \notin cols
    /\ Columns \ cols \subseteq Range(Adds) \cup {Renames[k].new : k \in DOMAIN Renames}

ASSUME SiteAssumption ==
    /\ Renames \in Seq([old : OldNames, new : Columns]) /\ Adds \in Seq(Columns)
    /\ Indexes \in Seq(Range(Indexes)) /\ IsInjective(Indexes)
    /\ Seeds \in Seq(Range(Seeds)) /\ IsInjective(Seeds)
    /\ \A j, k \in DOMAIN Fixes : Fixes[j].new = Fixes[k].new => j = k
    /\ \A j, k \in DOMAIN Renames : Renames[j].old = Renames[k].old => j = k
    /\ OldNames \cap Columns = {} /\ "none" \notin OldNames \cup Columns
    /\ Columns \cap AddedLater \subseteq Range(Adds)
    /\ \A l \in SiteLoads : /\ l.columns = {} \/ LeftBehind(l.columns)
                            /\ l.crashes \in Nat /\ l.incidents \in Nat

VARIABLES siteLoad,  \* the load, chosen once
          phase,     \* "down", a step of init_database, or "serving"
          columns,   \* columns of users in the database
          indexes,   \* its indexes
          seen,      \* the columns, or indexes, this start has read
          todo,      \* what this start still has to look at in its step
          crashes,   \* crashes so far
          comps,     \* components: id -> status
          incidents, \* incidents: id -> status and whether ended_at is set
          history,   \* incident_status_history: id -> statuses, oldest first
          affected,  \* incident_affected_components: pairs
          siteCall   \* the requests

schema == <<columns, indexes>>
starting == <<phase, seen, todo, crashes>>
page == <<comps, incidents, history, affected>>
siteVars == <<siteLoad, schema, starting, page, siteCall>>

SiteIdle == [op |-> "idle", step |-> "none", id |-> 0, status |-> "none",
         item |-> << >>, found |-> {}]
States == {"operational", "disruption"}
Serving == phase = "serving"

SiteInit ==
    /\ siteLoad \in SiteLoads
    /\ phase = "down" /\ columns = siteLoad.columns /\ indexes = {}
    /\ seen = {} /\ todo = << >> /\ crashes = 0
    /\ comps = << >> /\ incidents = << >> /\ history = << >> /\ affected = {}
    /\ siteCall = [p \in SiteRequests |-> SiteIdle]

-----------------------------------------------------------------------------
(***************************************************************************)
(* Starting.                                                               *)
(***************************************************************************)
\* CREATE TABLE IF NOT EXISTS: users gets the columns of today's code, but not
\* those that are only ever added, unless the table is there.
SetupDatabase ==
    /\ phase = "down"
    /\ columns' = IF columns = {} THEN Columns \ AddedLater
                                  ELSE columns
    /\ phase' = "read"
    /\ UNCHANGED <<indexes, seen, todo, crashes, page, siteCall>>

\* (Mutant: a column that could not be renamed is not added either.)
NeedsRename(fix) == fix.new \notin seen /\ fix.old \in seen

\* A fix is needed by what this start read before it changed anything.
Needs(fix) == fix.new \notin seen /\ (fix.old = "none" \/ fix.old \in seen)

\* (Mutant: the indexes are made without looking.)
NeedsIndexAlways(i) == TRUE

NeedsIndex(i) == i \notin seen

\* fix_database_schema: read the columns, rename and add what that asks for,
\* read the indexes, create those that are missing.  To add a column or an index
\* that exists is an error, which ends the start.
FixSchema ==
    /\ \/ /\ phase = "read"
          /\ seen' = columns
          /\ todo' = Fixes
          /\ phase' = "columns"
          /\ UNCHANGED schema
       \/ /\ phase = "columns" /\ todo # << >>
          /\ LET fix == Head(todo)
             IN  IF ~Needs(fix) THEN UNCHANGED <<columns, phase>>
                 ELSE IF fix.new \in columns THEN phase' = "down" /\ UNCHANGED columns
                 ELSE columns' = (columns \ {fix.old}) \cup {fix.new} /\ UNCHANGED phase
          /\ todo' = Tail(todo)
          /\ UNCHANGED <<indexes, seen>>
       \/ /\ phase = "columns" /\ todo = << >>
          /\ seen' = indexes /\ todo' = Indexes /\ phase' = "indexes"
          /\ UNCHANGED schema
       \/ /\ phase = "indexes" /\ todo # << >>
          /\ LET i == Head(todo)
             IN  IF ~NeedsIndex(i) THEN UNCHANGED <<indexes, phase>>
                 ELSE IF i \in indexes THEN phase' = "down" /\ UNCHANGED indexes
                 ELSE indexes' = indexes \cup {i} /\ UNCHANGED phase
          /\ todo' = Tail(todo)
          /\ UNCHANGED <<columns, seen>>
       \/ /\ phase = "indexes" /\ todo = << >>
          /\ phase' = "count"
          /\ UNCHANGED <<schema, seen, todo>>
    /\ UNCHANGED <<crashes, page, siteCall>>

ToSeed == IF comps = << >> THEN Seeds ELSE << >>

\* seed_components: only into an empty table, one INSERT after the other.  A
\* crash in between leaves a table that is never completed.  (The wiki's page is
\* seeded the same way, by one INSERT.)
SeedComponents ==
    /\ \/ /\ phase = "count"
          /\ todo' = ToSeed
          /\ phase' = "seed"
          /\ UNCHANGED comps
       \/ /\ phase = "seed" /\ todo # << >>
          /\ IF Head(todo) \in DOMAIN comps
               THEN phase' = "down" /\ UNCHANGED <<comps, todo>>
               ELSE /\ comps' = [c \in DOMAIN comps \cup {Head(todo)} |->
                                   IF c \in DOMAIN comps THEN comps[c] ELSE "operational"]
                    /\ todo' = Tail(todo) /\ UNCHANGED phase
       \/ /\ phase = "seed" /\ todo = << >>
          /\ phase' = "serving"
          /\ UNCHANGED <<comps, todo>>
    /\ UNCHANGED <<schema, seen, crashes, incidents, history, affected, siteCall>>

\* The process dies; every request with it.
Crash ==
    /\ phase # "down" /\ crashes < siteLoad.crashes
    /\ crashes' = crashes + 1
    /\ phase' = "down" /\ seen' = {} /\ todo' = << >>
    /\ siteCall' = [p \in SiteRequests |-> SiteIdle]
    /\ UNCHANGED <<schema, page>>

-----------------------------------------------------------------------------
(***************************************************************************)
(* The status page.                                                        *)
(***************************************************************************)
SiteAt(p, op, step) == Serving /\ siteCall[p].op = op /\ siteCall[p].step = step
SiteBecomes(p, r) == siteCall' = [siteCall EXCEPT ![p] = r]
SiteGoes(p, step) == SiteBecomes(p, [siteCall[p] EXCEPT !.step = step])
SiteEnds(p) == SiteBecomes(p, SiteIdle)

\* A request brings at most one component update, << >> or <<component, status>>;
\* one with a status that is not allowed is skipped.
Items == {<< >>} \cup siteLoad.comps \X States
SiteStarts(p, op, r) == /\ Serving /\ op \in siteLoad.ops /\ siteCall[p] = SiteIdle
                        /\ \E item \in Items :
                            SiteBecomes(p, [r EXCEPT !.op = op, !.item = item])

\* The request fails at a statement or is dropped.
SiteStops(p) ==
    /\ siteCall[p] # SiteIdle /\ SiteEnds(p)
    /\ UNCHANGED <<schema, starting, page>>

\* What POST /incidents and POST /incidents/{id}/updates do for each component
\* of theirs: look it up, update or insert it, track it unless operational.
ComponentUpdate(p) ==
    /\ Serving /\ siteCall[p].op \in {"create", "update"}
    /\ LET c == siteCall[p].item[1]
           s == siteCall[p].item[2]
       IN  \/ /\ siteCall[p].step = "item" /\ siteCall[p].item = << >>
              /\ SiteEnds(p)
              /\ UNCHANGED <<comps, affected>>
           \/ /\ siteCall[p].step = "item" /\ siteCall[p].item # << >>
              /\ SiteGoes(p, IF c \in DOMAIN comps THEN "change" ELSE "add")
              /\ UNCHANGED <<comps, affected>>
           \/ /\ \/ siteCall[p].step = "change" /\ c \in DOMAIN comps
                 \/ siteCall[p].step = "add" /\ c \notin DOMAIN comps
              /\ comps' = [x \in DOMAIN comps \cup {c} |-> IF x = c THEN s ELSE comps[x]]
              /\ IF s = "operational" THEN SiteEnds(p) ELSE SiteGoes(p, "track")
              /\ UNCHANGED affected
           \/ /\ siteCall[p].step = "track"
              /\ affected' = affected \cup {<<siteCall[p].id, c>>}
              /\ SiteEnds(p)
              /\ UNCHANGED comps
    /\ UNCHANGED <<schema, starting, incidents, history>>

\* POST /incidents: the incident, its first history entry, its component.
CreateIncident(p) ==
    /\ \/ /\ SiteStarts(p, "create", [SiteIdle EXCEPT !.step = "insert"])
          /\ UNCHANGED <<incidents, history>>
       \/ /\ SiteAt(p, "create", "insert") /\ Len(incidents) < siteLoad.incidents
          /\ incidents' = Append(incidents, [status |-> "investigating", ended |-> FALSE])
          /\ history' = Append(history, << >>)
          /\ SiteBecomes(p, [siteCall[p] EXCEPT !.step = "history", !.id = Len(incidents')])
       \/ /\ SiteAt(p, "create", "history")
          /\ history' = [history EXCEPT ![siteCall[p].id] = Append(@, "investigating")]
          /\ SiteGoes(p, "item")
          /\ UNCHANGED incidents
    /\ UNCHANGED <<schema, starting, comps, affected>>

\* (Mutant: the end is recorded before the history.)
NextAfterStatusEarly(status) == IF status = "resolved" THEN "ended" ELSE "history"

NextAfterStatus(status) == "history"

\* POST /incidents/{id}/updates: the status, its history entry; when it resolves
\* the incident, the end, the affected components back to operational one by
\* one, and their tracking removed; then the component of the update.
AddUpdate(p) ==
    /\ \/ /\ \E i \in DOMAIN incidents, s \in {"none", "monitoring", "resolved"} :
              SiteStarts(p, "update", [SiteIdle EXCEPT !.id = i, !.status = s,
                                    !.step = IF s = "none" THEN "item" ELSE "status"])
          /\ UNCHANGED page
       \/ /\ SiteAt(p, "update", "status")
          /\ incidents' = [incidents EXCEPT ![siteCall[p].id].status = siteCall[p].status]
          /\ SiteGoes(p, NextAfterStatus(siteCall[p].status))
          /\ UNCHANGED <<comps, history, affected>>
       \/ /\ SiteAt(p, "update", "history") /\ Len(history[siteCall[p].id]) < siteLoad.history
          /\ history' = [history EXCEPT ![siteCall[p].id] = Append(@, siteCall[p].status)]
          /\ SiteGoes(p, IF siteCall[p].status = "resolved" THEN "ended" ELSE "item")
          /\ UNCHANGED <<comps, incidents, affected>>
       \/ /\ SiteAt(p, "update", "ended")
          /\ incidents' = [incidents EXCEPT ![siteCall[p].id].ended = TRUE]
          /\ SiteGoes(p, "affected")
          /\ UNCHANGED <<comps, history, affected>>
       \/ /\ SiteAt(p, "update", "affected")
          /\ SiteBecomes(p, [siteCall[p] EXCEPT !.step = "reset",
                 !.found = {c \in DOMAIN comps : <<siteCall[p].id, c>> \in affected}])
          /\ UNCHANGED page
       \/ /\ SiteAt(p, "update", "reset")
          /\ \E c \in siteCall[p].found :
              /\ comps' = [comps EXCEPT ![c] = "operational"]
              /\ SiteBecomes(p, [siteCall[p] EXCEPT !.found = @ \ {c}])
          /\ UNCHANGED <<incidents, history, affected>>
       \/ /\ SiteAt(p, "update", "reset") /\ siteCall[p].found = {}
          /\ affected' = {x \in affected : x[1] # siteCall[p].id}
          /\ SiteGoes(p, "item")
          /\ UNCHANGED <<comps, incidents, history>>
    /\ UNCHANGED <<schema, starting>>

\* PATCH /components/{id}: look it up, update or insert it.
UpdateComponent(p) ==
    /\ \/ /\ \E c \in siteLoad.comps, s \in States :
              /\ Serving /\ "component" \in siteLoad.ops /\ siteCall[p] = SiteIdle
              /\ SiteBecomes(p, [SiteIdle EXCEPT !.op = "component", !.item = <<c, s>>,
                    !.step = IF c \in DOMAIN comps THEN "change" ELSE "add"])
          /\ UNCHANGED comps
       \/ /\ LET c == siteCall[p].item[1]
             IN  /\ \/ SiteAt(p, "component", "change") /\ c \in DOMAIN comps
                    \/ SiteAt(p, "component", "add") /\ c \notin DOMAIN comps
                 /\ comps' = [x \in DOMAIN comps \cup {c} |->
                                IF x = c THEN siteCall[p].item[2] ELSE comps[x]]
          /\ SiteEnds(p)
    /\ UNCHANGED <<schema, starting, incidents, history, affected>>

-----------------------------------------------------------------------------
Startup == SetupDatabase \/ FixSchema \/ SeedComponents

SiteNext ==
    /\ \/ Startup \/ Crash
       \/ \E p \in SiteRequests : \/ CreateIncident(p) \/ AddUpdate(p) \/ ComponentUpdate(p)
                              \/ UpdateComponent(p) \/ SiteStops(p)
    /\ UNCHANGED siteLoad

SiteSpec == SiteInit /\ [][SiteNext]_siteVars

-----------------------------------------------------------------------------
SiteTypeOK ==
    /\ columns \subseteq Columns \cup OldNames
    /\ indexes \subseteq Range(Indexes)
    /\ DOMAIN comps \subseteq Range(Seeds) \cup siteLoad.comps
    /\ Range(comps) \subseteq States
    /\ DOMAIN history = DOMAIN incidents
    /\ affected \subseteq (DOMAIN incidents) \X (DOMAIN comps)
    /\ crashes \in 0 .. siteLoad.crashes

\* A service that has started finds every column and index it relies on, and no
\* old name, whatever version made the table and wherever earlier starts died:
\* each start decides from one look at the columns and changes them one by one.
SchemaServes ==
    Serving => columns = Columns /\ indexes = Range(Indexes)

\* And what an earlier start has done never makes a statement of a later one
\* fail: only a crash sends the service back to its beginning.
ServesStep ==
    /\ SchemaServes /\ SchemaServes'
    /\ phase' = "down" /\ phase # "down" => crashes' > crashes

StartsServe == [][ServesStep]_siteVars

\* An incident whose end is recorded has been announced as resolved: the end is
\* written after the history entry, and a request that dies leaves no end
\* without one.
EndedWasAnnounced ==
    \A i \in DOMAIN incidents : incidents[i].ended =>
        \E k \in DOMAIN history[i] : history[i][k] = "resolved"

=============================================================================
