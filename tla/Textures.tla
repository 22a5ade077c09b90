------------------------------ MODULE Textures ------------------------------
(***************************************************************************)
(* The picture of an item for the panel: from the file cache, or resolved  *)
(* through the item's model files, looked up in the server's own jars and  *)
(* asked of a mirror, and then cached, a miss as well as a find.  The jars *)
(* do not change while the process runs; the mirror may not answer.        *)
(*                                                                         *)
(* A name is the sequence of its words (a shape is one word), a texture    *)
(* file its namespace, directory and stem.  A world has the items asked    *)
(* for (asks), the model files (models, those the jars lack being on the   *)
(* mirror), the textures of the mirror, whether there is one (web), the    *)
(* jars in the order of the index (each its textures in order and its      *)
(* models), the file the game draws an item with (art), and how many       *)
(* faults and cut writes may happen.                                       *)
(***************************************************************************)
EXTENDS Naturals, FiniteSets, SequencesExt

CONSTANTS
  Request, None,
  Worlds,        \* by name, what there is: jars, a mirror, items
  MissTtl        \* MISS_TTL_SECONDS in ticks

MissTtlAssumption == MissTtl \in Nat \ {0}

VARIABLES
  world,         \* chosen at the start
  spent,         \* how many faults and cut writes have happened
  hit,           \* the cached file of each id
  miss,          \* the age of each id's miss marker, None without one
  inFlight,      \* TextureCache.in_flight: the lock of a name, None without one
  holder,        \* who holds each lock
  call           \* where each request is and what it holds

vars == <<world, spent, hit, miss, inFlight, holder, call>>
files == <<hit, miss>>
locks == <<inFlight, holder>>

Vanilla == "minecraft"
Item == <<"item">>
Block == <<"block">>
Entity == <<"entity">>
File(ns, dir, stem) == [ns |-> ns, dir |-> dir, stem |-> stem]

World == Worlds[world]
Names == {i.name : i \in World.asks}
Guards == 1 .. Cardinality(Request) + Cardinality(Names)

NoFile == [state |-> "none", art |-> None]
Idle == [at |-> "idle", id |-> None, guard |-> 0, hop |-> 0, location |-> None,
         merged |-> << >>, names |-> << >>, art |-> None, answer |-> "none"]

-----------------------------------------------------------------------------
(* models.rs: which texture a model file names.                            *)

MaxParentDepth == 12
MaxReferenceDepth == 8
SlotPriority == <<"layer0", "all", "side", "texture", "north", "end", "top",
                  "front", "cross", "particle">>

(* Mutant: the parent's slots win.                                         *)
MergeTexturesOver(into, from) ==
  [s \in DOMAIN into \cup DOMAIN from |->
     IF s \in DOMAIN from THEN from[s] ELSE into[s]]

(* A child's slots win over its parent's.                                  *)
MergeTextures(into, from) ==
  [s \in DOMAIN into \cup DOMAIN from |->
     IF s \in DOMAIN into THEN into[s] ELSE from[s]]

(* A slot's value is a texture or a reference to another slot, followed a  *)
(* bounded number of times.                                                *)
ResolveSlot(textures, slot) ==
  LET Of(s) == IF s \in DOMAIN textures THEN {textures[s]} ELSE {}
      value[k \in 1 .. MaxReferenceDepth] ==
        IF k = 1 THEN Of(slot)
        ELSE UNION {IF v[1] = "slot" THEN Of(v[2]) ELSE {v} : v \in value[k - 1]}
  IN {v[2] : v \in {w \in value[MaxReferenceDepth] : w[1] = "file"}}

(* The first slot of the priority order that leads to a texture; slots the *)
(* order does not know come last.                                          *)
PickTexture(textures) ==
  LET order == SlotPriority \o SetToSeq(DOMAIN textures \ ToSet(SlotPriority))
      good  == {k \in DOMAIN order : ResolveSlot(textures, order[k]) # {}}
  IN IF good = {} THEN {}
     ELSE ResolveSlot(textures, order[CHOOSE k \in good : \A j \in good : k <= j])

-----------------------------------------------------------------------------
(* textures.rs and mod_assets.rs: where to look.                           *)

Shapes == {"stairs", "slab", "fence_gate", "fence", "wall", "pressure_plate", "button"}

MaterialPaths(base) ==
  [k \in 1 .. 7 |->
     File(Vanilla, Block,
          IF k = 3 THEN Append(Front(base), Last(base) \o "s")
          ELSE base \o <<<< >>, <<"planks">>, << >>, <<"block">>,
                         <<"block", "side">>, <<"side">>, <<"top">>>>[k])]

Irregular(name) ==
  LET Drawn(dir, stem) == <<File(Vanilla, Entity \o dir, stem)>>
  IN CASE name = <<"shield">>           -> Drawn(<< >>, <<"shield", "base", "nopattern">>)
       [] name = <<"chest">>            -> Drawn(<<"chest">>, <<"normal">>)
       [] name = <<"player", "head">>   -> Drawn(<<"player", "wide">>, <<"steve">>)
       [] name = <<"decorated", "pot">> -> Drawn(<<"decorated_pot">>, <<"decorated", "pot", "base">>)
       [] OTHER                         -> << >>

(* Where a texture of this name might be, best guess first.                *)
CandidatePaths(name) ==
  LET block(more) == File(Vanilla, Block, name \o more)
  IN Irregular(name)
     \o <<File(Vanilla, Item, name), block(<< >>)>>
     \o (IF Len(name) > 1 /\ Last(name) \in Shapes
         THEN MaterialPaths(Front(name)) ELSE << >>)
     \o (IF Len(name) > 1
         THEN <<File(Vanilla, Append(Entity, Last(name)), Front(name))>> ELSE << >>)
     \o (IF Last(name) = "banner" /\ Len(name) > 1
         THEN <<File(Vanilla, Entity, <<"banner", "base">>)>> ELSE << >>)
     \o <<block(<<"side">>), block(<<"top">>), block(<<"front">>)>>

(* The file named exactly so, or else the shortest name that goes on from  *)
(* it; the first of equals.                                                *)
BestMatch(textures, name) ==
  LET fits == {f \in ToSet(textures) : IsPrefix(name, f.stem)}
      best == {f \in fits : \A g \in fits : Len(f.stem) <= Len(g.stem)}
  IN IF best = {} THEN {} ELSE {SelectSeq(textures, LAMBDA f : f \in best)[1]}

(* ModAssets::get asks the jars one after the other: the paths it is given *)
(* and then what the jar has under the item's name.                        *)
FromJar(jar, ns, name, candidates) ==
  LET here  == SelectSeq(jar.textures, LAMBDA f : f.ns = ns)
      exact == SelectSeq([k \in DOMAIN candidates |-> [candidates[k] EXCEPT !.ns = ns]],
                         LAMBDA f : f \in ToSet(here))
  IN IF exact # << >> THEN {exact[1]} ELSE BestMatch(here, name)

FromJars(ns, name, candidates) ==
  LET have == {k \in DOMAIN World.jars :
                 FromJar(World.jars[k], ns, name, candidates) # {}}
  IN IF have = {} THEN {}
     ELSE FromJar(World.jars[CHOOSE k \in have : \A j \in have : k <= j],
                  ns, name, candidates)

JarModels == UNION {World.jars[k].models : k \in DOMAIN World.jars}

-----------------------------------------------------------------------------
Init ==
  /\ world \in DOMAIN Worlds
  /\ spent = [faults |-> 0, cuts |-> 0]
  /\ hit = [i \in World.asks |-> NoFile]
  /\ miss = [i \in World.asks |-> None]
  /\ inFlight = [n \in Names |-> None]
  /\ holder = [g \in Guards |-> None]
  /\ call = [q \in Request |-> Idle]

Spend(what) ==
  /\ spent[what] < World[what]
  /\ spent' = [spent EXCEPT ![what] = @ + 1]

At(q, place) == call[q].at = place /\ UNCHANGED world
Goes(q, place) == call' = [call EXCEPT ![q].at = place]
Id(q) == call[q].id
Name(q) == Id(q).name

(* Mutant: one file for a name, whichever namespace it is of.              *)
CachePathShared(i) == CHOOSE j \in World.asks : j.name = i.name

CachePath(i) == i

ReadCached(i) == hit[CachePath(i)].state \in {"part", "whole"}

(* Mutant: a marker is believed for ever.                                  *)
IsFreshMissEver(i) == miss[i] # None

IsFreshMiss(i) == miss[i] # None /\ miss[i] < MissTtl

Answers(q, c, answer, art) ==
  call' = [call EXCEPT ![q] = [Idle EXCEPT !.id = c.id, !.answer = answer, !.art = art]]

(* get: the cache without the lock, ...                                    *)
Get(q) ==
  /\ At(q, "idle")
  /\ \E i \in (IF Id(q) = None THEN World.asks ELSE {Id(q)}) :
       call' = [call EXCEPT ![q] = [Idle EXCEPT !.at = "look", !.id = i]]
  /\ UNCHANGED <<spent, files, locks>>

Found(q) ==
  \/ /\ ReadCached(Id(q))
     /\ LET f == hit[CachePath(Id(q))] IN
          Answers(q, call[q], IF f.state = "whole" THEN "found" ELSE "part", f.art)
  \/ /\ ~ReadCached(Id(q)) /\ IsFreshMiss(Id(q))
     /\ Answers(q, call[q], "missing", None)

Absent(q) == ~ReadCached(Id(q)) /\ ~IsFreshMiss(Id(q))

Look(q) ==
  /\ At(q, "look")
  /\ Found(q) \/ (Absent(q) /\ Goes(q, "enter"))
  /\ UNCHANGED <<spent, files, locks>>

(* ... then the lock of the name, made if the map has none, ...            *)
Enter(q) ==
  /\ At(q, "enter")
  /\ LET free == Guards \ ({inFlight[n] : n \in DOMAIN inFlight}
                             \cup {call[r].guard : r \in Request})
         g == IF inFlight[Name(q)] # None THEN inFlight[Name(q)]
              ELSE CHOOSE x \in free : TRUE
     IN /\ inFlight' = [inFlight EXCEPT ![Name(q)] = g]
        /\ call' = [call EXCEPT ![q].at = "wait", ![q].guard = g]
  /\ UNCHANGED <<spent, files, holder>>

Wait(q) ==
  /\ At(q, "wait")
  /\ holder[call[q].guard] = None
  /\ holder' = [holder EXCEPT ![call[q].guard] = q]
  /\ Goes(q, "look again")
  /\ UNCHANGED <<spent, files, inFlight>>

Released(q) == holder' = [holder EXCEPT ![call[q].guard] = None]

(* The name leaves the map, whoever else waits for its lock.               *)
Forgets(q) ==
  /\ inFlight' = [inFlight EXCEPT ![Name(q)] = None]
  /\ Released(q)

(* ... and the cache again.                                                *)
LookAgain(q) ==
  /\ At(q, "look again")
  /\ \/ Found(q) /\ Forgets(q)
     \/ /\ Absent(q)
        /\ call' = [call EXCEPT ![q].at = "model",
             ![q].location = File(Id(q).ns, Item, Name(q))]
        /\ UNCHANGED locks
  /\ UNCHANGED <<spent, files>>

Ends(q, answer, art) == Answers(q, call[q], answer, art) /\ Forgets(q)

(* resolve_via_model, one file: from the jars, or of a vanilla item from   *)
(* the mirror; one that cannot be read ends the walk with what it has.     *)
Downloads(location) ==
  /\ location \notin JarModels
  /\ location.ns = Vanilla /\ World.web

Picked(q, merged) ==
  LET t == PickTexture(merged) IN
    call' = [call EXCEPT ![q].merged = merged,
                         ![q].at = IF t = {} THEN "guess" ELSE "named",
                         ![q].art = IF t = {} THEN None ELSE CHOOSE f \in t : TRUE]

(* Mutant: a parent that cannot be read throws the answer away.            *)
WalkEndsEmpty(q) == Picked(q, << >>)

WalkEnds(q) == Picked(q, call[q].merged)

Walk(q) ==
  LET here == call[q].location
      read == here \in DOMAIN World.models
                /\ (here \in JarModels \/ Downloads(here))
      model == World.models[here]
      merged == MergeTextures(call[q].merged, model.textures)
  IN /\ At(q, "model")
     /\ \/ /\ read
           /\ IF model.parent = None \/ call[q].hop + 1 = MaxParentDepth
              THEN Picked(q, merged)
              ELSE call' = [call EXCEPT ![q].merged = merged, ![q].hop = @ + 1,
                                        ![q].location = model.parent]
           /\ UNCHANGED spent
        \/ ~read /\ WalkEnds(q) /\ UNCHANGED spent
        \/ Downloads(here) /\ Spend("faults") /\ WalkEnds(q)
     /\ UNCHANGED <<files, locks>>

Stores(q, f) == call' = [call EXCEPT ![q].at = "open", ![q].art = f]

Guesses(q) == call' = [call EXCEPT ![q].at = "guess", ![q].art = None]

(* The texture the model names, of whichever namespace.                    *)
Named(q) ==
  LET f    == call[q].art
      jars == FromJars(f.ns, Name(q), <<f>>)
      asks == jars = {} /\ f.ns = Vanilla /\ World.web
  IN /\ At(q, "named")
     /\ \/ \E g \in jars : Stores(q, g) /\ UNCHANGED spent
        \/ asks /\ f \in World.mirror /\ Stores(q, f) /\ UNCHANGED spent
        \/ /\ jars = {} /\ ~(asks /\ f \in World.mirror)
           /\ Guesses(q) /\ UNCHANGED spent
        \/ asks /\ Spend("faults") /\ Guesses(q)
     /\ UNCHANGED <<files, locks>>

(* Then the guesses: in the jars of the item's namespace, and for a vanilla*)
(* item, one by one, at the mirror.                                        *)
Guess(q) ==
  LET jars == FromJars(Id(q).ns, Name(q), CandidatePaths(Name(q))) IN
  /\ At(q, "guess")
  /\ \/ \E g \in jars : Stores(q, g) /\ UNCHANGED locks
     \/ /\ jars = {} /\ Id(q).ns # Vanilla
        /\ Goes(q, "miss")
        /\ UNCHANGED locks
     \/ jars = {} /\ Id(q).ns = Vanilla /\ ~World.web /\ Ends(q, "missing", None)
     \/ /\ jars = {} /\ Id(q).ns = Vanilla /\ World.web
        /\ call' = [call EXCEPT ![q].at = "mirror",
                                ![q].names = CandidatePaths(Name(q))]
        /\ UNCHANGED locks
  /\ UNCHANGED <<spent, files>>

NextName(q) == call' = [call EXCEPT ![q].names = Tail(@)]

(* Mutant: a mirror that does not answer does not have it.                 *)
UnreachableMissing(q) == NextName(q) /\ UNCHANGED locks

(* A mirror that does not answer says nothing of the texture.              *)
Unreachable(q) == Ends(q, "unreachable", None)

Mirror(q) ==
  /\ At(q, "mirror")
  /\ \/ /\ call[q].names = << >>
        /\ Goes(q, "miss")
        /\ UNCHANGED <<spent, locks>>
     \/ /\ call[q].names # << >>
        /\ IF Head(call[q].names) \in World.mirror
           THEN Stores(q, Head(call[q].names)) ELSE NextName(q)
        /\ UNCHANGED <<spent, locks>>
     \/ call[q].names # << >> /\ Spend("faults") /\ Unreachable(q)
  /\ UNCHANGED files

(* write_cached empties the file and fills it, which a reader may see; on  *)
(* a full disk part of it, or nothing, stays.                              *)
Open(q) ==
  /\ At(q, "open")
  /\ hit' = [hit EXCEPT ![CachePath(Id(q))] = [state |-> "empty", art |-> None]]
  /\ Goes(q, "write")
  /\ UNCHANGED <<spent, miss, locks>>

Fill(q) ==
  /\ \E place \in {"write", "write on"} : At(q, place)
  /\ hit[CachePath(Id(q))].state = "empty"
  /\ hit' = [hit EXCEPT ![CachePath(Id(q))] = [state |-> "part", art |-> call[q].art]]
  /\ UNCHANGED <<spent, miss, locks, call>>

(* A write whose request is gone tells nobody.                             *)
Wrote(q, answer, art) ==
  IF call[q].at = "write" THEN Ends(q, answer, art)
  ELSE Answers(q, call[q], "none", None) /\ UNCHANGED locks

Write(q) ==
  /\ \E place \in {"write", "write on"} : At(q, place)
  /\ \/ /\ hit' = [hit EXCEPT ![CachePath(Id(q))] =
                     [state |-> "whole", art |-> call[q].art]]
        /\ Wrote(q, "found", call[q].art)
        /\ UNCHANGED spent
     \/ Spend("cuts") /\ Wrote(q, "failed", None) /\ UNCHANGED hit
  /\ UNCHANGED miss

(* A marker cut short is no marker.                                        *)
WriteMiss(q) ==
  /\ At(q, "miss")
  /\ \/ /\ miss' = [miss EXCEPT ![Id(q)] = 0]
        /\ Ends(q, "missing", None)
        /\ UNCHANGED spent
     \/ /\ Spend("cuts")
        /\ miss' = [miss EXCEPT ![Id(q)] = None]
        /\ Ends(q, "failed", None)
  /\ UNCHANGED hit

(* The browser goes away: the handler is dropped where it waits, its lock  *)
(* is free, and the name stays in the map.  A write goes on without it.    *)
Drop(q) ==
  /\ \E place \in {"wait", "look again", "model", "named", "guess", "mirror", "open",
                   "write", "miss"} : At(q, place)
  /\ Spend("faults")
  /\ IF call[q].at # "wait" THEN Released(q) ELSE UNCHANGED holder
  /\ IF call[q].at = "write" THEN Goes(q, "write on")
     ELSE Answers(q, call[q], "none", None)
  /\ UNCHANGED <<files, inFlight>>

Age ==
  /\ \E i \in World.asks : miss[i] # None /\ miss[i] < MissTtl
  /\ miss' = [i \in World.asks |-> IF miss[i] # None /\ miss[i] < MissTtl
                            THEN miss[i] + 1 ELSE miss[i]]
  /\ UNCHANGED <<world, spent, hit, locks, call>>

Step(q) ==
  \/ Get(q) \/ Look(q) \/ Enter(q) \/ Wait(q) \/ LookAgain(q) \/ Walk(q) \/ Named(q)
  \/ Guess(q) \/ Mirror(q) \/ Open(q) \/ Fill(q) \/ Write(q)
  \/ WriteMiss(q)

Next == Age \/ \E q \in Request : Step(q) \/ Drop(q)

Spec == Init /\ [][Next]_vars

FairSpec == Spec /\ WF_vars(Age) /\ \A q \in Request : WF_vars(Step(q))

-----------------------------------------------------------------------------
(* An earlier jar has a file of the item's name where the model's own is   *)
(* in a later one.                                                         *)
Overlaid(i, f) ==
  \E j, k \in DOMAIN World.jars :
    /\ j < k /\ World.art[i] \in ToSet(World.jars[k].textures)
    /\ f \in ToSet(World.jars[j].textures)
    /\ f.ns = World.art[i].ns /\ IsPrefix(i.name, f.stem)

(* What is shown, whole or cut short, is the picture the game draws,       *)
(* however many requests fill the cache at once.  After a fault, or if the *)
(* jars overlay each other, it may be another file of the item's own name; *)
(* never one of another item.                                              *)
NoOtherPicture ==
  \A q \in Request : call[q].answer \in {"found", "part"} =>
    \/ call[q].art = World.art[Id(q)]
    \/ Overlaid(Id(q), call[q].art)
    \/ /\ spent.faults > 0
       /\ \/ call[q].art.ns = Id(q).ns /\ IsPrefix(Name(q), call[q].art.stem)
          \/ Id(q).ns = Vanilla /\ call[q].art \in ToSet(CandidatePaths(Name(q)))

Guessable(i) ==
  \/ FromJars(i.ns, i.name, CandidatePaths(i.name)) # {}
  \/ /\ i.ns = Vanilla /\ World.web
     /\ ToSet(CandidatePaths(i.name)) \cap World.mirror # {}

(* Only what was looked for everywhere and is nowhere is said to be        *)
(* missing: an item that has a picture is missed only if a model or its    *)
(* texture could not be fetched and no guess finds one.                    *)
MissingIsReal ==
  \A q \in Request : call[q].answer = "missing" =>
    ~Guessable(Id(q)) /\ (World.art[Id(q)] = None \/ spent.faults > 0)

(* So an answer, a picture or none, is the right one for the item.         *)
RightPicture == NoOtherPicture /\ MissingIsReal

(* Whatever was missed or failed while the mirror did not answer, an item  *)
(* that has a picture is shown whole in the end, and again and again, as   *)
(* long as no write was cut.                                               *)
PictureArrives ==
  \A q \in Request :
    (\A i \in World.asks : World.art[i] # None)
      => <>(spent.cuts > 0) \/ []<>(call[q].answer = "found")
=============================================================================
