------------------------------ MODULE ItemData ------------------------------
(***************************************************************************)
(* What the panel reads out of a player's data: stacks, the cells they lie *)
(* in, the vitals.  The data is a tree of tagged values, walked field by   *)
(* field so that a field of an unknown layout costs that field only; an    *)
(* optional value is a set of at most one element.  An id is its namespace *)
(* and its path, each the sequence of its words, the namespace empty for a *)
(* key without one; a text is the sequence of its words; a string that     *)
(* holds JSON carries the tag "json", one that is plain text "string".  A  *)
(* snapshot's cells are the filled ones only.                              *)
(***************************************************************************)
EXTENDS Integers, SequencesExt

CONSTANTS
  LivePaths,       \* LIVE_PATHS in their order, or some of them
  MaxNestedItems   \* MAX_NESTED_ITEMS, the stacks reported of a container

Val(t, v) == [t |-> t, v |-> v]
Vanilla == <<"minecraft">>
Plain(key) == << << >>, <<key>> >>
Air == <<Vanilla, <<"air">> >>

Or(option, default) == IF option = {} THEN default ELSE CHOOSE x \in option : TRUE
OrElse(option, other) == IF option # {} THEN option ELSE other

As(t, values) == {x.v : x \in {y \in values : y.t = t}}

(* The value of the first of these keys a compound has.                    *)
Field(map, keys) ==
  LET present == SelectSeq(keys, LAMBDA k : k \in DOMAIN map)
  IN IF present = << >> THEN {} ELSE {map[Head(present)]}

At(maps, key) == UNION {Field(m, <<key>>) : m \in maps}
Sub(maps, key) == As("compound", At(maps, key))

-----------------------------------------------------------------------------
(* Names: a text component, an NBT compound or JSON, with its children.    *)

NamedColours ==
  [black |-> "#000000", dark_blue |-> "#0000aa", dark_green |-> "#00aa00",
   dark_aqua |-> "#00aaaa", dark_red |-> "#aa0000", dark_purple |-> "#aa00aa",
   gold |-> "#ffaa00", gray |-> "#aaaaaa", dark_gray |-> "#555555",
   blue |-> "#5555ff", green |-> "#55ff55", aqua |-> "#55ffff",
   red |-> "#ff5555", light_purple |-> "#ff55ff", yellow |-> "#ffff55",
   white |-> "#ffffff"]

(* A colour is the root component's, a known name or a hex literal.        *)
TextColour(value) ==
  LET root == CASE value.t = "json" -> As("compound", {value.v})
                [] value.t = "compound" -> {value.v}
                [] OTHER -> {}
      named == As("string", At(root, "color"))
  IN As("hex", At(root, "color")) \cup {NamedColours[c] : c \in named \cap DOMAIN NamedColours}

RECURSIVE JsonText(_)
JsonText(json) ==
  LET Joined(parts) == FlattenSeq([i \in DOMAIN parts |-> JsonText(parts[i])])
  IN CASE json.t = "string" -> json.v
       [] json.t = "list" -> Joined(json.v)
       [] json.t = "compound" ->
            Or(As("string", At({json.v}, "text")), << >>)
              \o Joined(Or(As("list", At({json.v}, "extra")), << >>))
       [] OTHER -> << >>

RECURSIVE PlainText(_)
PlainText(value) ==
  LET Joined(parts) ==
        FlattenSeq([i \in DOMAIN parts |-> Or(PlainText(parts[i]), << >>)])
      text == CASE value.t = "json" -> JsonText(value.v)
                [] value.t = "string" -> value.v
                [] value.t = "compound" ->
                     Or(As("string", At({value.v}, "text")), << >>)
                       \o Joined(Or(As("list", At({value.v}, "extra")), << >>))
                [] OTHER -> << >>
  IN IF text = << >> THEN {} ELSE {text}

-----------------------------------------------------------------------------
(* Stacks, in whichever of the layouts wrote them.                         *)

Enchantment(id, level, stored) == [id |-> id, level |-> level, stored |-> stored]

(* A list of {id, lvl} under tag, or a component whose levels are a map of *)
(* its own or the component itself, which then has other keys too.         *)
ReadEnchantments(item) ==
  LET Listed(key, stored) ==
        LET entries == UNION {ToSet(l) : l \in As("list", At(Sub({item}, "tag"), key))}
        IN UNION {{Enchantment(id, Or(As("int", At({e}, "lvl")), 1), stored) :
                     id \in As("id", At({e}, "id"))} : e \in As("compound", entries)}
      Mapped(key, stored) ==
        LET component == Sub(Sub({item}, "components"), key)
            levels == OrElse(Sub(component, Plain("levels")), component)
        IN UNION {{Enchantment(id, level, stored) : level \in As("int", At(levels, id))} :
                    id \in {k \in UNION {DOMAIN m : m \in levels} : k[1] # << >>}}
  IN Listed("Enchantments", FALSE) \cup Listed("StoredEnchantments", TRUE)
     \cup Mapped("minecraft:enchantments", FALSE)
     \cup Mapped("minecraft:stored_enchantments", TRUE)

(* read_item without what the stack contains.                              *)
ReadStack(item, contents) ==
  LET count == Or(As("int", Field(item, <<"count", "Count">>)), 1)
      named == OrElse(At(Sub({item}, "components"), "minecraft:custom_name"),
                      At(Sub(Sub({item}, "tag"), "display"), "Name"))
      name == UNION {PlainText(n) : n \in named}
      damage == OrElse(At(Sub({item}, "components"), "minecraft:damage"),
                       At(Sub({item}, "tag"), "Damage"))
  IN {[id |-> id, count |-> count, name |-> name,
       colour |-> IF name = {} THEN {} ELSE UNION {TextColour(n) : n \in named},
       damage |-> {d \in As("int", damage) : d > 0},
       ench |-> ReadEnchantments(item), contents |-> contents] :
        id \in {i \in As("id", At({item}, "id")) : i # Air /\ count > 0}}

Capped(stacks) ==
  SubSeq(stacks, 1, IF Len(stacks) < MaxNestedItems THEN Len(stacks) ELSE MaxNestedItems)

(* The contents of a container, one level deep: under tag if that has a    *)
(* list, else a container's slots or a bundle's stacks.                    *)
ReadContents(item) ==
  LET tag == Sub({item}, "tag")
      legacy == As("list", OrElse(At(Sub(tag, "BlockEntityTag"), "Items"), At(tag, "Items")))
      components == Sub({item}, "components")
      slots == As("list", At(components, "minecraft:container"))
      bundle == As("list", At(components, "minecraft:bundle_contents"))
      Maps(list) == [i \in DOMAIN list |-> As("compound", {list[i]})]
      Within(maps) == [i \in DOMAIN maps |-> Sub(maps[i], "item")]
      Read(maps) == FlattenSeq([i \in DOMAIN maps |->
                      SetToSeq(UNION {ReadStack(m, << >>) : m \in maps[i]})])
  IN Capped(Read(IF legacy # {} THEN Maps(Or(legacy, << >>))
                 ELSE IF slots # {} THEN Within(Maps(Or(slots, << >>)))
                 ELSE Maps(Or(bundle, << >>))))

ReadItem(item) == ReadStack(item, ReadContents(item))

-----------------------------------------------------------------------------
(* Snapshots.                                                              *)

EnderSlots == 27

(* Mutant: the armour row upside down.                                     *)
CellOfFeetFirst(slot) ==
  CASE slot = -106 -> {<<"offhand", 0>>}
    [] slot \in 0 .. 8 -> {<<"hotbar", slot>>}
    [] slot \in 9 .. 35 -> {<<"main", slot - 9>>}
    [] slot \in 100 .. 103 -> {<<"armour", slot - 100>>}
    [] OTHER -> {}

(* The cell of a slot number; worn slots count from the feet, the row from *)
(* the head.                                                               *)
CellOf(slot) ==
  CASE slot = -106 -> {<<"offhand", 0>>}
    [] slot \in 0 .. 8 -> {<<"hotbar", slot>>}
    [] slot \in 9 .. 35 -> {<<"main", slot - 9>>}
    [] slot \in 100 .. 103 -> {<<"armour", 3 - (slot - 100)>>}
    [] OTHER -> {}

(* What a slot number names, of the inventory and of the ender chest.      *)
CarriedCells == [slot \in -106 .. 103 |-> CellOf(slot)]
EnderCells == [slot \in 0 .. EnderSlots - 1 |-> {<<"ender", slot>>}]

Worn == [head |-> <<"armour", 0>>, chest |-> <<"armour", 1>>, legs |-> <<"armour", 2>>,
         feet |-> <<"armour", 3>>, offhand |-> <<"offhand", 0>>]

(* The cells with a stack, if there is one, in these.                      *)
Put(cells, at, item) ==
  IF item = {} THEN cells ELSE [c \in at |-> Or(item, << >>)] @@ cells

(* Worn gear out of the equipment compound, over what is there already.    *)
ReadEquipment(cells, root) ==
  LET Gear(key) == UNION {ReadItem(i) : i \in Sub(Sub({root}, "equipment"), key)}
  IN FoldSet(LAMBDA key, acc : Put(acc, {Worn[key]}, Gear(key)), cells, DOMAIN Worn)

(* The cells with the stacks of a list of entries, each in the cell that   *)
(* its slot names, if it names one.                                        *)
PlaceAll(cells, entries, named) ==
  FoldLeft(LAMBDA acc, e :
             LET map == As("compound", {e})
                 slots == As("int", At(map, "Slot")) \cap DOMAIN named
             IN Put(acc, UNION {named[n] : n \in slots}, UNION {ReadItem(m) : m \in map}),
           cells, entries)

GameModes == <<"survival", "creative", "adventure", "spectator">>

Numbers == {"Health", "foodLevel", "XpLevel", "XpP", "Score"}
VitalFields == (Numbers \cup {"playerGameType", "Dimension", "Pos"}) \cap ToSet(LivePaths)

ReadVitals(root) ==
  [f \in VitalFields |->
     CASE f \in Numbers -> As("int", At({root}, f))
       [] f = "playerGameType" ->
            {IF m \in 0 .. 3 THEN GameModes[m + 1] ELSE "unknown" : m \in As("int", At({root}, f))}
       [] f = "Dimension" -> As("string", At({root}, f))
       [] f = "Pos" -> {p \in As("list", At({root}, f)) :
                          Len(p) >= 3 /\ \A i \in 1 .. 3 : p[i].t = "int"}]

Items(root, key) == Or(As("list", At({root}, key)), << >>)

(* Mutant: worn gear first, so that the slots of old win.                  *)
SnapshotSlotsLast(root) ==
  LET worn == ReadEquipment(<< >>, root)
      carried == PlaceAll(worn, Items(root, "Inventory"), CarriedCells)
  IN [cells |-> PlaceAll(carried, Items(root, "EnderItems"), EnderCells),
      selected |-> {s \in As("int", At({root}, "SelectedItemSlot")) : s \in 0 .. 8},
      vitals |-> ReadVitals(root)]

(* The slots, then the worn gear over them, then the ender chest.          *)
SnapshotFromRoot(root) ==
  LET carried == PlaceAll(<< >>, Items(root, "Inventory"), CarriedCells)
      worn == ReadEquipment(carried, root)
  IN [cells |-> PlaceAll(worn, Items(root, "EnderItems"), EnderCells),
      selected |-> {s \in As("int", At({root}, "SelectedItemSlot")) : s \in 0 .. 8},
      vitals |-> ReadVitals(root)]

(* Mutant: nothing counts as borrowed.                                     *)
FillGapsSilent(live, other) ==
  [vitals |-> [f \in VitalFields |-> OrElse(live[f], other[f])], borrowed |-> FALSE]

(* What the live vitals lack comes from the file's, and that is reported.  *)
FillGapsFrom(live, other) ==
  [vitals |-> [f \in VitalFields |-> OrElse(live[f], other[f])],
   borrowed |-> \E f \in VitalFields : live[f] = {} /\ other[f] # {}]

=============================================================================
