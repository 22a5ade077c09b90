----------------------------- MODULE StoredItems -----------------------------
(***************************************************************************)
(* The inventories the plugin Multiverse-Inventories keeps of a player per *)
(* world: how a file's JSON becomes a snapshot.  JSON values are tagged as *)
(* ItemData's are: "object", "array", "number", "string"; a string that    *)
(* itself holds JSON is "json", one that holds base64 of an item's NBT is  *)
(* "bytes".  An object that maps slot numbers has numbers for keys, one    *)
(* that maps ids has ids.  A material is an id, or the flattened words of  *)
(* one, namespace and path run together, under an empty namespace.         *)
(***************************************************************************)
EXTENDS ItemData

CONSTANTS
  ModNamespaces    \* the installed mods', each its words

ProfileOrder == <<"SURVIVAL", "ADVENTURE", "CREATIVE", "SPECTATOR">>
ProfileKeys == {"inventoryContents", "armorContents", "enderChestContents",
                "offHandItem", "stats"}

-----------------------------------------------------------------------------
Unwrapped(value) == IF value.t = "json" THEN value.v ELSE value

ObjectOf(value) == As("object", {Unwrapped(value)})

Number(value) == As("number", {Unwrapped(value)})

FirstNumber(maps, keys) ==
  LET found == SelectSeq(FlattenSeq([i \in DOMAIN maps |->
                 [j \in DOMAIN keys |-> UNION {Number(v) : v \in Field(maps[i], <<keys[j]>>)}]]),
                 LAMBDA n : n # {})
  IN IF found = << >> THEN {} ELSE Head(found)

IsProfile(value) == \E map \in As("object", {value}) : DOMAIN map \cap ProfileKeys # {}

Rank(name) == IF name \in ToSet(ProfileOrder)
              THEN CHOOSE i \in DOMAIN ProfileOrder : ProfileOrder[i] = name
              ELSE Len(ProfileOrder) + 1

(* Mutant: the first profile whatever was asked for, under the name asked  *)
(* for.                                                                    *)
ChooseProfileFirst(root, wanted) ==
  LET map == root.v
      names == SetToSortSeq({k \in DOMAIN map : IsProfile(map[k])},
                            LAMBDA a, b : Rank(a) < Rank(b))
      asked == SelectSeq(names, LAMBDA n : n \in wanted)
  IN IF names # << >>
     THEN {[profile |-> map[Head(names)].v, name |-> IF asked = << >> THEN Head(names) ELSE Head(asked)]}
     ELSE IF IsProfile(root) THEN {[profile |-> map, name |-> "DEFAULT"]} ELSE {}

(* The profile asked for if the file has it, else the first in the         *)
(* picker's order; a file may be one profile without a wrapper.            *)
ChooseProfile(root, wanted) ==
  LET map == root.v
      names == SetToSortSeq({k \in DOMAIN map : IsProfile(map[k])},
                            LAMBDA a, b : Rank(a) < Rank(b))
      asked == SelectSeq(names, LAMBDA n : n \in wanted)
      chosen == IF asked = << >> THEN Head(names) ELSE Head(asked)
  IN IF names # << >> THEN {[profile |-> map[chosen].v, name |-> chosen]}
     ELSE IF IsProfile(root) THEN {[profile |-> map, name |-> "DEFAULT"]} ELSE {}

-----------------------------------------------------------------------------
(* Bukkit's names back into ids.                                           *)

(* Mutant: the shortest namespace that fits.                               *)
ResolverIdShortest(raw) ==
  LET fits == {n \in ModNamespaces : IsPrefix(n, raw[2]) /\ Len(n) < Len(raw[2])}
      best == CHOOSE n \in fits : \A m \in fits : Len(n) <= Len(m)
  IN IF raw[1] # << >> THEN raw
     ELSE IF fits = {} THEN <<Vanilla, raw[2]>>
     ELSE <<best, SubSeq(raw[2], Len(best) + 1, Len(raw[2]))>>

(* The longest namespace of a mod that the flattened words begin with and  *)
(* do not end with; without one the item is the game's own.                *)
ResolverId(raw) ==
  LET fits == {n \in ModNamespaces : IsPrefix(n, raw[2]) /\ Len(n) < Len(raw[2])}
      best == CHOOSE n \in fits : \A m \in fits : Len(m) <= Len(n)
  IN IF raw[1] # << >> THEN raw
     ELSE IF fits = {} THEN <<Vanilla, raw[2]>>
     ELSE <<best, SubSeq(raw[2], Len(best) + 1, Len(raw[2]))>>

LegacyEnchantments ==
  <<"protection", "environmental">> :> <<"protection">>
  @@ <<"protection", "fire">> :> <<"fire", "protection">>
  @@ <<"protection", "fall">> :> <<"feather", "falling">>
  @@ <<"protection", "explosions">> :> <<"blast", "protection">>
  @@ <<"protection", "projectile">> :> <<"projectile", "protection">>
  @@ <<"oxygen">> :> <<"respiration">> @@ <<"water", "worker">> :> <<"aqua", "affinity">>
  @@ <<"damage", "all">> :> <<"sharpness">> @@ <<"damage", "undead">> :> <<"smite">>
  @@ <<"damage", "arthropods">> :> <<"bane", "of", "arthropods">>
  @@ <<"loot", "bonus", "mobs">> :> <<"looting">>
  @@ <<"dig", "speed">> :> <<"efficiency">> @@ <<"durability">> :> <<"unbreaking">>
  @@ <<"loot", "bonus", "blocks">> :> <<"fortune">>
  @@ <<"arrow", "damage">> :> <<"power">> @@ <<"arrow", "knockback">> :> <<"punch">>
  @@ <<"arrow", "fire">> :> <<"flame">> @@ <<"arrow", "infinite">> :> <<"infinity">>
  @@ <<"luck">> :> <<"luck", "of", "the", "sea">>

EnchantmentId(raw) ==
  IF raw[1] = << >> /\ raw[2] \in DOMAIN LegacyEnchantments
  THEN <<Vanilla, LegacyEnchantments[raw[2]]>>
  ELSE ResolverId(raw)

EnchantmentComponent(value) ==
  LET Levels(map) ==
        LET keys == {k \in DOMAIN map : Number(map[k]) # {}}
        IN [id \in {EnchantmentId(k) : k \in keys} |->
              Val("int", Or(Number(map[CHOOSE k \in keys : EnchantmentId(k) = id]), 0))]
  IN {Val("compound", Plain("levels") :> Val("compound", Levels(m))) :
        m \in {o \in As("object", {value}) : Levels(o) # << >>}}

(* A name that is not JSON is the plain text left of its colour codes.     *)
NameComponent(raw) ==
  IF raw.t = "json" THEN Val("json", raw.v) ELSE Val("string", raw.v)

-----------------------------------------------------------------------------
(* One stored stack as the compound ReadItem reads; the stacks in a bundle *)
(* are converted one level deep.                                           *)
RECURSIVE ItemCompound(_, _)
ItemCompound(value, depth) ==
  LET maps == As("object", {value})
      raw == As("id", UNION {Field(m, <<"type", "id", "material">>) : m \in maps})
      id == {ResolverId(r) : r \in raw}
      count == UNION {Number(n) : n \in UNION {Field(m, <<"amount", "count">>) : m \in maps}}
      meta == As("object", At(maps, "meta"))
      name == {n \in UNION {Field(m, <<"display-name", "item-name">>) : m \in meta} :
                 n.t \in {"string", "json"}}
      damage == UNION {Number(d) : d \in At(meta, "Damage")}
      Ench(key) == UNION {EnchantmentComponent(e) : e \in At(meta, key)}
      inner == IF depth > 0 THEN << >>
               ELSE LET items == Or(As("array", At(meta, "items")), << >>)
                    IN FlattenSeq([i \in DOMAIN items |->
                         SetToSeq({Val("compound", c) : c \in ItemCompound(items[i], depth + 1)})])
      Present(key, option) == IF option = {} THEN << >> ELSE key :> Or(option, 0)
      components ==
        Present("minecraft:custom_name", {NameComponent(n) : n \in name})
        @@ Present("minecraft:damage", {Val("int", d) : d \in damage})
        @@ Present("minecraft:enchantments", Ench("enchants"))
        @@ Present("minecraft:stored_enchantments", Ench("stored-enchants"))
        @@ (IF inner = << >> THEN << >> ELSE "minecraft:bundle_contents" :> Val("list", inner))
  IN As("bytes", {value})
     \cup {"id" :> Val("id", i) @@ "count" :> Val("int", Or(count, 1))
             @@ (IF components = << >> THEN << >>
                 ELSE "components" :> Val("compound", components)) : i \in id \ {Air}}

(* The stacks of a container by their slots: an object that maps them, an  *)
(* array, or a string that holds either.                                   *)
Slots(values) ==
  LET given == {Unwrapped(v) : v \in values}
      Indexed(a) == [slot \in 0 .. Len(a) - 1 |-> a[slot + 1]]
  IN Or(As("object", given) \cup {Indexed(a) : a \in As("array", given)}, << >>)

Stack(value) == UNION {ReadItem(c) : c \in ItemCompound(value, 0)}

(* The cells with these stacks, each in the cell that its slot names.      *)
PlaceStacks(cells, stacks, named) ==
  FoldSet(LAMBDA s, acc : Put(acc, named[s], Stack(stacks[s])),
          cells, DOMAIN stacks \cap DOMAIN named)

(* A player file: the whole array first, then what is also stored apart,   *)
(* which wins.                                                             *)
Parse(root, wanted) ==
  LET Snapshot(profile) ==
        LET Of(key) == Slots(Field(profile, <<key>>))
            all == PlaceStacks(<< >>, Of("inventoryContents"),
                     [s \in 0 .. 40 |-> CellOf(IF s < 36 THEN s
                                                 ELSE IF s < 40 THEN 100 + (s - 36) ELSE -106)])
            armed == PlaceStacks(all, Of("armorContents"),
                       [s \in 0 .. 3 |-> CellOf(100 + s)])
            held == Put(armed, {<<"offhand", 0>>},
                        UNION {Stack(v) : v \in Field(profile, <<"offHandItem">>)})
            stats == Or(UNION {ObjectOf(v) : v \in Field(profile, <<"stats">>)}, << >>)
            sources == <<stats, profile>>
            location == UNION {ObjectOf(v) : v \in Field(profile, <<"lastLocation">>)}
            coords == [i \in 1 .. 3 |-> UNION {Number(v) : v \in At(location, <<"x", "y", "z">>[i])}]
        IN [cells |-> PlaceStacks(held, Of("enderChestContents"), EnderCells),
            selected |-> {},
            vitals |-> [f \in VitalFields |->
              CASE f = "Health" -> FirstNumber(sources, <<"hp", "health">>)
                [] f = "foodLevel" -> FirstNumber(sources, <<"fl", "foodLevel", "food">>)
                [] f = "XpLevel" -> FirstNumber(sources, <<"el", "level", "xpLevel">>)
                [] f = "XpP" -> FirstNumber(sources, <<"xp", "exp">>)
                [] f = "Dimension" -> As("string", At(location, "world"))
                [] f = "Pos" -> IF \A i \in 1 .. 3 : coords[i] # {}
                                THEN {[i \in 1 .. 3 |-> Val("int", Or(coords[i], 0))]} ELSE {}
                [] OTHER -> {}]]
  IN {[snapshot |-> Snapshot(c.profile), profile |-> c.name] : c \in ChooseProfile(root, wanted)}

=============================================================================
