---------------------------- MODULE ItemFormats ----------------------------
(***************************************************************************)
(* How the game server and the plugin write a player down, known from what *)
(* the code that reads them expects: the server in the layouts of three    *)
(* ages (legacy, components, bare; a file may be converted to the last),   *)
(* in a file and in its replies alike, the plugin in three styles          *)
(* (objects, arrays, strings).  A player is a kit, the stack in each cell, *)
(* and a mood that stands for every vital; a stack is in the form in which *)
(* ReadItem gives it.                                                      *)
(***************************************************************************)
EXTENDS StoredItems

CONSTANTS
  None,
  CreativeKit,     \* what their creative profile holds
  Relic            \* what a converted player still has in a worn slot of old

IsBare(form) == form \in {"bare", "converted"}

Num(n) == Val("int", n)
Pair(key, option, Wrap(_)) == IF option = {} THEN << >> ELSE key :> Wrap(Or(option, 0))
Unless(empty, key, value) == IF empty THEN << >> ELSE key :> value

Named(item) ==
  LET words == Or(item.name, << >>)
      colour == CHOOSE c \in DOMAIN NamedColours : item.colour = {NamedColours[c]}
  IN Val("compound",
       [text |-> Val("string", <<Head(words)>>),
        extra |-> Val("list", [i \in 1 .. Len(words) - 1 |->
                    Val("compound", [text |-> Val("string", <<words[i + 1]>>)])])]
       @@ (IF item.colour = {} THEN << >> ELSE "color" :> Val("string", colour)))

EnchantList(item, isStored) ==
  LET these == {e \in item.ench : e.stored = isStored}
      Entry(e) == Val("compound", [id |-> Val("id", e.id), lvl |-> Num(e.level)])
  IN Val("list", SetToSeq({Entry(e) : e \in these}))

EnchantMap(item, isStored) ==
  LET these == {e \in item.ench : e.stored = isStored}
  IN [id \in {e.id : e \in these} |-> Num((CHOOSE e \in these : e.id = id).level)]

HasEnch(item, isStored) == \E e \in item.ench : e.stored = isStored

RECURSIVE NbtItem(_, _)
NbtItem(form, item) ==
  LET inner == [i \in DOMAIN item.contents |-> NbtItem(form, item.contents[i])]
      Compounds(s) == Val("list", [i \in DOMAIN s |-> Val("compound", s[i])])
      legacyTag ==
        Unless(item.name = {}, "display",
               Val("compound", [Name |-> IF item.colour = {} THEN Val("string", Or(item.name, << >>))
                                         ELSE Val("json", Named(item))]))
        @@ Pair("Damage", item.damage, Num)
        @@ Unless(~HasEnch(item, FALSE), "Enchantments", EnchantList(item, FALSE))
        @@ Unless(~HasEnch(item, TRUE), "StoredEnchantments", EnchantList(item, TRUE))
        @@ Unless(inner = << >>, "BlockEntityTag", Val("compound", [Items |-> Compounds(inner)]))
      Levels(isStored) ==
        IF IsBare(form)
        THEN Val("compound", EnchantMap(item, isStored) @@ Plain("show_in_tooltip") :> Num(1))
        ELSE Val("compound", Plain("levels") :> Val("compound", EnchantMap(item, isStored)))
      components ==
        Unless(item.name = {}, "minecraft:custom_name",
               IF IsBare(form) THEN Named(item) ELSE Val("json", Named(item)))
        @@ Pair("minecraft:damage", item.damage, Num)
        @@ Unless(~HasEnch(item, FALSE), "minecraft:enchantments", Levels(FALSE))
        @@ Unless(~HasEnch(item, TRUE), "minecraft:stored_enchantments", Levels(TRUE))
        @@ Unless(inner = << >>,
                  IF IsBare(form) THEN "minecraft:bundle_contents" ELSE "minecraft:container",
                  IF IsBare(form) THEN Compounds(inner)
                  ELSE Compounds([i \in DOMAIN inner |->
                         [slot |-> Num(i), item |-> Val("compound", inner[i])]]))
  IN "id" :> Val("id", item.id)
     @@ (IF form = "legacy"
         THEN "Count" :> Num(item.count)
              @@ Unless(legacyTag = << >>, "tag", Val("compound", legacyTag))
         ELSE "count" :> Num(item.count)
              @@ Unless(components = << >>, "components", Val("compound", components)))

SlotOf(cell) == CASE cell[1] = "hotbar" -> cell[2]
                  [] cell[1] = "main" -> 9 + cell[2]
                  [] cell[1] = "armour" -> 103 - cell[2]
                  [] cell[1] = "offhand" -> -106
                  [] cell[1] = "ender" -> cell[2]

Filled(kit) == {c \in DOMAIN kit : kit[c] # None}
IsWorn(c) == c[1] \in {"armour", "offhand"}

(* A player's data in a layout.                                            *)
Written(p, form) ==
  LET Entry(c, item) == Val("compound", "Slot" :> Num(SlotOf(c)) @@ NbtItem(form, item))
      List(cs) == LET s == SetToSeq(cs) IN [i \in DOMAIN s |-> Entry(s[i], p.kit[s[i]])]
      carried == {c \in Filled(p.kit) : c[1] # "ender"}
      worn == {c \in carried : IsWorn(c)}
      relics == LET s == SetToSeq(worn) IN [i \in DOMAIN s |-> Entry(s[i], Relic)]
      Key(c) == CHOOSE k \in DOMAIN Worn : Worn[k] = c
      apart == IsBare(form)
  IN [Inventory |-> Val("list", IF form = "converted" THEN List(carried \ worn) \o relics
                                ELSE List(IF apart THEN carried \ worn ELSE carried)),
      EnderItems |-> Val("list", List({c \in Filled(p.kit) : c[1] = "ender"})),
      SelectedItemSlot |-> Num(0),
      Health |-> Num(p.mood), foodLevel |-> Num(p.mood), XpLevel |-> Num(p.mood),
      XpP |-> Num(p.mood), Score |-> Num(p.mood), playerGameType |-> Num(0),
      Dimension |-> Val("string", "overworld"),
      Pos |-> Val("list", <<Num(p.mood), Num(0), Num(0)>>)]
     @@ (IF ~apart THEN << >>
         ELSE "equipment" :> Val("compound",
                [k \in {Key(c) : c \in worn} |-> Val("compound", NbtItem(form, p.kit[Worn[k]]))]))

(* One stored stack: an object, or the bytes of its NBT.                   *)
JsonItem(form, item) ==
  LET Levels(isStored) ==
        LET these == EnchantMap(item, isStored)
        IN Val("object", [id \in DOMAIN these |-> Val("number", these[id].v)])
      meta == Unless(item.name = {}, "display-name", Val("json", Named(item)))
              @@ Pair("Damage", item.damage, LAMBDA d : Val("number", d))
              @@ Unless(~HasEnch(item, FALSE), "enchants", Levels(FALSE))
              @@ Unless(~HasEnch(item, TRUE), "stored-enchants", Levels(TRUE))
              @@ Unless(item.contents = << >>, "items",
                   Val("array", [i \in DOMAIN item.contents |->
                     Val("bytes", NbtItem("components", item.contents[i]))]))
      flat == << << >>, (IF item.id[1] = Vanilla THEN << >> ELSE item.id[1]) \o item.id[2] >>
  IN IF form = "arrays" THEN Val("bytes", NbtItem("components", item))
     ELSE Val("object", [type |-> Val("id", flat), amount |-> Val("number", item.count)]
                        @@ Unless(meta = << >>, "meta", Val("object", meta)))

BukkitSlot(c) == CASE c[1] = "armour" -> 39 - c[2]
                   [] c[1] = "offhand" -> 40
                   [] OTHER -> SlotOf(c)

JsonProfile(p, form) ==
  LET Wrap(v) == IF form = "strings" THEN Val("json", v) ELSE v
      Slotted(cs, To(_)) ==
        Val("object", [n \in {To(c) : c \in cs} |->
              JsonItem(form, p.kit[CHOOSE c \in cs : To(c) = n])])
      Listed(cs, To(_), size) ==
        Val("array", [i \in 1 .. size |->
              IF \E c \in cs : To(c) = i - 1
              THEN JsonItem(form, p.kit[CHOOSE c \in cs : To(c) = i - 1]) ELSE Val("null", 0)])
      Container(cs, To(_), size) ==
        IF form = "arrays" THEN Listed(cs, To, size) ELSE Wrap(Slotted(cs, To))
      ender == {c \in Filled(p.kit) : c[1] = "ender"}
      n == Val("number", p.mood)
  IN [inventoryContents |-> Container(Filled(p.kit) \ ender, BukkitSlot, 41),
      armorContents |-> Container({c \in Filled(p.kit) : c[1] = "armour"}, LAMBDA c : 3 - c[2], 4),
      enderChestContents |-> Container(ender, SlotOf, EnderSlots),
      stats |-> Wrap(Val("object", [hp |-> n, fl |-> n, el |-> n, xp |-> n])),
      lastLocation |-> Wrap(Val("object", [world |-> Val("string", "overworld"),
                              x |-> n, y |-> Val("number", 0), z |-> Val("number", 0)]))]
     @@ (IF \A c \in Filled(p.kit) : c[1] # "offhand" THEN << >>
         ELSE "offHandItem" :> JsonItem(form, p.kit[<<"offhand", 0>>]))

Creative == [kit |-> CreativeKit, mood |-> 0]

(* A player file of the plugin: profiles by game mode, or one by itself.   *)
WrittenJson(p, form) ==
  IF form = "strings" THEN Val("object", JsonProfile(p, form))
  ELSE Val("object", [SURVIVAL |-> Val("object", JsonProfile(p, form)),
                      CREATIVE |-> Val("object", JsonProfile(Creative, form))])

=============================================================================
