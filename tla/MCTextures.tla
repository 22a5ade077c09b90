----------------------------- MODULE MCTextures -----------------------------
(***************************************************************************)
(* Two requests in six worlds.  arrow: the model names a texture no guess  *)
(* finds, and its parent is a file nobody has.  stairs: no model, a shape  *)
(* of a material named in the plural.  oak: a child and its parent fill    *)
(* the same slot, through a reference.  wrenches: two mods have an item of *)
(* one name, one of them only under a longer file name.  shaft: an addon's *)
(* jar before the mod's own.  nothing: an item nobody has, with and        *)
(* without a mirror.                                                       *)
(***************************************************************************)
EXTENDS Textures, TLC

CONSTANTS r1, r2

In(ns, name) == [ns |-> ns, name |-> name]
Model(parent, textures) == [parent |-> parent, textures |-> textures]

Bare == [asks |-> {}, models |-> << >>, mirror |-> {}, web |-> TRUE, jars |-> << >>,
         art |-> << >>, faults |-> 1, cuts |-> 1]

TippedArrow == In(Vanilla, <<"tipped", "arrow">>)
ArrowHead == File(Vanilla, Item, <<"tipped", "arrow", "head">>)
Arrow == [Bare EXCEPT
  !.asks = {TippedArrow},
  !.models = File(Vanilla, Item, TippedArrow.name)
               :> Model(File(Vanilla, Item, <<"generated">>), "layer0" :> <<"file", ArrowHead>>),
  !.mirror = {ArrowHead},
  !.art = TippedArrow :> ArrowHead, !.faults = 2]

BrickStairs == In(Vanilla, <<"brick", "stairs">>)
Bricks == File(Vanilla, Block, <<"bricks">>)
Stairs == [Bare EXCEPT
  !.asks = {BrickStairs}, !.mirror = {Bricks}, !.art = BrickStairs :> Bricks]

Oak == In(Vanilla, <<"oak">>)
OakTop == File(Vanilla, Block, <<"log">>)
Stone == File(Vanilla, Block, <<"stone">>)
Child == [Bare EXCEPT
  !.asks = {Oak},
  !.models = File(Vanilla, Item, Oak.name)
               :> Model(File(Vanilla, Block, <<"cube">>),
                        "all" :> <<"slot", "bark">> @@ "bark" :> <<"file", OakTop>>)
             @@ File(Vanilla, Block, <<"cube">>)
               :> Model(None, "bark" :> <<"file", Stone>>),
  !.mirror = {OakTop, Stone},
  !.art = Oak :> OakTop]

Wrench(ns) == In(ns, <<"wrench">>)
Plain == File("create", Item, <<"wrench">>)
Long(more) == File("mekanism", Item, <<"wrench">> \o more)
Wrenches == [Bare EXCEPT
  !.asks = {Wrench("create"), Wrench("mekanism")},
  !.jars = <<[textures |-> <<Plain>>, models |-> {}],
             [textures |-> <<Long(<<"side", "on">>), Long(<<"side">>)>>, models |-> {}]>>,
  !.art = Wrench("create") :> Plain @@ Wrench("mekanism") :> Long(<<"side">>),
  !.cuts = 0]

Shaft == In("create", <<"shaft">>)
Axis == File("create", Block, <<"axis">>)
Fancy == File("create", Block, <<"shaft", "fancy">>)
Overlay == [Bare EXCEPT
  !.asks = {Shaft},
  !.models = File("create", Item, Shaft.name) :> Model(None, "0" :> <<"file", Axis>>),
  !.jars = <<[textures |-> <<Fancy>>, models |-> {}],
             [textures |-> <<Axis>>, models |-> {File("create", Item, Shaft.name)}]>>,
  !.art = Shaft :> Axis]

Ghost == In(Vanilla, <<"ghost">>)
Nothing == [Bare EXCEPT !.asks = {Ghost}, !.art = Ghost :> None]

MCWorlds == [arrow |-> Arrow, stairs |-> Stairs, oak |-> Child, wrenches |-> Wrenches,
             shaft |-> Overlay, nothing |-> Nothing,
             off |-> [Nothing EXCEPT !.web = FALSE]]
=============================================================================
