------------------------------ MODULE MCViewer ------------------------------
(***************************************************************************)
(* A player with an enchanted, named, worn chestplate of a mod whose name  *)
(* begins with another mod's, a box with a book and a coin in it, and four *)
(* cells to move them between.                                             *)
(***************************************************************************)
EXTENDS ItemData

CONSTANT None

Thing(id, count) == [id |-> id, count |-> count, name |-> {}, colour |-> {}, damage |-> {},
                     ench |-> {}, contents |-> << >>]

Coin == Thing(<<Vanilla, <<"coin">> >>, 3)
Book == [Thing(<<Vanilla, <<"enchanted", "book">> >>, 1) EXCEPT
           !.ench = {Enchantment(<<Vanilla, <<"sharpness">> >>, 2, TRUE)}]
Box == [Thing(<<Vanilla, <<"box">> >>, 1) EXCEPT !.contents = <<Book, Coin>>]
Plate == [Thing(<< <<"iron", "age">>, <<"plate">> >>, 1) EXCEPT
            !.name = {<<"old", "friend">>}, !.colour = {"#ffaa00"}, !.damage = {7},
            !.ench = {Enchantment(<<Vanilla, <<"unbreaking">> >>, 3, FALSE)}]
OldPlate == Thing(<<Vanilla, <<"plate">> >>, 1)

MyCells == {<<"hotbar", 2>>, <<"armour", 1>>, <<"offhand", 0>>, <<"ender", 4>>}
Kit == [c \in MyCells |-> CASE c = <<"armour", 1>> -> Plate
                            [] c = <<"ender", 4>> -> Box
                            [] OTHER -> None]
Spare == <<"hotbar", 2>> :> Coin
Mods == {<<"iron">>, <<"iron", "age">>}
TimeOf == [live |-> 2, saved |-> 3, world |-> 2]
LoginsOf == [live |-> 0, saved |-> 1, world |-> 1]
FewMoves == {<< <<"armour", 1>>, <<"offhand", 0>> >>, << <<"ender", 4>>, <<"hotbar", 2>> >>}
Paths == <<"Inventory", "EnderItems", "equipment", "Health", "Pos">>
MutePaths == {None, "EnderItems"}
=============================================================================
