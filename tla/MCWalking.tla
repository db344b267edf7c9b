------------------------------ MODULE MCWalking ------------------------------
(***************************************************************************)
(* Values for the constants of Walking: five small rooms.                  *)
(***************************************************************************)
EXTENDS Walking, TLC

CONSTANTS u1, u2, waiter

Chair == 1
Booth == 2
Exit2 == 3
Bed == 4

Thing(type, length, top, pair) ==
  [type |-> type, width |-> 1, length |-> length, top |-> top, pair |-> pair]
Shapes == (Chair :> Thing("seat", 1, 10, 0)) @@ (Booth :> Thing("blocked", 1, 0, Exit2))
       @@ (Exit2 :> Thing("blocked", 1, 0, Booth)) @@ (Bed :> Thing("bed", 2, 10, 0))

Empty == [i \in {} |-> i]
Flat(w, d, walls) == [t \in (0 .. w - 1) \X (0 .. d - 1) |->
                        IF t \in walls THEN "blocked" ELSE "open"]
Level(w, d) == [t \in (0 .. w - 1) \X (0 .. d - 1) |-> 0]
Small(walls) ==
  [width |-> 3, depth |-> 3, public |-> FALSE, base |-> Flat(3, 3, walls), floor |-> Level(3, 3),
   door |-> <<0, 0>>, pool |-> FALSE, water |-> {}, triggers |-> Empty,
   items |-> Empty, bots |-> Empty, goals |-> {}, spots |-> {}, acts |-> {}]
Lie(at, z) == [at |-> at, z |-> z, h |-> 0]
Spot(i, at, z) == [item |-> i, at |-> at, z |-> z]

Seats ==
  [Small({<<1, 1>>, <<2, 0>>, <<0, 2>>}) EXCEPT
     !.items = (Chair :> Lie(<<2, 1>>, 2)),
     !.goals = {<<2, 1>>, <<1, 2>>}, !.acts = {"door", "arm", "items"},
     !.spots = {Spot(Chair, <<2, 1>>, 2), Spot(Chair, <<2, 2>>, 2), Spot(Bed, <<1, 2>>, 4)}]

Booths ==
  [Small({<<0, 1>>, <<2, 2>>}) EXCEPT
     !.items = (Booth :> Lie(<<2, 0>>, 4)) @@ (Exit2 :> Lie(<<0, 2>>, 2)),
     !.goals = {<<2, 1>>}, !.acts = {"door", "items"}]

\* A row of land, the steps, the water, and a cabin behind a door.
Pool ==
  [Small({}) EXCEPT
     !.width = 6, !.depth = 2, !.base = Flat(6, 2, {<<2, 1>>, <<3, 1>>, <<5, 1>>}),
     !.floor = [t \in (0 .. 5) \X (0 .. 1) |-> IF t[1] > 2 /\ t # <<5, 1>> THEN 0 ELSE 2],
     !.public = TRUE, !.pool = TRUE, !.water = ((3 .. 5) \X {0}) \cup {<<4, 1>>},
     !.triggers =
       (<<2, 0>> :> [name |-> "enter", step |-> <<3, 0>>, goal |-> <<4, 0>>]) @@
       (<<3, 0>> :> [name |-> "exit", step |-> <<2, 0>>, goal |-> <<1, 0>>]) @@
       (<<1, 1>> :> [name |-> "curtains", step |-> <<0, 0>>, goal |-> <<1, 0>>]) @@
       (<<0, 1>> :> [name |-> "door", step |-> <<5, 1>>, goal |-> <<0, 0>>]),
     !.goals = {<<1, 1>>, <<2, 0>>, <<3, 0>>, <<0, 1>>}, !.acts = {"door"}]

Bar ==
  [Small({<<1, 1>>}) EXCEPT
     !.public = TRUE, !.base[<<2, 1>>] = "seat",
     !.bots = (waiter :> [at |-> <<2, 2>>, coords |-> <<<<2, 2>>, <<1, 0>>>>, roams |-> FALSE]),
     !.goals = {<<1, 0>>, <<2, 1>>}, !.acts = {"door", "order"}]

Party ==
  [Small({<<1, 1>>}) EXCEPT
     !.items = (Chair :> Lie(<<1, 0>>, 2)), !.goals = {<<1, 0>>}, !.acts = {"poses"}]

Rooms == {Seats, Booths, Pool, Bar, Party}

\* Bounds: nothing is looked at once two stand on a tile or a step was cut off; one
\* teleport at a time.
Bounded == ~room.shared /\ ~room.cut /\ Cardinality(jobs) <= 1

Alike == Permutations(User)
=============================================================================
