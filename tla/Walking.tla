------------------------------- MODULE Walking -------------------------------
(***************************************************************************)
(* One loaded room: who stands where.                                      *)
(*                                                                         *)
(* Users and bots walk a tile at a time, in the turn that the room's cycle *)
(* gives them.  A table of flags, sq_unit, says which tiles are taken.     *)
(* Doors, teleporters, triggers of a pool and moderators' commands move    *)
(* users without walking; furniture changes what a tile is while somebody  *)
(* stands on it.  Everything here changes the copy of the room in one      *)
(* step: what happens when two copies cross is in RoomRegistry.            *)
(*                                                                         *)
(* Sources: virtuals/rooms/virtual_room.rs, items/floor_item_manager.rs,   *)
(* pathfinder/pathfinder.rs, bots/virtual_bot.rs, session_impl.rs          *)
(* (room_walk_to_square .. room_toggle_floor_item, room_enter_teleporter,  *)
(* run_same_room_teleporter_use), managers/room_manager.rs (room cycle).   *)
(***************************************************************************)
EXTENDS Integers, Sequences, FiniteSets, FiniteSetsExt, SequencesExt

CONSTANTS
  User, Bot, Item,
  Shape,          \* the template of an item: type, width, length, height of
                  \* what is put on it, and the other one if it is a teleporter (or 0)
  Sips, MaxTimers,   \* statuses_carryitem_sipamount; bound: tasks at once
  MaxStack,       \* items_stacking_maxstackheight, in tenths as all heights
  Plans           \* rooms: the model, the items in it, the bots, and for each
                  \* plan the inputs that are looked at (goals, spots, acts)

Nowhere == <<-1, -1>>
NoUser == "nobody"
Tile == Nat \X Nat
Square == {"open", "blocked", "seat", "bed", "rug"}
Pose == {"sit", "lay", "swim", "dance", "wave", "sign", "carryd", "drink"}
InHand == {"carryd", "drink"}

TilesOf(p) == (0 .. p.width - 1) \X (0 .. p.depth - 1)

\* On a map this small or smaller the search would not find the tile next door.
SearchLimit(p) == (p.width - 1) * (p.depth - 1)

ASSUME WalkingAssumption ==
  /\ IsFiniteSet(User) /\ NoUser \notin User /\ IsFiniteSet(Bot)
  /\ IsFiniteSet(Item) /\ Item \subseteq Nat \ {0}
  /\ Sips \in Nat /\ MaxTimers \in Nat /\ MaxStack \in Nat
  /\ Shape \in [Item -> [type : Square \ {"open"}, width : Nat \ {0}, length : Nat \ {0},
                         top : Nat, pair : Nat]]

\* load: furniture is read for guest rooms only; triggers, the pool, and seats that are
\* part of the model (in base) for public rooms only.  Bots start on the map.
ASSUME PlansAssumption ==
  \A p \in Plans :
    /\ SearchLimit(p) > 2 /\ p.width \in Nat /\ p.depth \in Nat /\ p.door \in TilesOf(p)
    /\ p.base \in [TilesOf(p) -> Square] /\ p.floor \in [TilesOf(p) -> Nat]
    /\ p.public \in BOOLEAN /\ p.pool \in BOOLEAN
    /\ DOMAIN p.items \subseteq Item /\ (p.public => DOMAIN p.items = {})
    /\ \A i \in DOMAIN p.items : p.items[i].at \in TilesOf(p) /\ p.items[i].h \in 0 .. MaxStack
    /\ p.pool \/ DOMAIN p.triggers # {} => p.public
    /\ \A t \in DOMAIN p.triggers :
         p.triggers[t].step \in Int \X Int /\ p.triggers[t].goal \in Int \X Int
    /\ DOMAIN p.bots \subseteq Bot
    /\ \A b \in DOMAIN p.bots :
         /\ p.bots[b].at \in TilesOf(p) /\ p.bots[b].roams \in BOOLEAN
         /\ p.bots[b].coords \in Seq((Int \X Int) \ {Nowhere})
    /\ p.goals \subseteq Int \X Int /\ \A s \in p.spots : s.at \in Int \X Int

\* Where one comes to stand in a room without furniture: the tiles of the model that are
\* not blocked, and where triggers lead.
Ground(p) ==
  {t \in TilesOf(p) : \/ t = p.door \/ p.base[t] # "blocked"
                     \/ \E x \in DOMAIN p.triggers : t = p.triggers[x].step}

\* The water of a pool, laid out as in the rooms that come with the server: at its edge
\* the floor falls by more than one climbs in a step, and it is left and entered where
\* the triggers lead in and out.
ASSUME WaterAssumption ==
  \A p \in Plans :
    /\ p.water \subseteq TilesOf(p) \ {p.door} /\ (p.water # {} => p.public)
    /\ \A s \in Ground(p) \cap p.water, t \in Ground(p) \ p.water :
         s[1] - t[1] \in -1 .. 1 /\ s[2] - t[2] \in -1 .. 1
           => p.floor[s] - p.floor[t] \notin -1 .. 1
    /\ \A t \in DOMAIN p.triggers \cap Ground(p) : LET leads == p.triggers[t] IN
         leads.name # "curtains" =>
           /\ leads.step \in TilesOf(p)
           /\ (leads.step \in p.water <=> leads.name = "enter")
           /\ leads.name = "door" => t \notin p.water

VARIABLES
  plan,       \* which room it is; it does not change
  room,       \* the table's copy: users in it, their avatars, bots, sq_unit
  items,      \* the floor items that lie in the room
  jobs,       \* teleports in the room that wait out their half second
  timers      \* tasks that wait to take a status away again

vars == <<plan, room, items, jobs, timers>>

Tiles == TilesOf(plan)
Here == Range(room.present)

-----------------------------------------------------------------------------
(* The map                                                                 *)

\* The tiles under an item that is 1 x 2 or so and turned to z.
Footprint(i, at, z) ==
  LET s == Shape[i]
      across == IF z \in {2, 6} THEN s.width ELSE s.length
      along == IF z \in {2, 6} THEN s.length ELSE s.width
  IN (at[1] .. at[1] + across - 1) \X (at[2] .. at[2] + along - 1)
Under(I, i) == Footprint(i, I[i].at, I[i].z)

\* Items lie in the order of their heights, then of their ids.
Above(I, i, j) == I[i].h > I[j].h \/ (I[i].h = I[j].h /\ i >= j)
Lying(I, t) == {i \in DOMAIN I : t \in Under(I, i)}
TopItem(I, t) == CHOOSE i \in Lying(I, t) : \A j \in Lying(I, t) : Above(I, i, j)

\* rebuild_floor_item_map: the last item on a tile decides, but for the door.
StateOf(I, t) ==
  IF t = plan.door THEN "open"
  ELSE IF Lying(I, t) = {} THEN plan.base[t]
  ELSE Shape[TopItem(I, t)].type
State(t) == StateOf(items, t)

\* compute_floor_item_height: where it fits, and how high it comes to lie.
Fits(I, units, i, at, z) ==
  /\ Footprint(i, at, z) \subseteq Tiles
  /\ \A t \in Footprint(i, at, z) :
       /\ t \in units => Shape[i].type = "seat"
       /\ StateOf(I, t) \notin {"seat", "bed"}
       /\ StateOf(I, t) = "blocked" =>
            /\ Lying(I, t) # {}
            /\ Shape[TopItem(I, t)].top > 0
            /\ Shape[TopItem(I, t)].type \notin {"seat", "bed"}
TopOf(I, t) == I[TopItem(I, t)].h + Shape[TopItem(I, t)].top
HeightAt(I, i, at, z) ==
  LET first == IF Lying(I, at) = {} THEN 10 * plan.floor[at] ELSE TopOf(I, at)
      on == {t \in Footprint(i, at, z) : Lying(I, t) # {}}
      solid == {TopOf(I, t) : t \in {x \in on : StateOf(I, x) = "blocked"}}
      rugs == {I[TopItem(I, t)].h + 1 : t \in {x \in on : StateOf(I, x) = "rug"}}
      h == Max({first} \cup solid \cup rugs)
  IN IF h < MaxStack THEN h ELSE MaxStack

-----------------------------------------------------------------------------
(* The pathfinder                                                          *)

\* Seats and beds are closed but to those who want to go there.
OpenTiles(r, goal, soft) ==
  {t \in Tiles \ r.units : State(t) \in {"open", "rug"} \/ (t = goal /\ State(t) \in soft)}

\* The four neighbours, and the diagonal ones past corners that are free; the tiles
\* that are asked about at the fourth corner are those of another one.
Neighbours(open, t) ==
  LET free(dx, dy) == <<t[1] + dx, t[2] + dy>> \in open
      may == {<<-1, 0>>, <<1, 0>>, <<0, -1>>, <<0, 1>>}
             \cup {d \in {<<-1, -1>>} : free(0, -1) /\ free(-1, 0)}
             \cup {d \in {<<1, -1>>} : free(0, -1) /\ free(1, 0)}
             \cup {d \in {<<1, 1>>} : free(1, 0) /\ free(0, 1)}
             \cup {d \in {<<-1, 1>>} : free(-1, 0) /\ free(0, -1)}
  IN {n \in {<<t[1] + d[1], t[2] + d[2]>> : d \in may} \cap open :
        plan.floor[n] - plan.floor[t] \in -1 .. 1}

\* The tiles from which the goal can be reached without coming back to where one is.
Reaching(open, from, goal) ==
  LET near == [t \in open |-> Neighbours(open, t)]
      within[k \in Nat] ==
        IF k = 0 THEN {goal}
        ELSE LET w == within[k - 1]
             IN w \cup {t \in open \ {from} : near[t] \cap w # {}}
  IN within[Cardinality(open)]

\* get_next: the first tile of some path to the goal.  The search looks at a limited
\* number of tiles, and may give up on any goal that is not next door.
NextSteps(open, at, goal) ==
  LET next == Neighbours(open, at) IN
  IF at = goal THEN {}
  ELSE IF goal \in next THEN {goal}
  ELSE IF goal \notin open THEN {}
  ELSE next \cap Reaching(open, at, goal)
MayStop(open, at, goal) == at = goal \/ goal \notin Neighbours(open, at)

-----------------------------------------------------------------------------
(* Avatars, bots and the table of taken tiles                              *)

\* turned, flown and slid are history: set aside on the way to the door; put somewhere
\* by a teleport; moved without walking since the last step; locked with nobody to
\* unlock it; statuses that nobody is to take away.
Avatar == [at : Tile \cup {Nowhere}, goal : Int \X Int, pending : Tile \cup {Nowhere},
           again : BOOLEAN, lock : BOOLEAN, toDoor : BOOLEAN, armed : BOOLEAN,
           outfit : BOOLEAN, poses : SUBSET Pose,
           turned : BOOLEAN, flown : BOOLEAN, slid : BOOLEAN, lost : BOOLEAN,
           forever : SUBSET Pose]
NewAvatar(at, outfit) ==
  [at |-> at, goal |-> Nowhere, pending |-> Nowhere, again |-> FALSE, lock |-> FALSE,
   toDoor |-> FALSE, armed |-> FALSE, outfit |-> outfit, poses |-> {},
   turned |-> FALSE, flown |-> FALSE, slid |-> FALSE, lost |-> FALSE,
   forever |-> {}]
Absent == NewAvatar(Nowhere, FALSE)

NoTimer == [user |-> NoUser, what |-> "none", left |-> 0, sips |-> FALSE]
Drop(a) == [a EXCEPT !.poses = @ \ InHand, !.forever = @ \ {"carryd"}]

\* The room as it is loaded.  shared, cut and stuck are history: somebody was put on a
\* taken tile; a step was cut off before it was made; bots that could not reach the
\* place where they serve.
Loaded(p) ==
  [present |-> <<>>, user |-> [u \in User |-> Absent],
   bots |-> [b \in DOMAIN p.bots |->
              [at |-> p.bots[b].at, goal |-> Nowhere, customer |-> NoUser]],
   units |-> {p.bots[b].at : b \in DOMAIN p.bots},
   shared |-> \E b, c \in DOMAIN p.bots : b # c /\ p.bots[b].at = p.bots[c].at,
   cut |-> FALSE, stuck |-> {}, exits |-> {}]

Init ==
  /\ plan \in Plans /\ items = plan.items
  /\ room = Loaded(plan) /\ jobs = {} /\ timers = [k \in 1 .. MaxTimers |-> NoTimer]

\* The tile that an avatar keeps: where it stands, or where it is about to step.
Keeps(a) == IF a.pending # Nowhere THEN a.pending ELSE a.at
Taken(r, u) ==
  {Keeps(r.user[v]) : v \in Range(r.present) \ {u}}
    \cup {r.bots[b].at : b \in DOMAIN r.bots}

\* sq_unit goes from one tile to the next, whoever else is there.
Retake(r, u, from, to) ==
  [r EXCEPT !.units = (@ \ {from}) \cup {to},
            !.shared = @ \/ to \in Taken(r, u)]
Put(r, u, a) == [r EXCEPT !.user[u] = a]
BreaksOff(r, u) == [r EXCEPT !.cut = @ \/ r.user[u].pending # Nowhere]

\* move_user_single_step: the flag goes ahead, the avatar follows in the next cycle.
SingleStep(r, u, to, again) ==
  LET a == r.user[u] IN
  IF to \notin Tiles THEN r
  ELSE Put(Retake(BreaksOff(r, u), u, a.at, to), u,
           [a EXCEPT !.pending = to, !.again = again, !.poses = @ \ {"sit"}, !.slid = TRUE])

\* The list of users keeps the order in which they came.
AddRoomUser(r, u, a) ==
  LET s == [r EXCEPT !.present = Append(@, u), !.units = @ \cup {a.at},
                     !.shared = @ \/ a.at \in Taken(r, u)]
  IN Put(s, u, a)
RemoveRoomUser(r, u) ==
  LET s == BreaksOff(r, u) IN
  Put([s EXCEPT !.present = RemoveFirst(@, u), !.units = @ \ {s.user[u].at}], u, Absent)

\* The room of the last one who leaves is dropped, and read again for the next one.
Kept(r) == IF r.present = <<>> THEN Loaded(plan) ELSE r

\* refresh_coord, for the first one who stands on each of the tiles.
RefreshCoords(r, I, coords) ==
  LET first(t) == SelectInSeq(r.present, LAMBDA v : r.user[v].at = t)
      found == {r.present[first(t)] : t \in {x \in coords : first(x) > 0}}
      pose(a) == CASE StateOf(I, a.at) = "seat" -> a.poses \cup {"sit"}
                   [] StateOf(I, a.at) = "bed" -> a.poses \cup {"lay"}
                   [] OTHER -> a.poses \ {"sit", "lay"}
      seen(u) == [r.user[u] EXCEPT !.poses = pose(r.user[u])]
  IN [r EXCEPT !.user = [u \in User |-> IF u \in found THEN seen(u) ELSE r.user[u]]]

-----------------------------------------------------------------------------
(* The cycle of the room                                                   *)

\* The step that was announced in the last cycle.
Commit(r, u) ==
  LET a == r.user[u]
      sits == a.again /\ State(a.pending) = "seat"
  IN Put(r, u, [a EXCEPT !.at = a.pending, !.pending = Nowhere, !.again = FALSE,
                  !.poses = IF sits THEN (@ \ {"dance"}) \cup {"sit"} ELSE @])

\* Mutant: the tile that is left stays taken.
StepUntaken(r, u, to) ==
  LET a == r.user[u]
      pose == CASE State(to) = "seat" -> {"sit"} [] State(to) = "bed" -> {"lay"}
                [] OTHER -> {}
  IN Put([r EXCEPT !.units = @ \cup {to}], u,
         [a EXCEPT !.at = to, !.slid = FALSE, !.poses = (@ \ {"sit", "lay"}) \cup pose])

StepTo(r, u, to) ==
  LET a == r.user[u]
      pose == CASE State(to) = "seat" -> {"sit"} [] State(to) = "bed" -> {"lay"}
                [] OTHER -> {}
      over == {"sit", "lay"} \cup (IF pose = {} THEN {} ELSE {"dance"})
  IN Put(Retake(r, u, a.at, to), u,
         [a EXCEPT !.at = to, !.slid = FALSE, !.poses = (@ \ over) \cup pose])

\* A walk that ends asks what there is under the feet.  The door of a pool takes the
\* user away for good; the steps into and out of the water lead on to another goal.
Trigger(a) == plan.triggers[a.at].name
\* Mutant: out of the water one swims on.
DiveOn(r, u) ==
  LET a == r.user[u]
      t == plan.triggers[a.at]
  IN SingleStep(Put(r, u, [a EXCEPT !.goal = t.goal, !.turned = a.toDoor,
                            !.poses = @ \cup {"swim"}]), u, t.step, FALSE)

DiveIn(r, u) ==
  LET a == r.user[u]
      t == plan.triggers[a.at]
  IN IF t.name = "door"
       THEN SingleStep(Put(r, u, [a EXCEPT !.lock = TRUE, !.lost = TRUE, !.turned = a.toDoor]),
                       u, t.step, TRUE)
     ELSE SingleStep(Put(r, u, [Drop(a) EXCEPT !.goal = t.goal, !.turned = a.toDoor,
                            !.poses = IF t.name = "enter" THEN @ \cup {"swim"}
                                      ELSE @ \ {"swim"}]),
                     u, t.step, FALSE)

Stop(r, u) ==
  LET a == [r.user[u] EXCEPT !.goal = Nowhere]
      on == a.at \in DOMAIN plan.triggers
      done == [a EXCEPT !.toDoor = FALSE]
  IN IF ~on THEN [Put(r, u, done) EXCEPT !.exits = IF a.toDoor THEN @ \cup {u} ELSE @]
     ELSE IF ~plan.pool THEN Put(r, u, done)
     ELSE IF Trigger(a) = "curtains" THEN Put(r, u, [done EXCEPT !.lock = TRUE])
     ELSE IF a.outfit THEN DiveIn(Put(r, u, a), u)
     ELSE Put(r, u, done)

Walks(r, u) ==
  LET a == r.user[u]
      open == OpenTiles(r, a.goal, {"seat", "bed"})
  IN IF a.goal = Nowhere THEN {r}
     ELSE {StepTo(r, u, n) : n \in NextSteps(open, a.at, a.goal)}
          \cup (IF MayStop(open, a.at, a.goal) THEN {Stop(r, u)} ELSE {})
UserTurn(r, u) ==
  IF r.user[u].pending = Nowhere THEN Walks(r, u)
  ELSE IF r.user[u].again THEN {Commit(r, u)}
  ELSE Walks(Commit(r, u), u)

-----------------------------------------------------------------------------
(* Bots                                                                    *)

CanStand(t) == t \in Tiles /\ State(t) \notin {"blocked", "bed"}
Beat(b) == plan.bots[b].coords
Targets(b) == {t \in IF plan.bots[b].roams THEN Tiles ELSE Range(Beat(b)) : CanStand(t)}
PutBot(r, b, x) == [r EXCEPT !.bots[b] = x]

\* run_bot_ai_action: now and then a bot without an order sets out for somewhere.
SetsOut(r, b) ==
  {r} \cup {PutBot(r, b, [r.bots[b] EXCEPT !.goal = t]) : t \in Targets(b) \ {r.bots[b].at}}

BotStepTo(r, b, to) ==
  LET x == r.bots[b]
  IN [PutBot(r, b, [x EXCEPT !.at = to]) EXCEPT !.units = (@ \ {x.at}) \cup {to}]

\* Mutant: the order is not crossed out once it was served.
ServeAgain(r, b) == PutBot(r, b, [r.bots[b] EXCEPT !.goal = Nowhere])

\* finish_bot_order, at the place where the bot serves, for a customer who is still, or
\* again, in the room; elsewhere it gives up the walk but not the order.
Serve(r, u) ==
  IF u \notin Range(r.present) THEN r
  ELSE Put(r, u, [r.user[u] EXCEPT !.poses = @ \cup {"carryd"},
                                   !.forever = @ \cup {"carryd"}])
BotStop(r, b) ==
  LET x == r.bots[b]
      waits == x.customer # NoUser
  IN IF x.at = x.goal
       THEN PutBot(Serve(r, x.customer), b, [x EXCEPT !.goal = Nowhere, !.customer = NoUser])
     ELSE [PutBot(r, b, [x EXCEPT !.goal = Nowhere]) EXCEPT
             !.stuck = IF waits THEN @ \cup {b} ELSE @]

BotWalks(r, b) ==
  LET x == r.bots[b]
      open == OpenTiles(r, x.goal, {"seat"})
  IN IF x.goal = Nowhere THEN {r}
     ELSE {BotStepTo(r, b, n) : n \in NextSteps(open, x.at, x.goal)}
          \cup (IF MayStop(open, x.at, x.goal) THEN {BotStop(r, b)} ELSE {})
BotTurn(r, b) ==
  IF r.bots[b].goal = Nowhere /\ r.bots[b].customer = NoUser
    THEN UNION {BotWalks(s, b) : s \in SetsOut(r, b)}
    ELSE BotWalks(r, b)

\* process_bot_chat: every bot near who hears its word and has no order takes this one,
\* and goes to that place of its beat that is nearest to the customer.
Gap(m, n) == Max({m - n, n - m})
Distance(s, t) == Gap(s[1], t[1]) + Gap(s[2], t[2])
Near(s, t) == Gap(s[1], t[1]) < 6 /\ Gap(s[2], t[2]) < 6
Nearest(b, t) ==
  Beat(b)[Min({n \in DOMAIN Beat(b) :
    \A m \in DOMAIN Beat(b) : Distance(Beat(b)[n], t) <= Distance(Beat(b)[m], t)})]
Order(u) ==
  LET at == room.user[u].at
      hear(b) == Near(room.bots[b].at, at) /\ room.bots[b].customer = NoUser /\ Beat(b) # <<>>
  IN /\ "order" \in plan.acts /\ u \in Here
     /\ room' = [room EXCEPT !.bots = [b \in DOMAIN room.bots |->
          IF hear(b) THEN [room.bots[b] EXCEPT !.goal = Nearest(b, at), !.customer = u]
          ELSE room.bots[b]]]
     /\ UNCHANGED <<plan, items, jobs, timers>>

-----------------------------------------------------------------------------
(* process_status_cycle                                                    *)

InTurn(S, T(_, _), seq) == FoldLeft(LAMBDA R, x : UNION {T(r, x) : r \in R}, S, seq)
Exit(r) ==
  [FoldSet(LAMBDA u, s : RemoveRoomUser(s, u), r, r.exits) EXCEPT !.exits = {}]

Cycle ==
  /\ room.present # <<>>
  /\ \E r \in InTurn(InTurn({room}, UserTurn, room.present), BotTurn,
                     SetToSeq(DOMAIN room.bots)) :
       room' = Kept(Exit(r))
  /\ UNCHANGED <<plan, items, jobs, timers>>

-----------------------------------------------------------------------------
(* Coming and going                                                        *)

May(u, act) == u \in Here /\ act \in plan.acts
Does(r) == room' = r /\ UNCHANGED <<plan, items, jobs, timers>>
My(u) == room.user[u]

\* By the door, or out of a teleporter.
Enter(u, at) ==
  /\ u \notin Here
  /\ \/ at = plan.door
     \/ \E i \in DOMAIN items : Shape[i].pair # 0 /\ at = items[i].at
  /\ \E outfit \in {plan.pool, FALSE} : Does(AddRoomUser(room, u, NewAvatar(at, outfit)))

\* leave_room, cleanup, a kick.
Leave(u) == u \in Here /\ Does(Kept(RemoveRoomUser(room, u)))

ClickDoor(u) ==
  /\ May(u, "door") /\ ~My(u).toDoor
  /\ Does(Put(room, u, [My(u) EXCEPT !.toDoor = TRUE, !.goal = plan.door,
                                     !.turned = FALSE]))

-----------------------------------------------------------------------------
(* Walking, and being moved                                                *)

\* teleport_user_to_tile: what the avatar was doing is not undone, and a step that is
\* pending will still be made.
TeleportTo(r, u, t) ==
  LET a == r.user[u] IN
  IF t \notin Tiles \/ State(t) = "blocked" THEN Put(r, u, [a EXCEPT !.armed = FALSE])
  ELSE Put(Retake(BreaksOff(r, u), u, a.at, t), u,
           [a EXCEPT !.at = t, !.goal = Nowhere, !.lock = FALSE, !.armed = FALSE,
              !.turned = TRUE, !.flown = TRUE, !.slid = TRUE, !.lost = FALSE])

\* ":teleport" without a name: the next click teleports.
Arm(u) == May(u, "arm") /\ Does(Put(room, u, [My(u) EXCEPT !.armed = TRUE]))

Walk(u, t) ==
  /\ u \in Here /\ ~My(u).lock
  /\ Does(IF My(u).armed THEN TeleportTo(room, u, t)
          ELSE Put(room, u, [My(u) EXCEPT !.goal = t, !.turned = TRUE]))

\* A click to look somewhere teleports too, and whoever is locked.
Rotate(u, t) == u \in Here /\ My(u).armed /\ Does(TeleportTo(room, u, t))

SelectOutfit(u) ==
  LET a == My(u) IN
  /\ u \in Here /\ plan.pool /\ a.at \in DOMAIN plan.triggers /\ Trigger(a) = "curtains"
  /\ Does(Put(room, u, [a EXCEPT !.outfit = TRUE, !.lock = FALSE, !.lost = FALSE,
                          !.goal = plan.triggers[a.at].goal, !.turned = TRUE]))

\* From the tile in front of it, which depends on how the teleporter is turned.
Entrance(i) ==
  CASE items[i].z = 2 -> <<items[i].at[1] + 1, items[i].at[2]>>
    [] items[i].z = 4 -> <<items[i].at[1], items[i].at[2] + 1>>
    [] OTHER -> Nowhere
IsTeleporter(i) == i \in DOMAIN items /\ Shape[i].pair # 0
EnterTeleporter(u, i) ==
  /\ u \in Here /\ IsTeleporter(i) /\ My(u).at = Entrance(i)
  /\ Does(SingleStep(Put(room, u, [My(u) EXCEPT !.goal = Nowhere, !.turned = TRUE]),
                     u, items[i].at, TRUE))

UseTeleporter(u, i) ==
  /\ u \in Here /\ IsTeleporter(i) /\ My(u).at = items[i].at
  /\ Shape[i].pair \in DOMAIN items
  /\ room' = Put(room, u, [My(u) EXCEPT !.lock = TRUE])
  /\ jobs' = jobs \cup {<<u, Shape[i].pair>>}
  /\ UNCHANGED <<plan, items, timers>>

\* Mutant: who arrives stays locked.
ArriveLocked(r, u, t) ==
  Put(Retake(BreaksOff(r, u), u, r.user[u].at, t), u,
      [r.user[u] EXCEPT !.at = t, !.goal = Nowhere, !.turned = TRUE, !.flown = TRUE,
                        !.slid = TRUE, !.lost = FALSE])

\* teleport_user_to_floor_item
Arrive(r, u, t) ==
  Put(Retake(BreaksOff(r, u), u, r.user[u].at, t), u,
      [r.user[u] EXCEPT !.at = t, !.goal = Nowhere, !.lock = FALSE, !.turned = TRUE,
                        !.flown = TRUE, !.slid = TRUE, !.lost = FALSE])

\* run_same_room_teleporter_use, half a second later: the user may have come anew, and
\* if the other teleporter is gone nobody unlocks the one who waits.
Teleported(u, i) ==
  /\ <<u, i>> \in jobs /\ jobs' = jobs \ {<<u, i>>}
  /\ room' = IF u \notin Here THEN room
             ELSE IF i \in DOMAIN items THEN Arrive(room, u, items[i].at)
             ELSE Put(room, u, [My(u) EXCEPT !.lost = My(u).lock])
  /\ UNCHANGED <<plan, items, timers>>

-----------------------------------------------------------------------------
(* Statuses                                                                *)

Posing(u, a, what) ==
  LET free == {k \in DOMAIN timers : timers[k] = NoTimer} IN
  /\ room' = Put(room, u, a)
  /\ IF what = "none" THEN UNCHANGED timers
     ELSE /\ free # {}
          /\ timers' = [timers EXCEPT ![Min(free)] =
               [user |-> u, what |-> what, left |-> Sips, sips |-> FALSE]]
  /\ UNCHANGED <<plan, items, jobs>>
Upright(u) == My(u).poses \cap {"sit", "lay"} = {}

Wave(u) ==
  /\ May(u, "poses") /\ "wave" \notin My(u).poses
  /\ Posing(u, [My(u) EXCEPT !.poses = (@ \ {"dance"}) \cup {"wave"}], "wave")

Dance(u) ==
  /\ May(u, "poses") /\ Upright(u)
  /\ Posing(u, [Drop(My(u)) EXCEPT !.poses = @ \cup {"dance"}], "none")

\* status_lido_vote: a sign without a number is not taken away again.
LidoVote(u, bare) ==
  /\ May(u, "poses") /\ Upright(u)
  /\ Posing(u, [My(u) EXCEPT !.poses = @ \cup {"sign"},
                   !.forever = IF bare THEN @ \cup {"sign"} ELSE @],
            IF bare THEN "none" ELSE "sign")

\* Whatever is in the hand already, and whichever task still deals with that.
CarryItem(u) ==
  /\ May(u, "poses") /\ "lay" \notin My(u).poses
  /\ Posing(u, [Drop(My(u)) EXCEPT !.poses = (@ \ {"dance"}) \cup {"carryd"}], "carry")

\* status_stop does not stop the task.
StopStatus(u, what) ==
  /\ May(u, "poses")
  /\ Posing(u, IF what = "carry" THEN Drop(My(u)) ELSE [My(u) EXCEPT !.poses = @ \ {"dance"}],
            "none")

\* remove_status_after_delay
StatusEnds(k) ==
  LET u == timers[k].user
      what == timers[k].what
  IN /\ what \in {"wave", "sign"}
     /\ timers' = [timers EXCEPT ![k] = NoTimer]
     /\ room' = IF u \notin Here THEN room
                ELSE Put(room, u, [My(u) EXCEPT !.poses = @ \ {what}, !.forever = @ \ {what}])
     /\ UNCHANGED <<plan, items, jobs>>

\* Mutant: what was carried is not put down in the end.
LastSip(u) == My(u)
PutDown(u) == Drop(My(u))

\* run_carry_item_cycle: a step of it; it ends when it does not find the user.
Sip(k) ==
  LET u == timers[k].user
      t == timers[k]
      next == [t EXCEPT !.sips = ~@, !.left = IF t.sips THEN @ - 1 ELSE @]
      now == IF t.left = 0 THEN PutDown(u)
             ELSE [My(u) EXCEPT !.poses = (@ \ InHand)
                     \cup (IF t.sips THEN {"drink"} ELSE {"carryd"})]
  IN /\ t.what = "carry"
     /\ timers' = [timers EXCEPT ![k] = IF u \in Here /\ t.left > 0 THEN next ELSE NoTimer]
     /\ room' = IF u \in Here THEN Put(room, u, now) ELSE room
     /\ UNCHANGED <<plan, items, jobs>>

-----------------------------------------------------------------------------
(* Furniture                                                               *)

Laid(I, i, at, z) == [at |-> at, z |-> z, h |-> HeightAt(I, i, at, z)]
With(I, i, x) == [j \in DOMAIN I \cup {i} |-> IF j = i THEN x ELSE I[j]]

\* The items change, and those who stand on the tiles are looked at again.
Rebuild(I, coords) ==
  /\ items' = I /\ room' = RefreshCoords(room, I, coords) /\ UNCHANGED <<plan, jobs, timers>>

PlaceItem(u, i, at, z) ==
  /\ u \in Here /\ ~plan.public /\ i \notin DOMAIN items /\ Fits(items, room.units, i, at, z)
  /\ Rebuild(With(items, i, Laid(items, i, at, z)), Footprint(i, at, z))

\* Mutant: who sits on it is not asked to stand up.
PickUpUnder(u, i) ==
  /\ May(u, "items") /\ ~plan.public /\ i \in DOMAIN items
  /\ Rebuild(Restrict(items, DOMAIN items \ {i}), {})

PickUp(u, i) ==
  /\ May(u, "items") /\ ~plan.public /\ i \in DOMAIN items
  /\ Rebuild(Restrict(items, DOMAIN items \ {i}), Under(items, i))

\* It is taken out of the map before its new place is looked at.
MoveItem(u, i, at, z) ==
  LET rest == Restrict(items, DOMAIN items \ {i}) IN
  /\ u \in Here /\ ~plan.public /\ i \in DOMAIN items /\ Fits(rest, room.units, i, at, z)
  /\ Rebuild(With(rest, i, Laid(rest, i, at, z)), Under(items, i) \cup Footprint(i, at, z))

\* The state that is switched does not change what the tile is.
ToggleItem(u, i) ==
  May(u, "items") /\ i \in DOMAIN items /\ Rebuild(items, Under(items, i))

-----------------------------------------------------------------------------
Spots(i) == {s \in plan.spots : s.item = i}

Next ==
  \/ Cycle
  \/ \E k \in DOMAIN timers : StatusEnds(k) \/ Sip(k)
  \/ \E u \in User :
       \/ \E t \in Tiles : Enter(u, t)
       \/ Leave(u) \/ ClickDoor(u) \/ Arm(u) \/ SelectOutfit(u) \/ Order(u)
       \/ Wave(u) \/ Dance(u) \/ CarryItem(u)
       \/ \E bare \in BOOLEAN : LidoVote(u, bare)
       \/ \E what \in {"carry", "dance"} : StopStatus(u, what)
       \/ \E t \in plan.goals : Walk(u, t) \/ Rotate(u, t)
       \/ \E i \in Item :
            \/ EnterTeleporter(u, i) \/ UseTeleporter(u, i) \/ Teleported(u, i)
            \/ PickUp(u, i) \/ ToggleItem(u, i)
            \/ \E s \in Spots(i) : PlaceItem(u, i, s.at, s.z) \/ MoveItem(u, i, s.at, s.z)

Spec == Init /\ [][Next]_vars

-----------------------------------------------------------------------------
(* Properties                                                              *)

\* The copy of the room is what the code takes it for.
TypeOK ==
  /\ plan \in Plans
  /\ DOMAIN items \subseteq Item
  /\ \A i \in DOMAIN items : items[i].at \in Tiles /\ items[i].h \in 0 .. MaxStack
  /\ jobs \subseteq User \X Item
  /\ room.user \in [User -> Avatar] /\ IsInjective(room.present) /\ Here \subseteq User
  /\ room.units \subseteq Tiles /\ room.exits = {}
  /\ \A u \in User : u \in Here <=> room.user[u] # Absent
  /\ \A b \in DOMAIN room.bots : room.bots[b].at \in Tiles

\* Tiles are flagged as taken just if somebody stands there or is about to: nothing is
\* left behind (unless a step was cut off before it was made), and nobody stands on a
\* tile that is free for others, or two on one (unless somebody was put on a taken one).
Stood == {Keeps(room.user[u]) : u \in Here} \cup {room.bots[b].at : b \in DOMAIN room.bots}
TilesTaken ==
  /\ ~room.cut => room.units \subseteq Stood
  /\ ~room.cut /\ ~room.shared =>
       /\ Stood \subseteq room.units
       /\ Cardinality(Stood) = Len(room.present) + Cardinality(DOMAIN room.bots)

\* Whatever is done with the furniture, who sits has a seat below and who lies a bed
\* (unless the avatar was moved by something else than its legs since).  Only a second
\* status may be left over, where a bed lay on a seat.
Seated ==
  ~room.shared =>
    \A u \in Here : ~My(u).slid /\ My(u).poses \cap {"sit", "lay"} # {} =>
      \/ State(My(u).at) = "seat" /\ "sit" \in My(u).poses
      \/ State(My(u).at) = "bed" /\ "lay" \in My(u).poses

\* Nobody is caught in the room: who is going to leave is walking to the door (unless he
\* was sent elsewhere since: then he leaves from there), and an avatar that does not obey
\* its user is going to leave, waits for a teleport, or stands where outfits are chosen
\* (unless the way out of that was lost).
NotCaught ==
  \A u \in Here :
    /\ My(u).toDoor => My(u).goal = plan.door \/ My(u).turned
    /\ My(u).lock =>
         \/ My(u).lost \/ My(u).toDoor
         \/ \E i \in Item : <<u, i>> \in jobs
         \/ My(u).at \in DOMAIN plan.triggers

\* In the water, and only there, avatars swim (unless a moderator put them there).
Swims ==
  \A u \in Here : ~My(u).flown =>
    ("swim" \in My(u).poses <=> Keeps(My(u)) \in plan.water)

\* Waves, signs and what is in the hand come to an end: somebody is on the way to take
\* them away, whatever else was done meanwhile (unless the user shows a sign without a
\* number, or was served by a bot).
Awaits(u, what) == \E k \in DOMAIN timers : timers[k].user = u /\ timers[k].what = what
StatusesEnd ==
  \A u \in Here :
    /\ \A what \in {"wave", "sign"} \cap My(u).poses :
         what \in My(u).forever \/ Awaits(u, what)
    /\ My(u).poses \cap InHand # {} => "carryd" \in My(u).forever \/ Awaits(u, "carry")

\* A bot with an order is on its way (unless the way was blocked, when it keeps the
\* order for ever and takes no other).
BotOnTheWay ==
  \A b \in DOMAIN room.bots :
    room.bots[b].customer # NoUser => room.bots[b].goal # Nowhere \/ b \in room.stuck
=============================================================================
