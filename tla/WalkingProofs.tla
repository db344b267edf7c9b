---------------------------- MODULE WalkingProofs ----------------------------
(***************************************************************************)
(* Proofs about Walking, for every room, its furniture, bots and users.    *)
(*                                                                         *)
(* The inductive invariant is Inv: what a copy of a room is made of        *)
(* (People), who keeps which tile (Placed), what each avatar obeys and     *)
(* what is to end its statuses (Minds), who sits where (Sits, First), and  *)
(* the orders of the bots (Serves); for the pool, Swimming. All of it is   *)
(* said of a copy r, so that it can be followed through the loops of a     *)
(* cycle, and depends on no variable but the plan: the items I, jobs J and *)
(* timers T are parameters.                                                *)
(*                                                                         *)
(* In this order: the invariant; the copies of a room; what the operations *)
(* make of an avatar, and who keeps which tile; the turn of a user; the    *)
(* bots; the cycle; coming and going; what an action has to show (Fine);   *)
(* the actions, one lemma for each; what lies on a tile and what follows   *)
(* for seats; the invariant and the theorems.                              *)
(***************************************************************************)
EXTENDS Walking, Sums, SequenceTheorems, TLAPS

-----------------------------------------------------------------------------
(* The inductive invariant                                                 *)

In(r) == Range(r.present)
BotState == [at : Tiles, goal : Int \X Int, customer : User \cup {NoUser}]
Room == [present : Seq(User), user : [User -> Avatar],
         bots : [DOMAIN plan.bots -> BotState], units : SUBSET Tiles,
         shared : BOOLEAN, cut : BOOLEAN, stuck : SUBSET Bot, exits : SUBSET User]

\* Who is in the room has one avatar, on the map; a step that was announced leads to a
\* tile of the map, and whoever has one was moved.
Body(a) ==
  a \in Avatar /\ a.at \in Tiles /\ (a.pending # Nowhere => a.pending \in Tiles /\ a.slid)
People(r) ==
  /\ r \in Room /\ IsInjective(r.present) /\ r.exits \subseteq In(r)
  /\ \A u \in In(r) : Body(r.user[u])
  /\ \A u \in User \ In(r) : r.user[u] = Absent

\* Who keeps which tile, and which tiles are flagged.
UserTiles(r) == {Keeps(r.user[u]) : u \in In(r)}
BotTiles(r) == {r.bots[b].at : b \in DOMAIN r.bots}
Apart(r) == \A u, v \in In(r) : Keeps(r.user[u]) = Keeps(r.user[v]) => u = v
BotsApart(r) == \A b, c \in DOMAIN r.bots : r.bots[b].at = r.bots[c].at => b = c
Placed(r) ==
  /\ ~r.cut => r.units \subseteq UserTiles(r) \cup BotTiles(r)
  /\ ~r.shared => Apart(r)
  /\ ~r.cut /\ ~r.shared =>
       /\ UserTiles(r) \cup BotTiles(r) \subseteq r.units
       /\ UserTiles(r) \cap BotTiles(r) = {} /\ BotsApart(r)

\* Who is going to leave heads for the door; who is locked has somebody to unlock him, or
\* stands still on a trigger.
Obeys(J, u, a, out) ==
  /\ a.toDoor => a.goal = plan.door \/ a.turned
  /\ a.lock => \/ a.lost \/ a.toDoor \/ out
               \/ \E i \in Item : <<u, i>> \in J
               \/ a.at \in DOMAIN plan.triggers /\ a.goal = Nowhere /\ a.pending = Nowhere

\* Who swims is in the water, and who is in the water swims; on the ground of the room.
Bathes(a) ==
  ~a.flown /\ plan.public =>
    /\ a.at \in Ground(plan) /\ Keeps(a) \in Ground(plan)
    /\ ("swim" \in a.poses <=> Keeps(a) \in plan.water)
Dry(a) == ~plan.public => "swim" \notin a.poses

\* Somebody is to take a status away again.
Timed(T, u, what) == \E k \in DOMAIN T : T[k].user = u /\ T[k].what = what
Ends(T, u, a) ==
  /\ "wave" \in a.poses => "wave" \in a.forever \/ Timed(T, u, "wave")
  /\ "sign" \in a.poses => "sign" \in a.forever \/ Timed(T, u, "sign")
  /\ a.poses \cap InHand # {} => "carryd" \in a.forever \/ Timed(T, u, "carry")

\* Who sits has a seat below, and in a room with furniture is the first on his tile: the
\* one who is looked at when the furniture changes.
Lazy(a) == ~a.slid /\ a.poses \cap {"sit", "lay"} # {}
Rests(I, a) ==
  Lazy(a) => \/ StateOf(I, a.at) = "seat" /\ "sit" \in a.poses
             \/ StateOf(I, a.at) = "bed" /\ "lay" \in a.poses
Sits(I, r) == ~r.shared => \A u \in In(r) : Rests(I, r.user[u])
First(r) ==
  ~r.shared /\ ~plan.public =>
    \A j \in DOMAIN r.present : \A i \in 1 .. j - 1 :
      Lazy(r.user[r.present[j]]) => r.user[r.present[i]].at # r.user[r.present[j]].at

Serves(r) ==
  \A b \in DOMAIN r.bots :
    r.bots[b].customer # NoUser => r.bots[b].goal # Nowhere \/ b \in r.stuck

Minds(J, T, r) ==
  \A u \in In(r) : Obeys(J, u, r.user[u], u \in r.exits) /\ Ends(T, u, r.user[u])
Swimming(r) == \A u \in In(r) : Bathes(r.user[u]) /\ Dry(r.user[u])

Items(I) ==
  /\ DOMAIN I \subseteq Item /\ (plan.public => DOMAIN I = {})
  /\ \A i \in DOMAIN I : I[i].at \in Tiles /\ I[i].h \in 0 .. MaxStack
Timer == [user : User \cup {NoUser}, what : {"none", "wave", "sign", "carry"},
          left : Nat, sips : BOOLEAN]
Timers(T) == T \in [1 .. MaxTimers -> Timer] /\ \A k \in DOMAIN T : T[k].what # "none" => T[k].user \in User

Good(I, J, T, r) ==
  People(r) /\ Placed(r) /\ Minds(J, T, r) /\ Sits(I, r) /\ First(r) /\ Serves(r)

Inv ==
  /\ plan \in Plans /\ Items(items) /\ jobs \subseteq User \X Item /\ Timers(timers)
  /\ room.exits = {} /\ Good(items, jobs, timers, room)
SwimInv == Inv /\ Swimming(room)

-----------------------------------------------------------------------------
(* Copies of a room                                                        *)

\* What one user does changes his avatar, and may put him on the list of those who go.
Changes(r, s, u) ==
  /\ s \in Room /\ s.present = r.present /\ s.bots = r.bots /\ s.stuck = r.stuck
  /\ r.exits \subseteq s.exits /\ s.exits \subseteq r.exits \cup {u}
  /\ \A v \in User \ {u} : s.user[v] = r.user[v]

\* The tile that an avatar keeps stays the same, or it goes to another one.
Still(r, s, u) ==
  /\ s.units = r.units /\ s.shared = r.shared /\ s.cut = r.cut
  /\ Keeps(s.user[u]) = Keeps(r.user[u])
Moves(r, s, u, to) ==
  /\ to \in Tiles /\ s.units = (r.units \ {r.user[u].at}) \cup {to}
  /\ s.shared = (r.shared \/ to \in Taken(r, u))
  /\ s.cut = (r.cut \/ r.user[u].pending # Nowhere)
  /\ \/ Keeps(s.user[u]) = to
     \/ s.cut /\ Keeps(s.user[u]) = Keeps(r.user[u])

LEMMA PutParts ==
  ASSUME NEW r \in Room, NEW u \in User, NEW a \in Avatar
  PROVE  /\ Put(r, u, a) \in Room /\ Put(r, u, a).user = [r.user EXCEPT ![u] = a]
         /\ Put(r, u, a).user[u] = a
         /\ Put(r, u, a).present = r.present /\ Put(r, u, a).bots = r.bots
         /\ Put(r, u, a).stuck = r.stuck /\ Put(r, u, a).exits = r.exits
         /\ Put(r, u, a).units = r.units /\ Put(r, u, a).shared = r.shared
         /\ Put(r, u, a).cut = r.cut
<1> USE DEF Room
<1>1. r.user \in [User -> Avatar]
  OBVIOUS
<1>2. [r.user EXCEPT ![u] = a] \in [User -> Avatar]
  BY <1>1
<1>3. Put(r, u, a) = [r EXCEPT !.user = [r.user EXCEPT ![u] = a]]
  BY DEF Put
<1> QED
  BY <1>1, <1>2, <1>3

LEMMA PutOthers ==
  ASSUME NEW r \in Room, NEW u \in User, NEW a \in Avatar
  PROVE  \A v \in User \ {u} : Put(r, u, a).user[v] = r.user[v]
<1>1. r.user \in [User -> Avatar]
  BY DEF Room
<1>2. Put(r, u, a).user = [r.user EXCEPT ![u] = a]
  BY PutParts
<1> QED
  BY <1>1, <1>2

LEMMA PutChanges ==
  ASSUME NEW r \in Room, NEW u \in User, NEW a \in Avatar, Keeps(a) = Keeps(r.user[u])
  PROVE  Changes(r, Put(r, u, a), u) /\ Still(r, Put(r, u, a), u)
<1>0. PICK s : s = Put(r, u, a)
  OBVIOUS
<1>1. /\ s \in Room /\ s.user[u] = a
      /\ s.present = r.present /\ s.bots = r.bots /\ s.stuck = r.stuck /\ s.exits = r.exits
      /\ s.units = r.units /\ s.shared = r.shared /\ s.cut = r.cut
  BY <1>0, PutParts, ZenonT(40)
<1>2. \A v \in User \ {u} : s.user[v] = r.user[v]
  BY <1>0, PutOthers
<1>3. Changes(r, s, u) /\ Still(r, s, u)
  BY <1>1, <1>2 DEF Changes, Still
<1> QED
  BY <1>0, <1>3

LEMMA RetakeParts ==
  ASSUME NEW r \in Room, NEW u \in User, NEW from, NEW to \in Tiles
  PROVE  LET s == Retake(BreaksOff(r, u), u, from, to) IN
         /\ s \in Room /\ s.user = r.user /\ s.present = r.present /\ s.bots = r.bots
         /\ s.stuck = r.stuck /\ s.exits = r.exits
         /\ s.units = (r.units \ {from}) \cup {to}
         /\ s.shared = (r.shared \/ to \in Taken(r, u))
         /\ s.cut = (r.cut \/ r.user[u].pending # Nowhere)
<1> USE DEF Room
<1>1. PICK t : t = BreaksOff(r, u)
  OBVIOUS
<1>2. /\ t \in Room /\ t.user = r.user /\ t.present = r.present /\ t.bots = r.bots
      /\ t.stuck = r.stuck /\ t.exits = r.exits /\ t.units = r.units /\ t.shared = r.shared
      /\ t.cut = (r.cut \/ r.user[u].pending # Nowhere)
  BY <1>1 DEF BreaksOff
<1>3. Taken(t, u) = Taken(r, u)
  BY <1>2 DEF Taken
<1>4. PICK s : s = Retake(t, u, from, to)
  OBVIOUS
<1>5. /\ s \in Room /\ s.user = t.user /\ s.present = t.present /\ s.bots = t.bots
      /\ s.stuck = t.stuck /\ s.exits = t.exits
      /\ s.units = (t.units \ {from}) \cup {to}
      /\ s.shared = (t.shared \/ to \in Taken(t, u))
      /\ s.cut = t.cut
  <2>1. (t.units \ {from}) \cup {to} \in SUBSET Tiles
    BY <1>2
  <2> QED
    BY <1>2, <1>4, <2>1 DEF Retake
<1>6. s = Retake(BreaksOff(r, u), u, from, to)
  BY <1>1, <1>4
<1> QED
  BY <1>2, <1>3, <1>5, <1>6

LEMMA RetakeOnly ==
  ASSUME NEW r \in Room, NEW u \in User, NEW from, NEW to \in Tiles
  PROVE  LET s == Retake(r, u, from, to) IN
         /\ s \in Room /\ s.user = r.user /\ s.present = r.present /\ s.bots = r.bots
         /\ s.stuck = r.stuck /\ s.exits = r.exits
         /\ s.units = (r.units \ {from}) \cup {to}
         /\ s.shared = (r.shared \/ to \in Taken(r, u)) /\ s.cut = r.cut
<1>1. (r.units \ {from}) \cup {to} \in SUBSET Tiles
  BY DEF Room
<1> QED
  BY <1>1 DEF Room, Retake

\* A move takes the tile and puts the avatar there.
LEMMA MoveChanges ==
  ASSUME NEW r \in Room, NEW u \in User, NEW a \in Avatar, NEW to \in Tiles,
         \/ Keeps(a) = to
         \/ r.user[u].pending # Nowhere /\ Keeps(a) = Keeps(r.user[u])
  PROVE  LET s == Put(Retake(BreaksOff(r, u), u, r.user[u].at, to), u, a) IN
         Changes(r, s, u) /\ Moves(r, s, u, to) /\ s.user[u] = a /\ s.exits = r.exits
<1>1. PICK t : t = Retake(BreaksOff(r, u), u, r.user[u].at, to)
  OBVIOUS
<1>2. /\ t \in Room /\ t.user = r.user /\ t.present = r.present /\ t.bots = r.bots
      /\ t.stuck = r.stuck /\ t.exits = r.exits
      /\ t.units = (r.units \ {r.user[u].at}) \cup {to}
      /\ t.shared = (r.shared \/ to \in Taken(r, u))
      /\ t.cut = (r.cut \/ r.user[u].pending # Nowhere)
  BY <1>1, RetakeParts
<1>3. PICK s : s = Put(t, u, a)
  OBVIOUS
<1>4. /\ s \in Room /\ s.user[u] = a
      /\ s.present = t.present /\ s.bots = t.bots /\ s.stuck = t.stuck /\ s.exits = t.exits
      /\ s.units = t.units /\ s.shared = t.shared /\ s.cut = t.cut
  <2>1. t \in Room
    BY <1>2
  <2> QED
    BY <1>3, <2>1, PutParts, ZenonT(40)
<1>5. \A v \in User \ {u} : s.user[v] = r.user[v]
  BY <1>2, <1>3, PutOthers
<1>6. Changes(r, s, u)
  BY <1>2, <1>4, <1>5 DEF Changes
<1>7. Moves(r, s, u, to)
  <2>1. \/ Keeps(s.user[u]) = to
        \/ s.cut /\ Keeps(s.user[u]) = Keeps(r.user[u])
    BY <1>2, <1>4
  <2> QED
    BY <1>2, <1>4, <2>1 DEF Moves
<1> QED
  BY <1>1, <1>2, <1>3, <1>4, <1>6, <1>7

LEMMA StepChanges ==
  ASSUME NEW r \in Room, NEW u \in User, NEW a \in Avatar, NEW to \in Tiles,
         r.user[u].pending = Nowhere, Keeps(a) = to
  PROVE  LET s == Put(Retake(r, u, r.user[u].at, to), u, a) IN
         Changes(r, s, u) /\ Moves(r, s, u, to) /\ s.user[u] = a /\ s.exits = r.exits
<1>1. PICK t : t = Retake(r, u, r.user[u].at, to)
  OBVIOUS
<1>2. /\ t \in Room /\ t.user = r.user /\ t.present = r.present /\ t.bots = r.bots
      /\ t.stuck = r.stuck /\ t.exits = r.exits
      /\ t.units = (r.units \ {r.user[u].at}) \cup {to}
      /\ t.shared = (r.shared \/ to \in Taken(r, u)) /\ t.cut = r.cut
  BY <1>1, RetakeOnly
<1>3. PICK s : s = Put(t, u, a)
  OBVIOUS
<1>4. /\ s \in Room /\ s.user[u] = a
      /\ s.present = t.present /\ s.bots = t.bots /\ s.stuck = t.stuck /\ s.exits = t.exits
      /\ s.units = t.units /\ s.shared = t.shared /\ s.cut = t.cut
  <2>1. t \in Room
    BY <1>2
  <2> QED
    BY <1>3, <2>1, PutParts, ZenonT(40)
<1>5. \A v \in User \ {u} : s.user[v] = r.user[v]
  BY <1>2, <1>3, PutOthers
<1>6. Changes(r, s, u)
  BY <1>2, <1>4, <1>5 DEF Changes
<1>7. Moves(r, s, u, to)
  <2>1. s.cut = (r.cut \/ r.user[u].pending # Nowhere)
    <3>1. r.cut \in BOOLEAN
      BY DEF Room
    <3> QED
      BY <1>2, <1>4, <3>1
  <2>2. Keeps(s.user[u]) = to
    BY <1>4
  <2> QED
    BY <1>2, <1>4, <2>1, <2>2 DEF Moves
<1> QED
  BY <1>1, <1>2, <1>3, <1>4, <1>6, <1>7

-----------------------------------------------------------------------------
(* What the operations make of an avatar                                   *)

\* Two avatars of one user that differ in where they are, and how they stand there.
Kindred(a, b) ==
  /\ b.lock = a.lock /\ b.toDoor = a.toDoor /\ b.turned = a.turned /\ b.lost = a.lost
  /\ b.outfit = a.outfit /\ b.flown = a.flown /\ b.forever = a.forever
  /\ b.poses \ {"sit", "lay", "dance"} = a.poses \ {"sit", "lay", "dance"}

LEMMA NowhereIsNoTile == Nowhere \notin Tiles /\ Nowhere \in Int \X Int /\ Nowhere \notin Tile
  BY DEF Nowhere, Tiles, TilesOf, Tile

LEMMA TilesAreTiles == ASSUME plan \in Plans PROVE Tiles \subseteq Tile /\ Tiles \subseteq Int \X Int
<1>1. plan.width \in Nat /\ plan.depth \in Nat
  BY PlansAssumption
<1> QED
  BY <1>1 DEF Tiles, TilesOf, Tile

LEMMA CommitDoes ==
  ASSUME NEW r \in Room, NEW u \in User, Body(r.user[u]), r.user[u].pending # Nowhere
  PROVE  LET s == Commit(r, u)
             a == r.user[u]
             b == s.user[u]
         IN /\ Changes(r, s, u) /\ Still(r, s, u) /\ s.exits = r.exits
            /\ Body(b) /\ Kindred(a, b) /\ b.at = a.pending /\ b.pending = Nowhere
            /\ b.goal = a.goal /\ b.slid
<1> DEFINE a == r.user[u]
           sits == a.again /\ State(a.pending) = "seat"
           poses == IF sits THEN (a.poses \ {"dance"}) \cup {"sit"} ELSE a.poses
<1>1. a \in Avatar /\ a.pending \in Tiles /\ a.slid
  BY DEF Body
<1>2. PICK b : b = [a EXCEPT !.at = a.pending, !.pending = Nowhere, !.again = FALSE,
                             !.poses = poses]
  OBVIOUS
<1>3. poses \in SUBSET Pose /\ poses \ {"sit", "lay", "dance"} = a.poses \ {"sit", "lay", "dance"}
  BY <1>1 DEF Avatar, Pose
<1> HIDE DEF poses
<1>4. /\ b \in Avatar /\ b.at = a.pending /\ b.pending = Nowhere /\ b.goal = a.goal /\ b.slid
      /\ b.poses = poses
      /\ b.lock = a.lock /\ b.toDoor = a.toDoor /\ b.turned = a.turned /\ b.lost = a.lost
      /\ b.outfit = a.outfit /\ b.flown = a.flown /\ b.forever = a.forever
  BY <1>1, <1>2, <1>3 DEF Avatar
<1>5. Keeps(b) = Keeps(a)
  BY <1>4 DEF Keeps
<1>6. PICK s : s = Put(r, u, b)
  OBVIOUS
<1>7. s = Commit(r, u)
  BY <1>2, <1>6 DEF Commit, poses
<1>8. Changes(r, s, u) /\ Still(r, s, u)
  BY <1>4, <1>5, <1>6, PutChanges
<1>9. s.user[u] = b /\ s.exits = r.exits
  BY <1>4, <1>6, PutParts
<1>10. Body(b) /\ Kindred(a, b)
  BY <1>1, <1>3, <1>4 DEF Body, Kindred
<1> QED
  BY <1>4, <1>7, <1>8, <1>9, <1>10

LEMMA StepToDoes ==
  ASSUME plan \in Plans, NEW r \in Room, NEW u \in User, Body(r.user[u]),
         r.user[u].pending = Nowhere, NEW to \in Tiles
  PROVE  LET s == StepTo(r, u, to)
             a == r.user[u]
             b == s.user[u]
         IN /\ Changes(r, s, u) /\ Moves(r, s, u, to) /\ s.exits = r.exits
            /\ Body(b) /\ Kindred(a, b) /\ b.at = to /\ b.pending = Nowhere
            /\ b.goal = a.goal /\ Rests(items, b)
<1> DEFINE a == r.user[u]
           pose == CASE State(to) = "seat" -> {"sit"} [] State(to) = "bed" -> {"lay"}
                     [] OTHER -> {}
           over == {"sit", "lay"} \cup (IF pose = {} THEN {} ELSE {"dance"})
           poses == (a.poses \ over) \cup pose
<1>1. a \in Avatar /\ a.pending = Nowhere /\ to \in Tile
  BY TilesAreTiles DEF Body
<1>2. PICK b : b = [a EXCEPT !.at = to, !.slid = FALSE, !.poses = poses]
  OBVIOUS
<1>3. /\ poses \in SUBSET Pose
      /\ poses \ {"sit", "lay", "dance"} = a.poses \ {"sit", "lay", "dance"}
      /\ "sit" \in poses => State(to) = "seat"
      /\ "lay" \in poses => State(to) = "bed"
  <2>1. pose \subseteq {"sit", "lay"} /\ ("sit" \in pose => State(to) = "seat")
        /\ ("lay" \in pose => State(to) = "bed")
    OBVIOUS
  <2>2. over \subseteq {"sit", "lay", "dance"} /\ {"sit", "lay"} \subseteq over
    OBVIOUS
  <2> HIDE DEF pose, over
  <2> QED
    BY <1>1, <2>1, <2>2 DEF Avatar, Pose
<1>4. /\ b \in Avatar /\ b.at = to /\ b.pending = Nowhere /\ b.goal = a.goal /\ ~b.slid
      /\ b.poses = poses
      /\ b.lock = a.lock /\ b.toDoor = a.toDoor /\ b.turned = a.turned /\ b.lost = a.lost
      /\ b.outfit = a.outfit /\ b.flown = a.flown /\ b.forever = a.forever
  <2> HIDE DEF poses
  <2> QED
    BY <1>1, <1>2, <1>3 DEF Avatar
<1>5. Keeps(b) = to
  BY <1>4 DEF Keeps
<1>6. PICK s : s = Put(Retake(r, u, r.user[u].at, to), u, b)
  OBVIOUS
<1>7. s = StepTo(r, u, to)
  BY <1>2, <1>6 DEF StepTo
<1>8. Changes(r, s, u) /\ Moves(r, s, u, to) /\ s.user[u] = b /\ s.exits = r.exits
  BY <1>1, <1>4, <1>5, <1>6, StepChanges
<1> HIDE DEF poses
<1>9. Body(b) /\ Kindred(a, b) /\ Rests(items, b)
  BY <1>1, <1>3, <1>4 DEF Body, Kindred, Rests, Lazy, State
<1> QED
  BY <1>4, <1>7, <1>8, <1>9

LEMMA SingleStepDoes ==
  ASSUME plan \in Plans, NEW r \in Room, NEW u \in User, Body(r.user[u]),
         NEW to \in Tiles, NEW again \in BOOLEAN
  PROVE  LET s == SingleStep(r, u, to, again)
             a == r.user[u]
             b == s.user[u]
         IN /\ Changes(r, s, u) /\ Moves(r, s, u, to) /\ s.exits = r.exits
            /\ Body(b) /\ Kindred(a, b) /\ b.at = a.at /\ b.pending = to
            /\ b.goal = a.goal /\ b.slid
<1> DEFINE a == r.user[u]
<1>1. a \in Avatar /\ to \in Tile
  BY TilesAreTiles DEF Body
<1>2. PICK b : b = [a EXCEPT !.pending = to, !.again = again, !.poses = @ \ {"sit"}, !.slid = TRUE]
  OBVIOUS
<1>4. /\ b \in Avatar /\ b.at = a.at /\ b.pending = to /\ b.goal = a.goal /\ b.slid
      /\ b.poses = a.poses \ {"sit"}
      /\ b.lock = a.lock /\ b.toDoor = a.toDoor /\ b.turned = a.turned /\ b.lost = a.lost
      /\ b.outfit = a.outfit /\ b.flown = a.flown /\ b.forever = a.forever
  BY <1>1, <1>2 DEF Avatar
<1>5. Keeps(b) = to
  BY <1>4, NowhereIsNoTile DEF Keeps
<1>6. PICK s : s = Put(Retake(BreaksOff(r, u), u, a.at, to), u, b)
  OBVIOUS
<1>7. s = SingleStep(r, u, to, again)
  BY <1>2, <1>6 DEF SingleStep
<1>8. Changes(r, s, u) /\ Moves(r, s, u, to) /\ s.user[u] = b /\ s.exits = r.exits
  BY <1>1, <1>4, <1>5, <1>6, MoveChanges
<1>9. Body(b) /\ Kindred(a, b)
  BY <1>1, <1>4 DEF Body, Kindred
<1> QED
  BY <1>4, <1>7, <1>8, <1>9

\* Two changes by one user, the first of which does not move him, are one.
LEMMA ChangesTwice ==
  ASSUME NEW r, NEW s, NEW q, NEW u \in User, Changes(r, s, u), Changes(s, q, u)
  PROVE  Changes(r, q, u)
  BY DEF Changes

LEMMA StillTwice ==
  ASSUME NEW r, NEW s, NEW q, NEW u \in User, Still(r, s, u), Still(s, q, u)
  PROVE  Still(r, q, u)
  BY DEF Still

LEMMA TakenSame ==
  ASSUME NEW r \in Room, NEW s, NEW u \in User, Changes(r, s, u)
  PROVE  Taken(s, u) = Taken(r, u)
<1>1. Range(r.present) \subseteq User
  BY DEF Room, Range
<1>2. s.present = r.present /\ s.bots = r.bots
  BY DEF Changes
<1>3. \A v \in Range(r.present) \ {u} : s.user[v] = r.user[v]
  BY <1>1 DEF Changes
<1>4. {Keeps(s.user[v]) : v \in Range(s.present) \ {u}}
        = {Keeps(r.user[v]) : v \in Range(r.present) \ {u}}
  BY <1>2, <1>3
<1> QED
  BY <1>2, <1>4 DEF Taken

LEMMA StillThenMoves ==
  ASSUME NEW r \in Room, NEW s, NEW q, NEW u \in User, NEW to,
         Changes(r, s, u), Still(r, s, u), Moves(s, q, u, to),
         s.user[u].at = r.user[u].at, s.user[u].pending = r.user[u].pending
  PROVE  Moves(r, q, u, to)
<1>1. Taken(s, u) = Taken(r, u)
  BY TakenSame
<1> QED
  BY <1>1 DEF Still, Moves

\* A walk that ends in the room, or at the door.
Halts(a, b) ==
  /\ b.at = a.at /\ b.pending = a.pending /\ b.goal = Nowhere /\ ~b.toDoor
  /\ b.turned = a.turned /\ b.outfit = a.outfit /\ b.flown = a.flown /\ b.lost = a.lost
  /\ b.slid = a.slid /\ b.forever = a.forever /\ b.poses = a.poses
StopHalts(r, s, u) ==
  LET a == r.user[u]
      b == s.user[u]
  IN /\ Changes(r, s, u) /\ Still(r, s, u) /\ Body(b) /\ Halts(a, b)
     /\ b.lock => \/ a.at \in DOMAIN plan.triggers
                  \/ a.lock /\ (a.toDoor => u \in s.exits)

\* A walk that ends at a trigger of the pool and leads on.
Leads(r, u) == plan.triggers[r.user[u].at]
Dives(a, b, name) ==
  /\ b.at = a.at /\ b.toDoor = a.toDoor /\ b.turned = a.toDoor /\ b.flown = a.flown
  /\ (a.slid => b.slid) /\ (b.slid \/ b.poses \cap {"sit", "lay"} = a.poses \cap {"sit", "lay"})
  /\ b.lock => b.lost \/ a.lock
  /\ a.lost => b.lost
  /\ \/ name = "door" /\ b.forever = a.forever /\ b.poses \ {"sit"} = a.poses \ {"sit"}
     \/ /\ name # "door" /\ b.forever = a.forever \ {"carryd"}
        /\ b.poses \ {"sit", "swim"} = a.poses \ ({"sit", "swim"} \cup InHand)
        /\ ("swim" \in b.poses <=> name = "enter")
StopDives(r, s, u) ==
  LET a == r.user[u]
      b == s.user[u]
      step == Leads(r, u).step
  IN /\ plan.public /\ a.at \in DOMAIN plan.triggers /\ Leads(r, u).name # "curtains"
     /\ Changes(r, s, u) /\ s.exits = r.exits /\ Body(b) /\ Dives(a, b, Leads(r, u).name)
     /\ \/ step \in Tiles /\ Moves(r, s, u, step) /\ b.pending = step
        \/ step \notin Tiles /\ Still(r, s, u) /\ b.pending = a.pending

LEMMA HaltsDoes ==
  ASSUME NEW r \in Room, NEW u \in User, Body(r.user[u]), NEW lock \in BOOLEAN,
         NEW exits, exits \in {r.exits, r.exits \cup {u}},
         lock => \/ r.user[u].at \in DOMAIN plan.triggers
                 \/ r.user[u].lock /\ (r.user[u].toDoor => u \in exits)
  PROVE  LET b == [r.user[u] EXCEPT !.goal = Nowhere, !.toDoor = FALSE, !.lock = lock]
         IN StopHalts(r, [Put(r, u, b) EXCEPT !.exits = exits], u)
<1> DEFINE a == r.user[u]
<1>1. a \in Avatar
  BY DEF Body
<1>2. PICK b : b = [a EXCEPT !.goal = Nowhere, !.toDoor = FALSE, !.lock = lock]
  OBVIOUS
<1>3. b \in Avatar /\ b.lock = lock /\ Halts(a, b)
  BY <1>1, <1>2, NowhereIsNoTile DEF Avatar, Halts
<1>4. Keeps(b) = Keeps(a)
  BY <1>3 DEF Keeps, Halts
<1>5. PICK t : t = Put(r, u, b)
  OBVIOUS
<1>6. Changes(r, t, u) /\ Still(r, t, u)
  BY <1>3, <1>4, <1>5, PutChanges
<1>7. t.user[u] = b /\ t.exits = r.exits /\ t \in Room
  BY <1>3, <1>5, PutParts, ZenonT(40)
<1>8. PICK s : s = [t EXCEPT !.exits = exits]
  OBVIOUS
<1>9. /\ s \in Room /\ s.exits = exits /\ s.user = t.user /\ s.present = t.present
      /\ s.bots = t.bots /\ s.stuck = t.stuck /\ s.units = t.units /\ s.shared = t.shared
      /\ s.cut = t.cut
  BY <1>7, <1>8 DEF Room
<1>10. Changes(r, s, u)
  BY <1>6, <1>7, <1>9 DEF Changes
<1>11. Still(r, s, u)
  BY <1>6, <1>9 DEF Still
<1>12. Body(b)
  BY <1>1, <1>3 DEF Body, Halts
<1>13. StopHalts(r, s, u)
  BY <1>3, <1>7, <1>9, <1>10, <1>11, <1>12 DEF StopHalts
<1> QED
  BY <1>2, <1>5, <1>8, <1>13

LEMMA DiveDoes ==
  ASSUME plan \in Plans, NEW r \in Room, NEW u \in User, Body(r.user[u]),
         r.user[u].at \in DOMAIN plan.triggers, Leads(r, u).name # "curtains"
  PROVE  LET a == r.user[u]
             s == DiveIn(r, u)
             b == s.user[u]
             step == Leads(r, u).step
         IN /\ Changes(r, s, u) /\ s.exits = r.exits /\ Body(b)
            /\ Dives(a, b, Leads(r, u).name)
            /\ \/ step \in Tiles /\ Moves(r, s, u, step) /\ b.pending = step
               \/ step \notin Tiles /\ Still(r, s, u) /\ b.pending = a.pending
<1> DEFINE a == r.user[u]
           step == Leads(r, u).step
           name == Leads(r, u).name
           goal == Leads(r, u).goal
           poses == IF name = "enter" THEN (a.poses \ InHand) \cup {"swim"}
                    ELSE (a.poses \ InHand) \ {"swim"}
           door == [a EXCEPT !.lock = TRUE, !.lost = TRUE, !.turned = a.toDoor]
           swim == [a EXCEPT !.goal = goal, !.turned = a.toDoor, !.poses = poses,
                             !.forever = a.forever \ {"carryd"}]
<1>1. a \in Avatar /\ goal \in Int \X Int
  BY PlansAssumption DEF Body, Leads
<1>2. /\ poses \in SUBSET Pose /\ poses \ {"swim"} = a.poses \ ({"swim"} \cup InHand)
      /\ ("swim" \in poses <=> name = "enter")
  BY <1>1 DEF Avatar, Pose, InHand
<1>3. PICK c : c = IF name = "door" THEN door ELSE swim
  OBVIOUS
<1>4. /\ c \in Avatar /\ c.at = a.at /\ c.pending = a.pending /\ c.slid = a.slid
      /\ c.toDoor = a.toDoor /\ c.turned = a.toDoor /\ c.flown = a.flown
      /\ c.lock => c.lost \/ a.lock
      /\ a.lost => c.lost
      /\ \/ name = "door" /\ c.forever = a.forever /\ c.poses = a.poses
         \/ name # "door" /\ c.forever = a.forever \ {"carryd"} /\ c.poses = poses
  <2> HIDE DEF poses, goal, name
  <2>1. CASE name = "door"
    BY <1>1, <1>3, <2>1 DEF Avatar
  <2>2. CASE name # "door"
    BY <1>1, <1>2, <1>3, <2>2 DEF Avatar
  <2> QED
    BY <2>1, <2>2
<1>5. Keeps(c) = Keeps(a)
  BY <1>4 DEF Keeps
<1>6. PICK q : q = Put(r, u, c)
  OBVIOUS
<1>7. Changes(r, q, u) /\ Still(r, q, u)
  BY <1>4, <1>5, <1>6, PutChanges
<1>8. q.user[u] = c /\ q.exits = r.exits /\ q \in Room
  <2>1. c \in Avatar
    BY <1>4
  <2> QED
    BY <1>6, <2>1, PutParts
<1>9. Body(c)
  BY <1>4 DEF Body
<1>10. PICK again \in BOOLEAN : again = (name = "door")
  OBVIOUS
<1>11. PICK s : s = SingleStep(q, u, step, again)
  OBVIOUS
<1>12. s = DiveIn(r, u)
  <2>1. CASE name = "door"
    <3>1. again = TRUE
      BY <1>10, <2>1
    <3>2. c = door
      BY <1>3, <2>1
    <3> QED
      BY <1>6, <1>11, <2>1, <3>1, <3>2 DEF DiveIn, Leads
  <2>2. CASE name # "door"
    <3>1. again = FALSE
      BY <1>10, <2>2
    <3>2. c = [Drop(a) EXCEPT !.goal = goal, !.turned = a.toDoor,
                 !.poses = IF name = "enter" THEN @ \cup {"swim"} ELSE @ \ {"swim"}]
      <4>1. PICK d : d = Drop(a)
        OBVIOUS
      <4>2. d.poses = a.poses \ InHand /\ d.forever = a.forever \ {"carryd"}
            /\ d = [a EXCEPT !.poses = a.poses \ InHand, !.forever = a.forever \ {"carryd"}]
        BY <1>1, <4>1 DEF Drop, Avatar
      <4>3. [d EXCEPT !.goal = goal, !.turned = a.toDoor,
                 !.poses = IF name = "enter" THEN @ \cup {"swim"} ELSE @ \ {"swim"}]
              = [d EXCEPT !.goal = goal, !.turned = a.toDoor, !.poses = poses]
        BY <4>2
      <4> HIDE DEF goal, name, poses
      <4>4. [d EXCEPT !.goal = goal, !.turned = a.toDoor, !.poses = poses] = swim
        BY <1>1, <4>2 DEF Avatar
      <4> QED
        BY <1>3, <2>2, <4>1, <4>3, <4>4
    <3> QED
      BY <1>6, <1>11, <2>2, <3>1, <3>2 DEF DiveIn, Leads
  <2> QED
    BY <2>1, <2>2
<1> HIDE DEF a, poses, goal, name, step, door, swim
<1>13. CASE step \in Tiles
  <2> DEFINE b == s.user[u]
  <2>1. /\ Changes(q, s, u) /\ Moves(q, s, u, step) /\ s.exits = q.exits
        /\ Body(b) /\ Kindred(c, b) /\ b.at = c.at /\ b.pending = step /\ b.slid
        /\ b.poses = c.poses \ {"sit"}
    <3>1. Body(q.user[u]) /\ q \in Room
      BY <1>8, <1>9
    <3>2. /\ Changes(q, s, u) /\ Moves(q, s, u, step) /\ s.exits = q.exits
          /\ Body(b) /\ Kindred(q.user[u], b) /\ b.at = q.user[u].at /\ b.pending = step
          /\ b.slid
      BY <1>11, <1>13, <3>1, SingleStepDoes
    <3>3. s.user[u].poses = c.poses \ {"sit"}
      <4>1. c \in [DOMAIN c -> {c[x] : x \in DOMAIN c}] /\ DOMAIN c = DOMAIN [c EXCEPT !.pending = step]
        BY <1>4 DEF Avatar
      <4>2. PICK e : e = [c EXCEPT !.pending = step, !.again = again, !.poses = @ \ {"sit"}, !.slid = TRUE]
        OBVIOUS
      <4>3. e.poses = c.poses \ {"sit"}
        BY <1>4, <4>2 DEF Avatar
      <4>4. PICK w : w = Retake(BreaksOff(q, u), u, c.at, step)
        OBVIOUS
      <4>5. w.user = q.user /\ w \in Room
        BY <1>8, <1>13, <4>4, RetakeParts
      <4>6. s = Put(w, u, e)
        BY <1>8, <1>11, <1>13, <4>2, <4>4 DEF SingleStep
      <4>7. s = [w EXCEPT !.user[u] = e] /\ w.user \in [User -> Avatar]
        BY <4>5, <4>6 DEF Put, Room
      <4>8. s.user[u] = e
        BY <4>5, <4>7 DEF Room
      <4> QED
        BY <4>3, <4>8
    <3> QED
      BY <1>8, <3>2, <3>3
  <2> HIDE DEF b
  <2>2. Changes(r, s, u) /\ s.exits = r.exits
    BY <1>7, <1>8, <2>1, ChangesTwice
  <2>3. Moves(r, s, u, step)
    BY <1>4, <1>7, <1>8, <2>1, StillThenMoves DEF a
  <2>4. Dives(a, b, name)
    <3>2. /\ b.at = c.at /\ b.poses = c.poses \ {"sit"} /\ b.forever = c.forever /\ b.slid
          /\ b.toDoor = c.toDoor /\ b.turned = c.turned /\ b.flown = c.flown
          /\ b.lock = c.lock /\ b.lost = c.lost
      BY <2>1 DEF Kindred
    <3>5. (a.slid => b.slid) /\ (b.slid \/ b.poses \cap {"sit", "lay"} = a.poses \cap {"sit", "lay"})
      BY <1>2, <1>4, <3>2
    <3>3. CASE name = "door"
      BY <1>4, <3>2, <3>3, <3>5 DEF Dives
    <3>4. CASE name # "door"
      <4>1. b.poses \ {"sit", "swim"} = a.poses \ ({"sit", "swim"} \cup InHand)
            /\ ("swim" \in b.poses <=> name = "enter")
        BY <1>2, <1>4, <3>2, <3>4
      <4> QED
        BY <1>4, <3>2, <3>4, <3>5, <4>1 DEF Dives
    <3> QED
      BY <3>3, <3>4
  <2> QED
    BY <1>12, <1>13, <2>1, <2>2, <2>3, <2>4 DEF a, step, name, b
<1>14. CASE step \notin Tiles
  <2>1. s = q
    BY <1>11, <1>14 DEF SingleStep
  <2>2. Dives(a, c, name)
    <3>5. (a.slid => c.slid) /\ (c.slid \/ c.poses \cap {"sit", "lay"} = a.poses \cap {"sit", "lay"})
      BY <1>2, <1>4 DEF InHand
    <3>1. CASE name = "door"
      BY <1>4, <3>1, <3>5 DEF Dives
    <3>2. CASE name # "door"
      <4>1. c.poses \ {"sit", "swim"} = a.poses \ ({"sit", "swim"} \cup InHand)
            /\ ("swim" \in c.poses <=> name = "enter")
        BY <1>2, <1>4, <3>2
      <4> QED
        BY <1>4, <3>2, <3>5, <4>1 DEF Dives
    <3> QED
      BY <3>1, <3>2
  <2> QED
    BY <1>4, <1>7, <1>8, <1>9, <1>12, <1>14, <2>1, <2>2 DEF a, step, name
<1> QED
  BY <1>13, <1>14

LEMMA StopDoes ==
  ASSUME plan \in Plans, NEW r \in Room, NEW u \in User, Body(r.user[u])
  PROVE  StopHalts(r, Stop(r, u), u) \/ StopDives(r, Stop(r, u), u)
<1> DEFINE a == r.user[u]
           still == [a EXCEPT !.goal = Nowhere]
           done == [still EXCEPT !.toDoor = FALSE]
           on == a.at \in DOMAIN plan.triggers
           H(lock) == [a EXCEPT !.goal = Nowhere, !.toDoor = FALSE, !.lock = lock]
<1>1. a \in Avatar
  BY DEF Body
<1>2. /\ done = H(a.lock) /\ [done EXCEPT !.lock = TRUE] = H(TRUE) /\ a.lock \in BOOLEAN
      /\ still.at = a.at /\ still.toDoor = a.toDoor /\ done.at = a.at
      /\ still \in Avatar /\ done \in Avatar
  BY <1>1, NowhereIsNoTile DEF Avatar
<1>3. ASSUME NEW c \in Avatar
      PROVE  Put(r, u, c) = [Put(r, u, c) EXCEPT !.exits = r.exits]
  <2>1. PICK q : q = Put(r, u, c)
    OBVIOUS
  <2>2. q \in Room /\ q.exits = r.exits
    BY <2>1, PutParts
  <2>3. q = [q EXCEPT !.exits = r.exits]
    BY <2>2 DEF Room
  <2> QED
    BY <2>1, <2>3
<1>4. CASE ~on
  <2> DEFINE exits == IF a.toDoor THEN r.exits \cup {u} ELSE r.exits
  <2>1. PICK q : q = Put(r, u, done)
    OBVIOUS
  <2>2. q.exits = r.exits
    <3>1. done \in Avatar
      BY <1>2
    <3> HIDE DEF done
    <3> QED
      BY <2>1, <3>1, PutParts
  <2>3. Stop(r, u) = [q EXCEPT !.exits = IF a.toDoor THEN @ \cup {u} ELSE @]
    BY <1>2, <1>4, <2>1 DEF Stop
  <2>4. [q EXCEPT !.exits = IF a.toDoor THEN @ \cup {u} ELSE @] = [q EXCEPT !.exits = exits]
    BY <2>2
  <2>5. a.lock => a.lock /\ (a.toDoor => u \in exits)
    OBVIOUS
  <2>6. exits \in {r.exits, r.exits \cup {u}}
    OBVIOUS
  <2> HIDE DEF exits
  <2>7. StopHalts(r, [Put(r, u, H(a.lock)) EXCEPT !.exits = exits], u)
    BY <1>2, <2>5, <2>6, HaltsDoes
  <2> QED
    BY <1>2, <2>1, <2>3, <2>4, <2>7
<1>5. CASE on /\ (~plan.pool \/ Trigger(still) = "curtains" \/ ~a.outfit)
  <2>1. \E lock \in BOOLEAN : Stop(r, u) = Put(r, u, H(lock))
    <3>1. still.outfit = a.outfit
      BY <1>1 DEF Avatar
    <3>2. Stop(r, u) \in {Put(r, u, done), Put(r, u, [done EXCEPT !.lock = TRUE])}
      BY <1>2, <1>5, <3>1 DEF Stop
    <3> QED
      BY <1>2, <3>2
  <2>2. PICK lock \in BOOLEAN : Stop(r, u) = Put(r, u, H(lock))
    BY <2>1
  <2>3. H(lock) \in Avatar
    BY <1>1, NowhereIsNoTile DEF Avatar
  <2>4. Stop(r, u) = [Put(r, u, H(lock)) EXCEPT !.exits = r.exits]
    BY <1>3, <2>2, <2>3
  <2>5. StopHalts(r, [Put(r, u, H(lock)) EXCEPT !.exits = r.exits], u)
    BY <1>5, HaltsDoes
  <2> QED
    BY <2>4, <2>5
<1>6. CASE on /\ plan.pool /\ Trigger(still) # "curtains" /\ a.outfit
  <2>1. PICK q : q = Put(r, u, still)
    OBVIOUS
  <2>2. q \in Room /\ q.user[u] = still /\ q.exits = r.exits
    <3>1. still \in Avatar
      BY <1>2
    <3> HIDE DEF still
    <3> QED
      BY <2>1, <3>1, PutParts
  <2>3. still.pending = a.pending /\ still.slid = a.slid /\ Body(still) /\ Keeps(still) = Keeps(a)
        /\ still.outfit = a.outfit
    BY <1>1, <1>2 DEF Avatar, Body, Keeps
  <2>4. Changes(r, q, u) /\ Still(r, q, u)
    BY <1>2, <2>1, <2>3, PutChanges
  <2>5. Leads(q, u) = Leads(r, u) /\ Leads(q, u).name = Trigger(still) /\ q.user[u].at = a.at
    BY <1>2, <2>2 DEF Leads, Trigger
  <2>6. PICK s : s = DiveIn(q, u)
    OBVIOUS
  <2>7. Stop(r, u) = s
    BY <1>2, <1>6, <2>1, <2>3, <2>6 DEF Stop
  <2>8. LET b == s.user[u]
            step == Leads(q, u).step
        IN /\ Changes(q, s, u) /\ s.exits = q.exits /\ Body(b)
           /\ Dives(still, b, Leads(q, u).name)
           /\ \/ step \in Tiles /\ Moves(q, s, u, step) /\ b.pending = step
              \/ step \notin Tiles /\ Still(q, s, u) /\ b.pending = still.pending
    <3>1. /\ Body(q.user[u]) /\ q.user[u].at \in DOMAIN plan.triggers
          /\ Leads(q, u).name # "curtains"
      BY <1>6, <2>2, <2>3, <2>5
    <3>2. still = q.user[u] /\ q \in Room
      BY <2>2
    <3> HIDE DEF still
    <3> QED
      BY <2>6, <3>1, <3>2, DiveDoes
  <2>9. Changes(r, s, u)
    BY <2>4, <2>8, ChangesTwice
  <2>10. Dives(a, s.user[u], Leads(r, u).name)
    <3>1. still.at = a.at /\ still.toDoor = a.toDoor /\ still.flown = a.flown
          /\ still.lock = a.lock /\ still.lost = a.lost /\ still.forever = a.forever
          /\ still.poses = a.poses /\ still.slid = a.slid
      BY <1>1 DEF Avatar
    <3> HIDE DEF still
    <3> QED
      BY <2>5, <2>8, <3>1 DEF Dives
  <2>11. \/ Leads(r, u).step \in Tiles /\ Moves(r, s, u, Leads(r, u).step)
               /\ s.user[u].pending = Leads(r, u).step
         \/ Leads(r, u).step \notin Tiles /\ Still(r, s, u) /\ s.user[u].pending = a.pending
    <3>1. CASE Leads(q, u).step \in Tiles
      <4>1. Moves(r, s, u, Leads(q, u).step)
        BY <1>2, <2>2, <2>3, <2>4, <2>8, <3>1, StillThenMoves
      <4> QED
        BY <2>5, <2>8, <3>1, <4>1
    <3>2. CASE Leads(q, u).step \notin Tiles
      <4>1. Still(r, s, u)
        BY <2>4, <2>8, <3>2, StillTwice
      <4> QED
        BY <2>3, <2>5, <2>8, <3>2, <4>1
    <3> QED
      BY <3>1, <3>2
  <2>12. plan.public
    BY <1>6, PlansAssumption
  <2> QED
    BY <1>6, <2>2, <2>5, <2>7, <2>8, <2>9, <2>10, <2>11, <2>12 DEF StopDives
<1> QED
  BY <1>4, <1>5, <1>6

-----------------------------------------------------------------------------
(* Who keeps which tile                                                    *)

LEMMA InUsers == ASSUME NEW r \in Room PROVE In(r) \subseteq User
  BY DEF Room, In, Range

LEMMA InSame ==
  ASSUME NEW r, NEW s, NEW u, Changes(r, s, u)
  PROVE  In(s) = In(r) /\ DOMAIN s.bots = DOMAIN r.bots /\ BotTiles(s) = BotTiles(r)
         /\ (BotsApart(r) => BotsApart(s))
  BY DEF Changes, In, BotTiles, BotsApart

LEMMA PlacedStill ==
  ASSUME NEW r \in Room, NEW s, NEW u \in User, Changes(r, s, u), Still(r, s, u), Placed(r)
  PROVE  Placed(s)
<1>1. In(s) = In(r) /\ BotTiles(s) = BotTiles(r) /\ (BotsApart(r) => BotsApart(s))
  BY InSame
<1>2. \A v \in User : Keeps(s.user[v]) = Keeps(r.user[v])
  BY DEF Changes, Still
<1>3. \A v \in In(r) : Keeps(s.user[v]) = Keeps(r.user[v])
  BY <1>2, InUsers
<1>4. UserTiles(s) = UserTiles(r)
  BY <1>1, <1>3 DEF UserTiles
<1>5. Apart(r) => Apart(s)
  BY <1>1, <1>3 DEF Apart
<1>6. s.units = r.units /\ s.shared = r.shared /\ s.cut = r.cut
  BY DEF Still
<1> QED
  BY <1>1, <1>4, <1>5, <1>6 DEF Placed

LEMMA PlacedMoves ==
  ASSUME NEW r \in Room, NEW s, NEW u \in User, u \in In(r), NEW to,
         Changes(r, s, u), Moves(r, s, u, to), Placed(r)
  PROVE  Placed(s)
<1>1. In(s) = In(r) /\ BotTiles(s) = BotTiles(r) /\ (BotsApart(r) => BotsApart(s))
  BY InSame
<1>2. \A v \in User \ {u} : Keeps(s.user[v]) = Keeps(r.user[v])
  BY DEF Changes
<1>3. \A v \in In(r) \ {u} : Keeps(s.user[v]) = Keeps(r.user[v])
  BY <1>2, InUsers
<1>4. Taken(r, u) = {Keeps(r.user[v]) : v \in In(r) \ {u}} \cup BotTiles(r)
  BY DEF Taken, In, BotTiles
<1>5. /\ s.units = (r.units \ {r.user[u].at}) \cup {to}
      /\ s.shared = (r.shared \/ to \in Taken(r, u))
      /\ s.cut = (r.cut \/ r.user[u].pending # Nowhere)
      /\ Keeps(s.user[u]) = to \/ (s.cut /\ Keeps(s.user[u]) = Keeps(r.user[u]))
  BY DEF Moves
<1>6. UserTiles(s) = {Keeps(r.user[v]) : v \in In(r) \ {u}} \cup {Keeps(s.user[u])}
  <2>1. UserTiles(s) = {Keeps(s.user[v]) : v \in In(r) \ {u}} \cup {Keeps(s.user[u])}
    BY <1>1 DEF UserTiles
  <2>2. {Keeps(s.user[v]) : v \in In(r) \ {u}} = {Keeps(r.user[v]) : v \in In(r) \ {u}}
    BY <1>3
  <2> QED
    BY <2>1, <2>2
<1>7. UserTiles(r) = {Keeps(r.user[v]) : v \in In(r) \ {u}} \cup {Keeps(r.user[u])}
  BY DEF UserTiles
<1>8. ~s.cut => ~r.cut /\ Keeps(s.user[u]) = to /\ Keeps(r.user[u]) = r.user[u].at
  BY <1>5 DEF Keeps
<1>9. ~s.shared => ~r.shared /\ to \notin Taken(r, u)
  BY <1>5
<1>10. ~s.cut => s.units \subseteq UserTiles(s) \cup BotTiles(s)
  BY <1>1, <1>5, <1>6, <1>7, <1>8 DEF Placed
<1>11. ~s.shared => Apart(s)
  <2> SUFFICES ASSUME ~s.shared, NEW v \in In(r), NEW w \in In(r),
                      Keeps(s.user[v]) = Keeps(s.user[w]), v # w
               PROVE  FALSE
    BY <1>1 DEF Apart
  <2>1. Apart(r) /\ to \notin Taken(r, u)
    BY <1>9 DEF Placed
  <2>2. \A x \in In(r) \ {u} : to # Keeps(r.user[x]) /\ Keeps(r.user[u]) # Keeps(r.user[x])
    BY <1>4, <2>1 DEF Apart
  <2>3. \A x \in In(r) \ {u} : Keeps(s.user[u]) # Keeps(s.user[x])
    BY <1>3, <1>5, <2>2
  <2>4. v # u /\ w # u
    BY <2>3
  <2> QED
    BY <1>3, <2>1, <2>4 DEF Apart
<1>12. ASSUME ~s.cut, ~s.shared
       PROVE  /\ UserTiles(s) \cup BotTiles(s) \subseteq s.units
              /\ UserTiles(s) \cap BotTiles(s) = {} /\ BotsApart(s)
  <2>1. /\ UserTiles(r) \cup BotTiles(r) \subseteq r.units /\ Apart(r)
        /\ UserTiles(r) \cap BotTiles(r) = {} /\ BotsApart(r)
    BY <1>8, <1>9, <1>12 DEF Placed
  <2>2. to \notin Taken(r, u) /\ Keeps(s.user[u]) = to /\ Keeps(r.user[u]) = r.user[u].at
    BY <1>8, <1>9, <1>12
  <2>3. \A x \in In(r) \ {u} : Keeps(r.user[x]) # r.user[u].at
    BY <2>1, <2>2 DEF Apart
  <2>4. r.user[u].at \notin BotTiles(r)
    BY <1>7, <2>1, <2>2
  <2>5. UserTiles(s) \cup BotTiles(s) \subseteq s.units
    BY <1>1, <1>5, <1>6, <1>7, <2>1, <2>2, <2>3, <2>4
  <2>6. UserTiles(s) \cap BotTiles(s) = {}
    BY <1>1, <1>4, <1>6, <1>7, <2>1, <2>2
  <2> QED
    BY <1>1, <2>1, <2>5, <2>6
<1> QED
  BY <1>10, <1>11, <1>12 DEF Placed

-----------------------------------------------------------------------------
(* What a change by one user leaves alone                                  *)

LEMMA PeopleChange ==
  ASSUME NEW r, NEW s, NEW u \in User, People(r), u \in In(r), Changes(r, s, u),
         Body(s.user[u])
  PROVE  People(s)
<1>1. In(s) = In(r) /\ In(r) \subseteq User
  BY InSame, InUsers DEF People
<1>2. s \in Room /\ IsInjective(s.present) /\ s.exits \subseteq In(s)
  BY <1>1 DEF People, Changes
<1>3. \A v \in In(s) : Body(s.user[v])
  BY <1>1 DEF People, Changes
<1>4. \A v \in User \ In(s) : s.user[v] = Absent
  BY <1>1 DEF People, Changes
<1> QED
  BY <1>2, <1>3, <1>4 DEF People

LEMMA MindsChange ==
  ASSUME NEW J, NEW T, NEW r \in Room, NEW s, NEW u \in User, Minds(J, T, r), Changes(r, s, u),
         Obeys(J, u, s.user[u], u \in s.exits), Ends(T, u, s.user[u])
  PROVE  Minds(J, T, s)
<1>1. In(s) = In(r) /\ In(r) \subseteq User
  BY InSame, InUsers
<1>2. ASSUME NEW v \in In(r), v # u
      PROVE  Obeys(J, v, s.user[v], v \in s.exits) /\ Ends(T, v, s.user[v])
  <2>1. s.user[v] = r.user[v] /\ (v \in s.exits <=> v \in r.exits)
    BY <1>1, <1>2 DEF Changes
  <2>2. Obeys(J, v, r.user[v], v \in r.exits) /\ Ends(T, v, r.user[v])
    BY DEF Minds
  <2> QED
    BY <2>1, <2>2 DEF Obeys
<1> QED
  BY <1>1, <1>2 DEF Minds

LEMMA SwimmingChange ==
  ASSUME NEW r \in Room, NEW s, NEW u \in User, Swimming(r), Changes(r, s, u),
         Bathes(s.user[u]), Dry(s.user[u])
  PROVE  Swimming(s)
<1>1. In(s) = In(r) /\ In(r) \subseteq User
  BY InSame, InUsers
<1>2. \A v \in In(r) : v # u => s.user[v] = r.user[v]
  BY <1>1 DEF Changes
<1> QED
  BY <1>1, <1>2 DEF Swimming

LEMMA SharedGrows ==
  ASSUME NEW r, NEW s, NEW u, NEW to, Still(r, s, u) \/ Moves(r, s, u, to), ~s.shared
  PROVE  ~r.shared
  BY DEF Still, Moves

LEMMA SitsChange ==
  ASSUME NEW I, NEW r \in Room, NEW s, NEW u \in User, Sits(I, r), Changes(r, s, u),
         ~s.shared => ~r.shared, ~s.shared => Rests(I, s.user[u])
  PROVE  Sits(I, s)
<1>1. In(s) = In(r) /\ In(r) \subseteq User
  BY InSame, InUsers
<1>2. \A v \in In(r) : v # u => s.user[v] = r.user[v]
  BY <1>1 DEF Changes
<1> QED
  BY <1>1, <1>2 DEF Sits

LEMMA ServesChange ==
  ASSUME NEW r, NEW s, NEW u, Serves(r), Changes(r, s, u)
  PROVE  Serves(s)
  BY DEF Serves, Changes

\* The order in which users are looked at.
LEMMA ListParts ==
  ASSUME NEW r \in Room
  PROVE  /\ Len(r.present) \in Nat /\ DOMAIN r.present = 1 .. Len(r.present)
         /\ \A j \in DOMAIN r.present : r.present[j] \in In(r) /\ r.present[j] \in User
  BY DEF Room, In, Range

\* Who does not move, and does not sit down, changes nothing about who is first.
LEMMA FirstStill ==
  ASSUME NEW r \in Room, NEW s, NEW u \in User, First(r), Changes(r, s, u),
         ~s.shared => ~r.shared, s.user[u].at = r.user[u].at,
         Lazy(s.user[u]) => Lazy(r.user[u])
  PROVE  First(s)
<1>1. s.present = r.present
  BY DEF Changes
<1>2. \A v \in User : s.user[v].at = r.user[v].at /\ (Lazy(s.user[v]) => Lazy(r.user[v]))
  BY DEF Changes
<1>3. \A j \in DOMAIN r.present : r.present[j] \in User
  BY ListParts
<1> QED
  <2> SUFFICES ASSUME ~s.shared, ~plan.public, NEW j \in DOMAIN s.present, NEW i \in 1 .. j - 1,
                      Lazy(s.user[s.present[j]])
               PROVE  s.user[s.present[i]].at # s.user[s.present[j]].at
    BY DEF First
  <2>1. i \in DOMAIN r.present /\ j \in DOMAIN r.present
    BY <1>1, ListParts
  <2>2. r.user[r.present[i]].at # r.user[r.present[j]].at
    BY <1>1, <1>2, <1>3, <2>1 DEF First
  <2> QED
    BY <1>1, <1>2, <1>3, <2>1, <2>2

\* Who moves to a tile that nobody keeps gets into nobody's way; and he is the first there
\* if he does not sit, or those before him on the list have made their steps.
LEMMA FirstMoved ==
  ASSUME NEW r, NEW s, NEW u \in User, People(r), Placed(r), First(r), Changes(r, s, u),
         ~s.shared => ~r.shared,
         ~s.shared => \A v \in In(r) \ {u} : Keeps(r.user[v]) # s.user[u].at,
         ~plan.public /\ Lazy(s.user[u]) =>
           \A j \in DOMAIN r.present : r.present[j] = u =>
             \A i \in 1 .. j - 1 : r.user[r.present[i]].pending = Nowhere
  PROVE  First(s)
<1> SUFFICES ASSUME ~s.shared, ~plan.public, NEW j \in DOMAIN s.present, NEW i \in 1 .. j - 1,
                    Lazy(s.user[s.present[j]])
             PROVE  s.user[s.present[i]].at # s.user[s.present[j]].at
  BY DEF First
<1>1. s.present = r.present /\ r \in Room /\ \A v \in User \ {u} : s.user[v] = r.user[v]
  BY DEF Changes, People
<1> DEFINE v == r.present[i]
           w == r.present[j]
<1>2. i \in DOMAIN r.present /\ j \in DOMAIN r.present /\ i # j
  BY <1>1, ListParts
<1>3. v \in In(r) /\ v \in User /\ w \in In(r) /\ w \in User
  BY <1>1, <1>2, ListParts
<1>4. v # w
  BY <1>2 DEF People, IsInjective
<1>5. CASE w = u
  <2>1. s.user[v] = r.user[v] /\ r.user[v].pending = Nowhere
    BY <1>1, <1>2, <1>3, <1>4, <1>5
  <2>2. Keeps(r.user[v]) = r.user[v].at
    BY <2>1 DEF Keeps
  <2> QED
    BY <1>1, <1>3, <1>4, <1>5, <2>1, <2>2
<1>6. CASE w # u /\ v = u
  <2>1. s.user[w] = r.user[w] /\ ~r.user[w].slid
    BY <1>1, <1>3, <1>6 DEF Lazy
  <2>2. r.user[w].pending = Nowhere
    BY <1>3, <2>1 DEF People, Body
  <2>3. Keeps(r.user[w]) = r.user[w].at
    BY <2>2 DEF Keeps
  <2> QED
    BY <1>1, <1>3, <1>6, <2>1, <2>3
<1>7. CASE w # u /\ v # u
  <2>1. s.user[w] = r.user[w] /\ s.user[v] = r.user[v]
    BY <1>1, <1>3, <1>7
  <2>2. ~r.shared
    OBVIOUS
  <2> QED
    BY <1>1, <1>2, <2>1, <2>2 DEF First
<1> QED
  BY <1>5, <1>6, <1>7

LEMMA MovesAway ==
  ASSUME NEW r, NEW s, NEW u, NEW to, Moves(r, s, u, to), ~s.shared
  PROVE  \A v \in In(r) \ {u} : Keeps(r.user[v]) # to
  BY DEF Moves, Taken, In

-----------------------------------------------------------------------------
(* The turn of a user                                                      *)

LEMMA EndsKindred ==
  ASSUME NEW T, NEW u, NEW a, NEW b, Kindred(a, b), Ends(T, u, a)
  PROVE  Ends(T, u, b)
<1>1. /\ ("wave" \in b.poses <=> "wave" \in a.poses) /\ ("sign" \in b.poses <=> "sign" \in a.poses)
      /\ b.poses \cap InHand = a.poses \cap InHand /\ b.forever = a.forever
  BY DEF Kindred, InHand
<1> QED
  BY <1>1 DEF Ends

LEMMA DryKindred ==
  ASSUME NEW a, NEW b, Kindred(a, b), Dry(a)
  PROVE  Dry(b)
<1>1. "swim" \in b.poses <=> "swim" \in a.poses
  BY DEF Kindred
<1> QED
  BY <1>1 DEF Dry

\* The neighbours of a tile are next to it, and not much higher or lower.
LEMMA NeighbourIsNear ==
  ASSUME NEW open, NEW t \in Int \X Int, NEW n \in Neighbours(open, t)
  PROVE  /\ n \in open /\ n[1] - t[1] \in -1 .. 1 /\ n[2] - t[2] \in -1 .. 1
         /\ plan.floor[n] - plan.floor[t] \in -1 .. 1
<1>1. PICK d \in (-1 .. 1) \X (-1 .. 1) : n = <<t[1] + d[1], t[2] + d[2]>>
  BY DEF Neighbours
<1>2. n \in open /\ plan.floor[n] - plan.floor[t] \in -1 .. 1
  BY DEF Neighbours
<1>3. t[1] \in Int /\ t[2] \in Int /\ d[1] \in -1 .. 1 /\ d[2] \in -1 .. 1
  OBVIOUS
<1>4. n[1] = t[1] + d[1] /\ n[2] = t[2] + d[2]
  BY <1>1
<1> QED
  BY <1>2, <1>3, <1>4

\* A step of a path leads to a neighbour.
LEMMA StepIsNear ==
  ASSUME NEW open, NEW at \in Int \X Int, NEW goal, NEW n \in NextSteps(open, at, goal)
  PROVE  n \in open /\ n \in Neighbours(open, at)
<1>1. n \in Neighbours(open, at)
  BY DEF NextSteps
<1> QED
  BY <1>1, NeighbourIsNear

\* In a room without furniture, what is open is ground.
LEMMA OpenIsGround ==
  ASSUME plan \in Plans, Items(items), plan.public, NEW t \in Tiles, State(t) # "blocked"
  PROVE  t \in Ground(plan)
<1>1. Lying(items, t) = {}
  BY DEF Lying, Items
<1>2. t = plan.door \/ plan.base[t] # "blocked"
  BY <1>1 DEF State, StateOf
<1> QED
  BY <1>2 DEF Ground, Tiles

LEMMA OpenTilesAre ==
  ASSUME NEW r, NEW goal, NEW soft, soft \subseteq {"seat", "bed"},
         NEW t \in OpenTiles(r, goal, soft)
  PROVE  t \in Tiles /\ t \notin r.units /\ State(t) # "blocked"
  BY DEF OpenTiles

LEMMA StepStaysWet ==
  ASSUME plan \in Plans, Items(items), NEW a, NEW b, Body(a), a.pending = Nowhere,
         Kindred(a, b), Bathes(a), NEW to \in Tiles, State(to) # "blocked",
         to[1] - a.at[1] \in -1 .. 1, to[2] - a.at[2] \in -1 .. 1,
         plan.floor[to] - plan.floor[a.at] \in -1 .. 1,
         b.at = to, b.pending = Nowhere
  PROVE  Bathes(b)
<1> SUFFICES ASSUME ~b.flown, plan.public
             PROVE  /\ to \in Ground(plan)
                    /\ ("swim" \in b.poses <=> to \in plan.water)
  BY DEF Bathes, Keeps
<1>1. a.at \in Ground(plan) /\ ("swim" \in a.poses <=> a.at \in plan.water)
  BY DEF Bathes, Keeps, Kindred
<1>2. to \in Ground(plan)
  BY OpenIsGround
<1>3. "swim" \in b.poses <=> "swim" \in a.poses
  BY DEF Kindred
<1>4. to[1] \in Int /\ to[2] \in Int /\ a.at[1] \in Int /\ a.at[2] \in Int
  BY TilesAreTiles DEF Body
<1>5. plan.floor[to] \in Nat /\ plan.floor[a.at] \in Nat
  BY PlansAssumption DEF Body, Tiles
<1>6. ASSUME NEW s \in Ground(plan) \cap plan.water, NEW t \in Ground(plan) \ plan.water,
             s[1] - t[1] \in -1 .. 1, s[2] - t[2] \in -1 .. 1
      PROVE  plan.floor[s] - plan.floor[t] \notin -1 .. 1
  BY <1>6, WaterAssumption
<1>7. ~(to \in plan.water /\ a.at \notin plan.water)
  BY <1>1, <1>2, <1>6
<1>8. ~(a.at \in plan.water /\ to \notin plan.water)
  <2>1. /\ a.at[1] - to[1] \in -1 .. 1 /\ a.at[2] - to[2] \in -1 .. 1
        /\ plan.floor[a.at] - plan.floor[to] \in -1 .. 1
    BY <1>4, <1>5
  <2> QED
    BY <1>1, <1>2, <1>6, <2>1
<1> QED
  BY <1>1, <1>2, <1>3, <1>7, <1>8

\* Those before u on the list have made the steps that they had announced.
Ahead(r, u) ==
  ~plan.public => \A j \in DOMAIN r.present : r.present[j] = u =>
                    \A i \in 1 .. j - 1 : r.user[r.present[i]].pending = Nowhere
TurnOk(J, T, r, s, u) ==
  /\ Good(items, J, T, s) /\ (Swimming(r) => Swimming(s)) /\ Changes(r, s, u)
  /\ ~plan.public => s.user[u].pending = Nowhere

LEMMA AheadChanges ==
  ASSUME NEW r, NEW s, NEW u \in User, People(r), Changes(r, s, u), Ahead(r, u)
  PROVE  Ahead(s, u)
<1>1. s.present = r.present /\ r \in Room /\ IsInjective(r.present)
  BY DEF Changes, People
<1>2. ASSUME NEW j \in DOMAIN r.present, r.present[j] = u, NEW i \in 1 .. j - 1
      PROVE  s.user[r.present[i]] = r.user[r.present[i]]
  <2>1. i \in DOMAIN r.present /\ i # j
    BY <1>1, ListParts
  <2>2. r.present[i] \in User /\ r.present[i] # u
    BY <1>1, <1>2, <2>1, ListParts DEF IsInjective
  <2> QED
    BY <2>2 DEF Changes
<1> QED
  BY <1>1, <1>2 DEF Ahead

LEMMA CommitGood ==
  ASSUME plan \in Plans, NEW J, NEW T, NEW r, NEW u, u \in In(r), Good(items, J, T, r),
         r.user[u].pending # Nowhere
  PROVE  TurnOk(J, T, r, Commit(r, u), u) /\ Commit(r, u).user[u].pending = Nowhere
<1>1. r \in Room /\ u \in User /\ Body(r.user[u])
  BY InUsers DEF Good, People
<1>2. PICK s : s = Commit(r, u)
  OBVIOUS
<1> DEFINE a == r.user[u]
           b == s.user[u]
<1>3. /\ Changes(r, s, u) /\ Still(r, s, u) /\ s.exits = r.exits
      /\ Body(b) /\ Kindred(a, b) /\ b.at = a.pending /\ b.pending = Nowhere
      /\ b.goal = a.goal /\ b.slid
  BY <1>1, <1>2, CommitDoes
<1> HIDE DEF a, b
<1>4. Keeps(a) = a.pending /\ Keeps(b) = a.pending
  BY <1>3 DEF Keeps, a
<1>5. Obeys(J, u, b, u \in s.exits)
  <2>1. Obeys(J, u, a, u \in r.exits)
    BY DEF Good, Minds, a
  <2> QED
    BY <1>3, <2>1 DEF Obeys, Kindred, a
<1>6. Ends(T, u, b)
  BY <1>3, EndsKindred DEF Good, Minds, a
<1>7. ~s.shared => ~r.shared
  BY <1>3, SharedGrows
<1>8. People(s)
  BY <1>1, <1>3, PeopleChange DEF Good, b
<1>9. Placed(s)
  BY <1>1, <1>3, PlacedStill DEF Good
<1>10. Minds(J, T, s)
  BY <1>1, <1>3, <1>5, <1>6, MindsChange DEF Good, b
<1>11. Sits(items, s)
  <2>1. Rests(items, b)
    BY <1>3 DEF Rests, Lazy
  <2> QED
    BY <1>1, <1>3, <1>7, <2>1, SitsChange DEF Good, b
<1>12. First(s)
  <2>1. ~s.shared => \A v \in In(r) \ {u} : Keeps(r.user[v]) # s.user[u].at
    BY <1>3, <1>4, <1>7 DEF Good, Placed, Apart, a, b
  <2>2. ~Lazy(s.user[u])
    BY <1>3 DEF Lazy, b
  <2> QED
    BY <1>1, <1>3, <1>7, <2>1, <2>2, FirstMoved DEF Good
<1>13. Serves(s)
  BY <1>3, ServesChange DEF Good
<1>14. Swimming(r) => Swimming(s)
  <2>1. ASSUME Swimming(r) PROVE Bathes(b) /\ Dry(b)
    <3>1. Bathes(a) /\ Dry(a)
      BY <2>1 DEF Swimming, a
    <3>2. Bathes(b)
      BY <1>3, <1>4, <3>1 DEF Bathes, Kindred
    <3> QED
      BY <1>3, <3>1, <3>2, DryKindred
  <2> QED
    BY <1>1, <1>3, <2>1, SwimmingChange DEF b
<1> QED
  BY <1>2, <1>3, <1>8, <1>9, <1>10, <1>11, <1>12, <1>13, <1>14 DEF TurnOk, Good, b

LEMMA StepGood ==
  ASSUME plan \in Plans, Items(items), NEW J, NEW T, NEW r, NEW u, u \in In(r),
         Good(items, J, T, r), r.user[u].pending = Nowhere, r.user[u].goal # Nowhere, Ahead(r, u),
         NEW to \in NextSteps(OpenTiles(r, r.user[u].goal, {"seat", "bed"}),
                              r.user[u].at, r.user[u].goal)
  PROVE  TurnOk(J, T, r, StepTo(r, u, to), u)
<1>1. r \in Room /\ u \in User /\ Body(r.user[u])
  BY InUsers DEF Good, People
<1>2. PICK s : s = StepTo(r, u, to)
  OBVIOUS
<1> DEFINE a == r.user[u]
           b == s.user[u]
           open == OpenTiles(r, a.goal, {"seat", "bed"})
<1>0. to \in open /\ to \in Neighbours(open, a.at) /\ a.at \in Int \X Int
  BY <1>1, StepIsNear, TilesAreTiles DEF Body
<1>15. to \in Tiles /\ State(to) # "blocked"
  BY <1>0, OpenTilesAre
<1>16. to[1] - a.at[1] \in -1 .. 1 /\ to[2] - a.at[2] \in -1 .. 1
       /\ plan.floor[to] - plan.floor[a.at] \in -1 .. 1
  BY <1>0, NeighbourIsNear
<1>3. /\ Changes(r, s, u) /\ Moves(r, s, u, to) /\ s.exits = r.exits
      /\ Body(b) /\ Kindred(a, b) /\ b.at = to /\ b.pending = Nowhere
      /\ b.goal = a.goal /\ Rests(items, b)
  BY <1>1, <1>2, <1>15, StepToDoes
<1> HIDE DEF a, b, open
<1>5. Obeys(J, u, b, u \in s.exits)
  <2>1. Obeys(J, u, a, u \in r.exits)
    BY DEF Good, Minds, a
  <2> QED
    BY <1>3, <2>1 DEF Obeys, Kindred, a
<1>6. Ends(T, u, b)
  BY <1>3, EndsKindred DEF Good, Minds, a
<1>7. ~s.shared => ~r.shared
  BY <1>3, SharedGrows
<1>8. People(s)
  BY <1>1, <1>3, PeopleChange DEF Good, b
<1>9. Placed(s)
  BY <1>1, <1>3, PlacedMoves DEF Good
<1>10. Minds(J, T, s)
  BY <1>1, <1>3, <1>5, <1>6, MindsChange DEF Good, b
<1>11. Sits(items, s)
  BY <1>1, <1>3, <1>7, SitsChange DEF Good, b
<1>12. First(s)
  <2>1. ~s.shared => \A v \in In(r) \ {u} : Keeps(r.user[v]) # s.user[u].at
    BY <1>3, MovesAway DEF b
  <2> QED
    BY <1>1, <1>3, <1>7, <2>1, FirstMoved DEF Good, Ahead
<1>13. Serves(s)
  BY <1>3, ServesChange DEF Good
<1>14. Swimming(r) => Swimming(s)
  <2>1. ASSUME Swimming(r) PROVE Bathes(b) /\ Dry(b)
    <3>1. Bathes(a) /\ Dry(a)
      BY <2>1 DEF Swimming, a
    <3>2. Body(a) /\ a.pending = Nowhere
      BY <1>1 DEF a
    <3>3. Bathes(b)
      BY <1>3, <1>15, <1>16, <3>1, <3>2, StepStaysWet
    <3> QED
      BY <1>3, <3>1, <3>3, DryKindred
  <2> QED
    BY <1>1, <1>3, <2>1, SwimmingChange DEF b
<1> QED
  BY <1>2, <1>3, <1>8, <1>9, <1>10, <1>11, <1>12, <1>13, <1>14 DEF TurnOk, Good, b

LEMMA HaltGood ==
  ASSUME plan \in Plans, NEW J, NEW T, NEW r, NEW s, NEW u, u \in In(r), Good(items, J, T, r),
         r.user[u].pending = Nowhere, StopHalts(r, s, u)
  PROVE  TurnOk(J, T, r, s, u)
<1> DEFINE a == r.user[u]
           b == s.user[u]
<1>1. r \in Room /\ u \in User /\ Body(a)
  BY InUsers DEF Good, People
<1>2. /\ Changes(r, s, u) /\ Still(r, s, u) /\ Body(b) /\ Halts(a, b)
      /\ b.lock => \/ a.at \in DOMAIN plan.triggers
                   \/ a.lock /\ (a.toDoor => u \in s.exits)
  BY DEF StopHalts
<1> HIDE DEF a, b
<1>3. Obeys(J, u, b, u \in s.exits)
  <2>1. Obeys(J, u, a, u \in r.exits) /\ (u \in r.exits => u \in s.exits)
    BY <1>2 DEF Good, Minds, Changes, a
  <2> QED
    BY <1>2, <2>1 DEF Obeys, Halts, a
<1>4. Ends(T, u, b)
  BY <1>2 DEF Good, Minds, Ends, Halts, a
<1>5. ~s.shared => ~r.shared
  BY <1>2, SharedGrows
<1>6. People(s)
  BY <1>1, <1>2, PeopleChange DEF Good, b
<1>7. Placed(s)
  BY <1>1, <1>2, PlacedStill DEF Good
<1>8. Minds(J, T, s)
  BY <1>1, <1>2, <1>3, <1>4, MindsChange DEF Good, b
<1>9. Sits(items, s)
  <2>1. ~s.shared => Rests(items, b)
    BY <1>2, <1>5 DEF Good, Sits, Rests, Lazy, Halts, a
  <2> QED
    BY <1>1, <1>2, <1>5, <2>1, SitsChange DEF Good, b
<1>10. First(s)
  <2>1. s.user[u].at = r.user[u].at /\ (Lazy(s.user[u]) => Lazy(r.user[u]))
    BY <1>2 DEF Halts, Lazy, a, b
  <2> QED
    BY <1>1, <1>2, <1>5, <2>1, FirstStill DEF Good
<1>11. Serves(s)
  BY <1>2, ServesChange DEF Good
<1>12. Swimming(r) => Swimming(s)
  <2>1. ASSUME Swimming(r) PROVE Bathes(b) /\ Dry(b)
    <3>1. Bathes(a) /\ Dry(a)
      BY <2>1 DEF Swimming, a
    <3> QED
      BY <1>2, <3>1 DEF Bathes, Dry, Halts, Keeps
  <2> QED
    BY <1>1, <1>2, <2>1, SwimmingChange DEF b
<1> QED
  BY <1>2, <1>6, <1>7, <1>8, <1>9, <1>10, <1>11, <1>12 DEF TurnOk, Good, b, a, Halts

LEMMA DiveGood ==
  ASSUME plan \in Plans, NEW J, NEW T, NEW r, NEW s, NEW u, u \in In(r), Good(items, J, T, r),
         r.user[u].pending = Nowhere, r.user[u].goal # Nowhere, StopDives(r, s, u)
  PROVE  TurnOk(J, T, r, s, u)
<1> DEFINE a == r.user[u]
           b == s.user[u]
           step == Leads(r, u).step
           name == Leads(r, u).name
<1>1. r \in Room /\ u \in User /\ Body(a)
  BY InUsers DEF Good, People
<1>2. /\ plan.public /\ a.at \in DOMAIN plan.triggers /\ name # "curtains"
      /\ Changes(r, s, u) /\ s.exits = r.exits /\ Body(b) /\ Dives(a, b, name)
      /\ \/ step \in Tiles /\ Moves(r, s, u, step) /\ b.pending = step
         \/ step \notin Tiles /\ Still(r, s, u) /\ b.pending = a.pending
  BY DEF StopDives
<1>0. a.pending = Nowhere /\ a.goal # Nowhere
  OBVIOUS
<1> HIDE DEF a, b, name
<1>3. Obeys(J, u, b, u \in s.exits)
  <2>1. Obeys(J, u, a, u \in r.exits)
    BY DEF Good, Minds, a
  <2> QED
    BY <1>0, <1>2, <2>1 DEF Obeys, Dives
<1>4. Ends(T, u, b)
  <2>1. Ends(T, u, a)
    BY DEF Good, Minds, a
  <2>2. /\ ("wave" \in b.poses <=> "wave" \in a.poses)
        /\ ("sign" \in b.poses <=> "sign" \in a.poses)
    BY <1>2 DEF Dives, InHand
  <2>3. CASE name = "door"
    <3>1. b.forever = a.forever /\ b.poses \cap InHand = a.poses \cap InHand
      BY <1>2, <2>3 DEF Dives, InHand
    <3> QED
      BY <2>1, <2>2, <3>1 DEF Ends
  <2>4. CASE name # "door"
    <3>1. /\ b.poses \cap InHand = {} /\ ("wave" \in a.forever => "wave" \in b.forever)
          /\ ("sign" \in a.forever => "sign" \in b.forever)
      BY <1>2, <2>4 DEF Dives, InHand
    <3> QED
      BY <2>1, <2>2, <3>1 DEF Ends
  <2> QED
    BY <2>3, <2>4
<1>5. ~s.shared => ~r.shared
  BY <1>2, SharedGrows
<1>6. People(s)
  BY <1>1, <1>2, PeopleChange DEF Good, b
<1>7. Placed(s)
  BY <1>1, <1>2, PlacedStill, PlacedMoves DEF Good
<1>8. Minds(J, T, s)
  BY <1>1, <1>2, <1>3, <1>4, MindsChange DEF Good, b
<1>9. Sits(items, s)
  <2>1. ~s.shared => Rests(items, b)
    BY <1>2, <1>5 DEF Good, Sits, Rests, Lazy, Dives, a
  <2> QED
    BY <1>1, <1>2, <1>5, <2>1, SitsChange DEF Good, b
<1>10. First(s)
  BY <1>2 DEF First
<1>11. Serves(s)
  BY <1>2, ServesChange DEF Good
<1>12. Swimming(r) => Swimming(s)
  <2>1. ASSUME Swimming(r) PROVE Bathes(b) /\ Dry(b)
    <3>0. Bathes(a)
      BY <2>1 DEF Swimming, a
    <3>1. SUFFICES ASSUME ~b.flown
                   PROVE  /\ b.at \in Ground(plan) /\ Keeps(b) \in Ground(plan)
                          /\ ("swim" \in b.poses <=> Keeps(b) \in plan.water)
      BY <1>2 DEF Bathes, Dry
    <3>2. ~a.flown /\ b.at = a.at
      BY <1>2, <3>1 DEF Dives
    <3>3. a.at \in Ground(plan) /\ ("swim" \in a.poses <=> a.at \in plan.water)
      BY <1>0, <1>2, <3>0, <3>2 DEF Bathes, Keeps
    <3>4. a.at \in DOMAIN plan.triggers \cap Ground(plan) /\ Leads(r, u) = plan.triggers[a.at]
      BY <1>2, <3>3 DEF Leads, a
    <3>5. /\ step \in TilesOf(plan) /\ (step \in plan.water <=> name = "enter")
          /\ (name = "door" => a.at \notin plan.water)
      <4> HIDE DEF step
      <4>1. /\ Leads(r, u).step \in TilesOf(plan)
            /\ (Leads(r, u).step \in plan.water <=> Leads(r, u).name = "enter")
            /\ (Leads(r, u).name = "door" => a.at \notin plan.water)
        BY <1>2, <3>4, WaterAssumption DEF name
      <4> QED
        BY <4>1 DEF step, name
    <3>6. b.pending = step /\ Keeps(b) = step
      <4>1. step \in Tiles /\ step # Nowhere
        BY <3>5, NowhereIsNoTile DEF Tiles
      <4> QED
        BY <1>2, <4>1 DEF Keeps
    <3>7. step \in Ground(plan)
      BY <3>4, <3>5 DEF Ground
    <3>8. "swim" \in b.poses <=> name = "enter"
      <4>1. CASE name = "door"
        <5>1. "swim" \in b.poses <=> "swim" \in a.poses
          BY <1>2, <4>1 DEF Dives
        <5> QED
          BY <3>3, <3>5, <4>1, <5>1
      <4>2. CASE name # "door"
        BY <1>2, <4>2 DEF Dives
      <4> QED
        BY <4>1, <4>2
    <3> QED
      BY <3>2, <3>3, <3>5, <3>6, <3>7, <3>8
  <2> QED
    BY <1>1, <1>2, <2>1, SwimmingChange DEF b
<1> QED
  BY <1>2, <1>6, <1>7, <1>8, <1>9, <1>10, <1>11, <1>12 DEF TurnOk, Good

LEMMA WalksGood ==
  ASSUME plan \in Plans, Items(items), NEW J, NEW T, NEW r, NEW u, u \in In(r),
         Good(items, J, T, r), r.user[u].pending = Nowhere, Ahead(r, u),
         NEW s \in Walks(r, u)
  PROVE  TurnOk(J, T, r, s, u)
<1>1. r \in Room /\ u \in User /\ Body(r.user[u])
  BY InUsers DEF Good, People
<1>2. CASE r.user[u].goal = Nowhere
  <2>1. s = r
    BY <1>2 DEF Walks
  <2>2. Changes(r, r, u)
    BY <1>1 DEF Changes
  <2> QED
    BY <2>1, <2>2 DEF TurnOk
<1>3. CASE r.user[u].goal # Nowhere
  <2>1. \/ \E n \in NextSteps(OpenTiles(r, r.user[u].goal, {"seat", "bed"}),
                              r.user[u].at, r.user[u].goal) : s = StepTo(r, u, n)
        \/ s = Stop(r, u)
    BY <1>3 DEF Walks
  <2>2. CASE s = Stop(r, u)
    BY <1>1, <1>3, <2>2, StopDoes, HaltGood, DiveGood
  <2> QED
    BY <1>3, <2>1, <2>2, StepGood
<1> QED
  BY <1>2, <1>3

LEMMA TurnGood ==
  ASSUME plan \in Plans, Items(items), NEW J, NEW T, NEW r, NEW u, u \in In(r),
         Good(items, J, T, r), Ahead(r, u), NEW s \in UserTurn(r, u)
  PROVE  TurnOk(J, T, r, s, u)
<1>1. CASE r.user[u].pending = Nowhere
  BY <1>1, WalksGood DEF UserTurn
<1>2. CASE r.user[u].pending # Nowhere
  <2>1. PICK q : q = Commit(r, u)
    OBVIOUS
  <2>2. TurnOk(J, T, r, q, u) /\ q.user[u].pending = Nowhere
    BY <1>2, <2>1, CommitGood
  <2>3. u \in User /\ People(r) /\ u \in In(q)
    BY <2>2, InSame, InUsers DEF TurnOk, Good, People
  <2>4. Ahead(q, u)
    BY <2>2, <2>3, AheadChanges DEF TurnOk
  <2>5. s = q \/ s \in Walks(q, u)
    BY <1>2, <2>1 DEF UserTurn
  <2>6. CASE s \in Walks(q, u)
    <3>1. TurnOk(J, T, q, s, u)
      BY <2>2, <2>3, <2>4, <2>6, WalksGood DEF TurnOk
    <3>2. Changes(r, s, u)
      BY <2>2, <2>3, <3>1, ChangesTwice DEF TurnOk
    <3> QED
      BY <2>2, <3>1, <3>2 DEF TurnOk
  <2> QED
    BY <2>2, <2>5, <2>6
<1> QED
  BY <1>1, <1>2

-----------------------------------------------------------------------------
(* Changes that do not move anybody                                        *)

\* A new avatar in the same place, which does not sit down and does not start to swim.
StaysThere(a, b) ==
  /\ b.at = a.at /\ b.pending = a.pending /\ b.slid = a.slid /\ b.flown = a.flown
  /\ b.poses \cap {"sit", "lay"} = a.poses \cap {"sit", "lay"}
  /\ ("swim" \in b.poses <=> "swim" \in a.poses)

LEMMA PutGood ==
  ASSUME plan \in Plans, NEW I, NEW J, NEW T, NEW K, NEW V, NEW r, NEW u, u \in In(r),
         Good(I, J, T, r), NEW b \in Avatar, StaysThere(r.user[u], b),
         Obeys(K, u, b, u \in r.exits), Ends(V, u, b),
         \A v \in In(r) \ {u} : Obeys(K, v, r.user[v], v \in r.exits) /\ Ends(V, v, r.user[v])
  PROVE  LET s == Put(r, u, b) IN
         /\ Good(I, K, V, s) /\ (Swimming(r) => Swimming(s)) /\ Changes(r, s, u)
         /\ s.exits = r.exits
<1> DEFINE a == r.user[u]
<1>1. r \in Room /\ u \in User /\ Body(a)
  BY InUsers DEF Good, People
<1>2. PICK s : s = Put(r, u, b)
  OBVIOUS
<1>3. Keeps(b) = Keeps(a)
  BY DEF StaysThere, Keeps
<1>4. Changes(r, s, u) /\ Still(r, s, u)
  BY <1>1, <1>2, <1>3, PutChanges
<1>5. s.user[u] = b /\ s.exits = r.exits
  BY <1>1, <1>2, PutParts
<1>6. Body(b)
  BY <1>1 DEF Body, StaysThere
<1> HIDE DEF a
<1>7. ~s.shared => ~r.shared
  BY <1>4, SharedGrows
<1>8. People(s)
  BY <1>1, <1>4, <1>5, <1>6, PeopleChange DEF Good
<1>9. Placed(s)
  BY <1>1, <1>4, PlacedStill DEF Good
<1>10. Minds(K, V, s)
  <2>1. In(s) = In(r) /\ In(r) \subseteq User
    BY <1>1, <1>4, InSame, InUsers
  <2>2. \A v \in In(r) \ {u} : s.user[v] = r.user[v]
    BY <1>4, <2>1 DEF Changes
  <2> QED
    BY <1>5, <2>1, <2>2 DEF Minds
<1>11. Sits(I, s)
  <2>1. ~s.shared => Rests(I, b)
    BY <1>7 DEF Good, Sits, Rests, Lazy, StaysThere
  <2> QED
    BY <1>1, <1>4, <1>5, <1>7, <2>1, SitsChange DEF Good
<1>12. First(s)
  <2>1. s.user[u].at = r.user[u].at /\ (Lazy(s.user[u]) => Lazy(r.user[u]))
    BY <1>5 DEF StaysThere, Lazy
  <2> QED
    BY <1>1, <1>4, <1>7, <2>1, FirstStill DEF Good
<1>13. Serves(s)
  BY <1>4, ServesChange DEF Good
<1>14. Swimming(r) => Swimming(s)
  <2>1. ASSUME Swimming(r) PROVE Bathes(b) /\ Dry(b)
    <3>1. Bathes(a) /\ Dry(a)
      BY <2>1 DEF Swimming, a
    <3> QED
      BY <1>3, <3>1 DEF Bathes, Dry, StaysThere, a
  <2> QED
    BY <1>1, <1>4, <1>5, <2>1, SwimmingChange
<1> QED
  BY <1>2, <1>4, <1>5, <1>8, <1>9, <1>10, <1>11, <1>12, <1>13, <1>14 DEF Good

-----------------------------------------------------------------------------
(* Bots                                                                    *)

\* What changes for a bot that stays where it is.
BotChanges(r, s, b) ==
  /\ s \in Room /\ s.present = r.present /\ s.user = r.user /\ s.exits = r.exits
  /\ s.shared = r.shared /\ s.cut = r.cut /\ r.stuck \subseteq s.stuck
  /\ \A c \in DOMAIN plan.bots \ {b} : s.bots[c] = r.bots[c]

LEMMA BotsAre ==
  ASSUME NEW r \in Room
  PROVE  /\ DOMAIN r.bots = DOMAIN plan.bots
         /\ \A b \in DOMAIN plan.bots : r.bots[b] \in BotState
  BY DEF Room

LEMMA PutBotParts ==
  ASSUME NEW r \in Room, NEW b \in DOMAIN plan.bots, NEW x \in BotState
  PROVE  LET s == PutBot(r, b, x) IN
         /\ BotChanges(r, s, b) /\ s.bots[b] = x /\ s.units = r.units /\ s.stuck = r.stuck
<1> USE DEF Room
<1>1. PICK bots : bots = [r.bots EXCEPT ![b] = x]
  OBVIOUS
<1>2. bots \in [DOMAIN plan.bots -> BotState] /\ bots[b] = x
      /\ \A c \in DOMAIN plan.bots \ {b} : bots[c] = r.bots[c]
  BY <1>1
<1>3. PICK s : s = [r EXCEPT !.bots = bots]
  OBVIOUS
<1>4. /\ s \in Room /\ s.present = r.present /\ s.user = r.user /\ s.exits = r.exits
      /\ s.shared = r.shared /\ s.cut = r.cut /\ s.stuck = r.stuck /\ s.units = r.units
      /\ s.bots = bots
  BY <1>2, <1>3
<1>5. s = PutBot(r, b, x)
  BY <1>1, <1>3 DEF PutBot
<1>6. BotChanges(r, s, b) /\ s.bots[b] = x
  BY <1>2, <1>4 DEF BotChanges
<1> QED
  BY <1>4, <1>5, <1>6

\* A bot changes nothing about users.
LEMMA BotChangesUsers ==
  ASSUME NEW I, NEW J, NEW T, NEW r, NEW s, NEW b, Good(I, J, T, r), BotChanges(r, s, b)
  PROVE  /\ People(s) /\ Minds(J, T, s) /\ Sits(I, s) /\ First(s)
         /\ (Swimming(r) => Swimming(s)) /\ In(s) = In(r) /\ UserTiles(s) = UserTiles(r)
         /\ (Apart(r) => Apart(s))
<1>1. /\ s.present = r.present /\ s.user = r.user /\ s.exits = r.exits /\ s.shared = r.shared
      /\ s \in Room
  BY DEF BotChanges
<1>2. In(s) = In(r)
  BY <1>1 DEF In
<1>3. People(s)
  BY <1>1, <1>2 DEF Good, People
<1>4. Minds(J, T, s)
  BY <1>1, <1>2 DEF Good, Minds
<1>5. Sits(I, s)
  BY <1>1, <1>2 DEF Good, Sits
<1>6. First(s)
  BY <1>1 DEF Good, First
<1>7. Swimming(r) => Swimming(s)
  BY <1>1, <1>2 DEF Swimming
<1>8. UserTiles(s) = UserTiles(r) /\ (Apart(r) => Apart(s))
  BY <1>1, <1>2 DEF UserTiles, Apart
<1> QED
  BY <1>2, <1>3, <1>4, <1>5, <1>6, <1>7, <1>8

LEMMA BotTilesAre ==
  ASSUME NEW r \in Room, NEW s, NEW b \in DOMAIN plan.bots, BotChanges(r, s, b)
  PROVE  /\ BotTiles(r) = {r.bots[c].at : c \in DOMAIN plan.bots \ {b}} \cup {r.bots[b].at}
         /\ BotTiles(s) = {r.bots[c].at : c \in DOMAIN plan.bots \ {b}} \cup {s.bots[b].at}
<1>1. DOMAIN r.bots = DOMAIN plan.bots /\ DOMAIN s.bots = DOMAIN plan.bots
  BY BotsAre DEF BotChanges
<1>2. {s.bots[c].at : c \in DOMAIN plan.bots \ {b}} = {r.bots[c].at : c \in DOMAIN plan.bots \ {b}}
  BY DEF BotChanges
<1>3. BotTiles(s) = {s.bots[c].at : c \in DOMAIN plan.bots \ {b}} \cup {s.bots[b].at}
  BY <1>1 DEF BotTiles
<1>4. BotTiles(r) = {r.bots[c].at : c \in DOMAIN plan.bots \ {b}} \cup {r.bots[b].at}
  BY <1>1 DEF BotTiles
<1> QED
  BY <1>2, <1>3, <1>4

BotOk(J, T, r, s) ==
  /\ Good(items, J, T, s) /\ (Swimming(r) => Swimming(s)) /\ s.present = r.present

\* A bot that stays on its tile, and keeps its place or its order in mind.
LEMMA BotStaysGood ==
  ASSUME NEW J, NEW T, NEW r, NEW s, NEW b \in DOMAIN plan.bots, Good(items, J, T, r),
         BotChanges(r, s, b), s.units = r.units, s.bots[b].at = r.bots[b].at,
         s.bots[b].customer # NoUser => s.bots[b].goal # Nowhere \/ b \in s.stuck
  PROVE  BotOk(J, T, r, s)
<1>1. r \in Room /\ s \in Room
  BY DEF Good, People, BotChanges
<1>2. /\ People(s) /\ Minds(J, T, s) /\ Sits(items, s) /\ First(s)
      /\ (Swimming(r) => Swimming(s)) /\ UserTiles(s) = UserTiles(r) /\ (Apart(r) => Apart(s))
  BY BotChangesUsers
<1>3. BotTiles(s) = BotTiles(r)
  <2>1. /\ BotTiles(r) = {r.bots[c].at : c \in DOMAIN plan.bots \ {b}} \cup {r.bots[b].at}
        /\ BotTiles(s) = {r.bots[c].at : c \in DOMAIN plan.bots \ {b}} \cup {s.bots[b].at}
    BY <1>1, BotTilesAre
  <2> QED
    BY <2>1
<1>4. \A c \in DOMAIN plan.bots : s.bots[c].at = r.bots[c].at
  BY DEF BotChanges
<1>5. BotsApart(r) => BotsApart(s)
  BY <1>1, <1>4, BotsAre DEF BotsApart
<1>6. Placed(s)
  BY <1>2, <1>3, <1>5 DEF Good, Placed, BotChanges
<1>7. Serves(s)
  BY <1>1, BotsAre DEF Good, Serves, BotChanges
<1> QED
  BY <1>2, <1>6, <1>7 DEF Good, BotOk, BotChanges

\* A bot that walks takes a free tile.
LEMMA BotStepGood ==
  ASSUME plan \in Plans, NEW J, NEW T, NEW r, NEW b \in DOMAIN plan.bots, Good(items, J, T, r),
         r.bots[b].goal # Nowhere, NEW to \in Tiles, to \notin r.units
  PROVE  BotOk(J, T, r, BotStepTo(r, b, to))
<1>1. r \in Room /\ r.bots[b] \in BotState
  BY BotsAre DEF Good, People
<1>2. PICK x : x = [r.bots[b] EXCEPT !.at = to]
  OBVIOUS
<1>3. x \in BotState /\ x.at = to /\ x.goal = r.bots[b].goal /\ x.customer = r.bots[b].customer
  BY <1>1, <1>2 DEF BotState
<1>4. PICK q : q = PutBot(r, b, x)
  OBVIOUS
<1>5. BotChanges(r, q, b) /\ q.bots[b] = x /\ q.units = r.units /\ q.stuck = r.stuck
  BY <1>1, <1>3, <1>4, PutBotParts
<1>6. PICK units : units = (r.units \ {r.bots[b].at}) \cup {to}
  OBVIOUS
<1>7. units \subseteq Tiles
  BY <1>1, <1>6 DEF Room
<1>8. PICK s : s = [q EXCEPT !.units = units]
  OBVIOUS
<1>9. /\ s \in Room /\ s.units = units /\ s.present = q.present /\ s.user = q.user
      /\ s.exits = q.exits /\ s.shared = q.shared /\ s.cut = q.cut /\ s.stuck = q.stuck
      /\ s.bots = q.bots
  BY <1>5, <1>7, <1>8 DEF BotChanges, Room
<1>10. BotChanges(r, s, b) /\ s.bots[b] = x /\ s.stuck = r.stuck
  BY <1>5, <1>9 DEF BotChanges
<1>11. s = BotStepTo(r, b, to)
  BY <1>2, <1>4, <1>5, <1>6, <1>8 DEF BotStepTo
<1>12. /\ People(s) /\ Minds(J, T, s) /\ Sits(items, s) /\ First(s)
       /\ (Swimming(r) => Swimming(s)) /\ UserTiles(s) = UserTiles(r) /\ (Apart(r) => Apart(s))
  BY <1>10, BotChangesUsers
<1> DEFINE rest == {r.bots[c].at : c \in DOMAIN plan.bots \ {b}}
<1>13. BotTiles(r) = rest \cup {r.bots[b].at} /\ BotTiles(s) = rest \cup {to}
  BY <1>1, <1>3, <1>10, BotTilesAre
<1>14. BotsApart(r) => r.bots[b].at \notin rest
  BY <1>1, BotsAre DEF BotsApart
<1>15. ASSUME BotsApart(r), BotTiles(r) \subseteq r.units
       PROVE  BotsApart(s)
  <2>1. \A c \in DOMAIN plan.bots \ {b} : s.bots[c] = r.bots[c] /\ r.bots[c].at # to
    BY <1>10, <1>13, <1>15 DEF BotChanges
  <2>2. DOMAIN s.bots = DOMAIN plan.bots /\ DOMAIN r.bots = DOMAIN plan.bots
    BY <1>1, <1>9, BotsAre
  <2>3. s.bots[b].at = to
    BY <1>3, <1>10
  <2> QED
    BY <1>15, <2>1, <2>2, <2>3 DEF BotsApart
<1> HIDE DEF rest
<1>16. s.shared = r.shared /\ s.cut = r.cut /\ s.units = (r.units \ {r.bots[b].at}) \cup {to}
  BY <1>6, <1>9, <1>10 DEF BotChanges
<1>17. Placed(r)
  BY DEF Good
<1>18. ~s.cut => s.units \subseteq UserTiles(s) \cup BotTiles(s)
  BY <1>12, <1>13, <1>16, <1>17 DEF Placed
<1>19. ~s.shared => Apart(s)
  BY <1>12, <1>16, <1>17 DEF Placed
<1>20. ASSUME ~s.cut, ~s.shared
       PROVE  /\ UserTiles(s) \cup BotTiles(s) \subseteq s.units
              /\ UserTiles(s) \cap BotTiles(s) = {} /\ BotsApart(s)
  <2>1. /\ UserTiles(r) \cup BotTiles(r) \subseteq r.units
        /\ UserTiles(r) \cap BotTiles(r) = {} /\ BotsApart(r)
    BY <1>16, <1>17, <1>20 DEF Placed
  <2>2. r.bots[b].at \notin rest /\ r.bots[b].at \notin UserTiles(r)
    BY <1>13, <1>14, <2>1
  <2>3. UserTiles(s) \cup BotTiles(s) \subseteq s.units
    BY <1>12, <1>13, <1>16, <2>1, <2>2
  <2>4. UserTiles(s) \cap BotTiles(s) = {}
    BY <1>12, <1>13, <2>1
  <2> QED
    BY <1>15, <2>1, <2>3, <2>4
<1>21. Placed(s)
  BY <1>18, <1>19, <1>20 DEF Placed
<1>22. Serves(s)
  <2>1. DOMAIN s.bots = DOMAIN plan.bots /\ DOMAIN r.bots = DOMAIN plan.bots
    BY <1>1, <1>9, BotsAre
  <2>2. s.bots[b].goal # Nowhere
    BY <1>3, <1>10
  <2> QED
    BY <1>10, <2>1, <2>2 DEF Good, Serves, BotChanges
<1>23. s.present = r.present
  BY <1>10 DEF BotChanges
<1> QED
  BY <1>11, <1>12, <1>21, <1>22, <1>23 DEF Good, BotOk

LEMMA ServeGood ==
  ASSUME plan \in Plans, NEW J, NEW T, NEW r, NEW u, Good(items, J, T, r)
  PROVE  LET s == Serve(r, u) IN
         BotOk(J, T, r, s) /\ s.bots = r.bots /\ s.stuck = r.stuck
<1>1. CASE u \notin In(r)
  BY <1>1 DEF Serve, In, BotOk
<1>2. CASE u \in In(r)
  <2> DEFINE a == r.user[u]
  <2>1. r \in Room /\ u \in User /\ a \in Avatar
    BY <1>2, InUsers DEF Good, People, Body
  <2>2. PICK b : b = [a EXCEPT !.poses = @ \cup {"carryd"}, !.forever = @ \cup {"carryd"}]
    OBVIOUS
  <2>3. /\ b \in Avatar /\ b.poses = a.poses \cup {"carryd"}
        /\ b.forever = a.forever \cup {"carryd"}
        /\ b.at = a.at /\ b.goal = a.goal /\ b.pending = a.pending /\ b.slid = a.slid
        /\ b.flown = a.flown /\ b.lock = a.lock /\ b.lost = a.lost /\ b.toDoor = a.toDoor
        /\ b.turned = a.turned
    BY <2>1, <2>2 DEF Avatar, Pose
  <2>4. StaysThere(a, b)
    BY <2>3 DEF StaysThere
  <2>5. Obeys(J, u, a, u \in r.exits) /\ Ends(T, u, a)
    BY <1>2 DEF Good, Minds
  <2>6. Obeys(J, u, b, u \in r.exits)
    BY <2>3, <2>5 DEF Obeys
  <2>7. Ends(T, u, b)
    BY <2>3, <2>5 DEF Ends
  <2>8. \A v \in In(r) \ {u} : Obeys(J, v, r.user[v], v \in r.exits) /\ Ends(T, v, r.user[v])
    BY DEF Good, Minds
  <2>9. PICK s : s = Put(r, u, b)
    OBVIOUS
  <2>10. Good(items, J, T, s) /\ (Swimming(r) => Swimming(s)) /\ Changes(r, s, u)
    BY <1>2, <2>3, <2>4, <2>6, <2>7, <2>8, <2>9, PutGood
  <2>11. s = Serve(r, u)
    BY <1>2, <2>2, <2>9 DEF Serve, In
  <2> QED
    BY <2>10, <2>11 DEF BotOk, Changes
<1> QED
  BY <1>1, <1>2

LEMMA BotOkTwice ==
  ASSUME NEW J, NEW T, NEW r, NEW s, NEW t, BotOk(J, T, r, s), BotOk(J, T, s, t)
  PROVE  BotOk(J, T, r, t)
  BY DEF BotOk

LEMMA BotStopGood ==
  ASSUME plan \in Plans, NEW J, NEW T, NEW r, NEW b \in DOMAIN plan.bots, Good(items, J, T, r)
  PROVE  BotOk(J, T, r, BotStop(r, b))
<1> DEFINE x == r.bots[b]
<1>1. r \in Room /\ x \in BotState
  BY BotsAre DEF Good, People
<1>2. CASE x.at = x.goal
  <2>1. PICK q : q = Serve(r, x.customer)
    OBVIOUS
  <2>2. BotOk(J, T, r, q) /\ q.bots = r.bots /\ q.stuck = r.stuck
    BY <2>1, ServeGood
  <2>3. PICK y : y = [x EXCEPT !.goal = Nowhere, !.customer = NoUser]
    OBVIOUS
  <2>4. y \in BotState /\ y.at = x.at /\ y.customer = NoUser
    BY <1>1, <2>3, NowhereIsNoTile DEF BotState
  <2>5. PICK s : s = PutBot(q, b, y)
    OBVIOUS
  <2>6. q \in Room
    BY <2>2 DEF BotOk, Good, People
  <2>7. BotChanges(q, s, b) /\ s.bots[b] = y /\ s.units = q.units
    BY <2>4, <2>5, <2>6, PutBotParts
  <2>8. s.bots[b].at = q.bots[b].at /\ s.bots[b].customer = NoUser
    BY <2>2, <2>4, <2>7
  <2>9. BotOk(J, T, q, s)
    BY <2>2, <2>7, <2>8, BotStaysGood DEF BotOk
  <2>10. s = BotStop(r, b)
    BY <1>2, <2>1, <2>3, <2>5 DEF BotStop
  <2> QED
    BY <2>2, <2>9, <2>10, BotOkTwice
<1>3. CASE x.at # x.goal
  <2>1. PICK y : y = [x EXCEPT !.goal = Nowhere]
    OBVIOUS
  <2>2. y \in BotState /\ y.at = x.at /\ y.customer = x.customer
    BY <1>1, <2>1, NowhereIsNoTile DEF BotState
  <2>3. PICK q : q = PutBot(r, b, y)
    OBVIOUS
  <2>4. BotChanges(r, q, b) /\ q.bots[b] = y /\ q.units = r.units /\ q.stuck = r.stuck
    BY <1>1, <2>2, <2>3, PutBotParts
  <2>5. PICK stuck : stuck = IF x.customer # NoUser THEN r.stuck \cup {b} ELSE r.stuck
    OBVIOUS
  <2>6. stuck \in SUBSET Bot /\ r.stuck \subseteq stuck /\ (x.customer # NoUser => b \in stuck)
    <3>1. r.stuck \subseteq Bot
      BY <1>1 DEF Room
    <3>2. b \in Bot
      BY PlansAssumption
    <3> QED
      BY <2>5, <3>1, <3>2
  <2>7. PICK s : s = [q EXCEPT !.stuck = stuck]
    OBVIOUS
  <2>8. /\ s \in Room /\ s.units = q.units /\ s.present = q.present /\ s.user = q.user
        /\ s.exits = q.exits /\ s.shared = q.shared /\ s.cut = q.cut /\ s.stuck = stuck
        /\ s.bots = q.bots
    BY <2>4, <2>6, <2>7 DEF BotChanges, Room
  <2>9. BotChanges(r, s, b)
    BY <2>4, <2>6, <2>8 DEF BotChanges
  <2>10. s.units = r.units /\ s.bots[b].at = r.bots[b].at
    BY <2>2, <2>4, <2>8
  <2>11. s.bots[b].customer # NoUser => b \in s.stuck
    BY <2>2, <2>4, <2>6, <2>8
  <2>12. BotOk(J, T, r, s)
    BY <2>9, <2>10, <2>11, BotStaysGood
  <2>13. s = BotStop(r, b)
    BY <1>3, <2>1, <2>3, <2>4, <2>5, <2>7 DEF BotStop
  <2> QED
    BY <2>12, <2>13
<1> QED
  BY <1>2, <1>3

LEMMA BotWalksGood ==
  ASSUME plan \in Plans, NEW J, NEW T, NEW r, NEW b \in DOMAIN plan.bots, Good(items, J, T, r),
         NEW s \in BotWalks(r, b)
  PROVE  BotOk(J, T, r, s)
<1> DEFINE x == r.bots[b]
           open == OpenTiles(r, x.goal, {"seat"})
<1>1. CASE x.goal = Nowhere
  BY <1>1 DEF BotWalks, BotOk
<1>2. CASE x.goal # Nowhere
  <2>1. (\E n \in NextSteps(open, x.at, x.goal) : s = BotStepTo(r, b, n)) \/ s = BotStop(r, b)
    BY <1>2 DEF BotWalks
  <2>2. CASE s = BotStop(r, b)
    BY <2>2, BotStopGood
  <2>3. ASSUME NEW n \in NextSteps(open, x.at, x.goal), s = BotStepTo(r, b, n)
        PROVE  BotOk(J, T, r, s)
    <3>1. r \in Room /\ x \in BotState
      BY BotsAre DEF Good, People
    <3>2. x.at \in Int \X Int
      BY <3>1, TilesAreTiles DEF BotState
    <3>3. n \in open
      BY <3>2, StepIsNear
    <3>4. n \in Tiles /\ n \notin r.units
      BY <3>3, OpenTilesAre
    <3> QED
      BY <1>2, <2>3, <3>4, BotStepGood
  <2> QED
    BY <2>1, <2>2, <2>3
<1> QED
  BY <1>1, <1>2

LEMMA BotTurnGood ==
  ASSUME plan \in Plans, NEW J, NEW T, NEW r, NEW b \in DOMAIN plan.bots, Good(items, J, T, r),
         NEW s \in BotTurn(r, b)
  PROVE  BotOk(J, T, r, s)
<1> DEFINE x == r.bots[b]
<1>1. r \in Room /\ x \in BotState
  BY BotsAre DEF Good, People
<1>2. CASE x.goal = Nowhere /\ x.customer = NoUser
  <2>1. PICK q \in SetsOut(r, b) : s \in BotWalks(q, b)
    BY <1>2 DEF BotTurn
  <2>2. BotOk(J, T, r, q)
    <3>1. CASE q = r
      BY <3>1 DEF BotOk
    <3>2. ASSUME NEW t \in Targets(b), q = PutBot(r, b, [x EXCEPT !.goal = t])
          PROVE  BotOk(J, T, r, q)
      <4>1. t \in Int \X Int
        BY TilesAreTiles DEF Targets, CanStand
      <4>2. PICK y : y = [x EXCEPT !.goal = t]
        OBVIOUS
      <4>3. y \in BotState /\ y.at = x.at /\ y.customer = NoUser
        BY <1>1, <1>2, <4>1, <4>2 DEF BotState
      <4>4. BotChanges(r, q, b) /\ q.bots[b] = y /\ q.units = r.units
        BY <1>1, <3>2, <4>2, <4>3, PutBotParts
      <4>5. q.bots[b].at = r.bots[b].at /\ q.bots[b].customer = NoUser
        BY <4>3, <4>4
      <4> QED
        BY <4>4, <4>5, BotStaysGood
    <3> QED
      BY <2>1, <3>1, <3>2 DEF SetsOut
  <2>3. BotOk(J, T, q, s)
    BY <2>1, <2>2, BotWalksGood DEF BotOk
  <2> QED
    BY <2>2, <2>3, BotOkTwice
<1>3. CASE ~(x.goal = Nowhere /\ x.customer = NoUser)
  <2>1. s \in BotWalks(r, b)
    BY <1>3 DEF BotTurn
  <2> QED
    BY <2>1, BotWalksGood
<1> QED
  BY <1>2, <1>3

-----------------------------------------------------------------------------
(* The cycle                                                               *)

\* The users' turns, one after the other: every copy that comes out of a turn comes out
\* of a copy before it.
UsersTurns(S, q) == InTurn(S, UserTurn, q)
AfterUser(R, x) == UNION {UserTurn(r, x) : r \in R}
UsersRun(S, n, q, f) ==
  f[0] = S /\ f[n] = UsersTurns(S, q) /\ \A k \in 1 .. n : f[k] = AfterUser(f[k - 1], q[k])
LEMMA UserLoop ==
  ASSUME NEW S, NEW n \in Nat, NEW q \in [1 .. n -> User]
  PROVE  \E f : UsersRun(S, n, q, f)
<1> DEFINE D == 1 .. n
           Round(g, s) == IF s = {} THEN S
                         ELSE UNION {UserTurn(r, q[Max(s)]) : r \in g[s \ {Max(s)}]}
           Is(g) == g = [s \in SUBSET D |-> Round(g, s)]
           Upto(g, m) == \A s \in SUBSET D : Cardinality(s) <= m => g[s] = Round(g, s)
           Q == {m \in Nat : \E g : g = [s \in SUBSET D |-> g[s]] /\ Upto(g, m)}
           c == CHOOSE g : Is(g)
<1>1. UsersTurns(S, q) = c[D]
  <2>1. DOMAIN q = D
    OBVIOUS
  <2>2. UsersTurns(S, q)
          = (CHOOSE g : g = [s \in SUBSET DOMAIN q |->
               IF s = {} THEN S
               ELSE UNION {UserTurn(r, q[Max(s)]) : r \in g[s \ {Max(s)}]}])[DOMAIN q]
    BY DEF UsersTurns, InTurn, FoldLeft, MapThenFoldSet
  <2> QED
    BY <2>1, <2>2
<1>2. IsFiniteSet(D) /\ Cardinality(D) \in Nat
      /\ \A s \in SUBSET D : IsFiniteSet(s) /\ Cardinality(s) \in Nat /\ Cardinality(s) <= Cardinality(D)
  <2>1. IsFiniteSet(D)
    BY FS_Interval
  <2> HIDE DEF D
  <2>2. \A s \in SUBSET D : IsFiniteSet(s) /\ Cardinality(s) <= Cardinality(D)
    BY <2>1, FS_Subset
  <2> QED
    BY <2>1, <2>2, FS_CardinalityType
<1>3. ASSUME NEW s \in SUBSET D, s # {}
      PROVE  /\ Max(s) \in s /\ s \ {Max(s)} \in SUBSET D
             /\ Cardinality(s \ {Max(s)}) = Cardinality(s) - 1
  <2>1. Max(s) \in s
    BY <1>3, MaxIn
  <2> QED
    BY <1>2, <2>1, FS_RemoveElement
<1>4. 0 \in Q
  <2> DEFINE g == [s \in SUBSET D |-> S]
  <2>1. \A s \in SUBSET D : Cardinality(s) <= 0 => s = {}
    BY <1>2, FS_EmptySet
  <2>2. Upto(g, 0)
    BY <2>1
  <2>3. g = [s \in SUBSET D |-> g[s]]
    OBVIOUS
  <2> HIDE DEF g, Upto
  <2> QED
    BY <2>2, <2>3
<1>5. ASSUME NEW m \in Nat, m \in Q
      PROVE  m + 1 \in Q
  <2>1. PICK g : g = [s \in SUBSET D |-> g[s]] /\ Upto(g, m)
    BY <1>5
  <2> DEFINE h == [s \in SUBSET D |-> Round(g, s)]
  <2>2. \A s \in SUBSET D : Cardinality(s) <= m => h[s] = g[s]
    <3> HIDE DEF Round
    <3> QED
      BY <2>1
  <2>3. ASSUME NEW s \in SUBSET D, Cardinality(s) <= m + 1
        PROVE  h[s] = Round(h, s)
    <3>1. CASE s = {}
      BY <3>1
    <3>2. CASE s # {}
      <4>1. s \ {Max(s)} \in SUBSET D /\ Cardinality(s \ {Max(s)}) <= m
        <5>1. Cardinality(s \ {Max(s)}) = Cardinality(s) - 1 /\ s \ {Max(s)} \in SUBSET D
          BY <1>3, <3>2
        <5>2. Cardinality(s) \in Nat /\ Cardinality(s) <= m + 1
          BY <1>2, <2>3
        <5> QED
          BY <5>1, <5>2
      <4>2. h[s \ {Max(s)}] = g[s \ {Max(s)}]
        <5> HIDE DEF h
        <5> QED
          BY <2>2, <4>1
      <4>3. h[s] = Round(g, s)
        <5> HIDE DEF Round
        <5> QED
          OBVIOUS
      <4> HIDE DEF h
      <4> QED
        BY <3>2, <4>2, <4>3
    <3> QED
      BY <3>1, <3>2
  <2>4. h = [s \in SUBSET D |-> h[s]]
    OBVIOUS
  <2> HIDE DEF h
  <2>5. Upto(h, m + 1)
    BY <2>3
  <2>6. \E k : k = [s \in SUBSET D |-> k[s]] /\ Upto(k, m + 1)
    BY <2>4, <2>5
  <2> HIDE DEF Round, Upto
  <2> QED
    BY <2>6
<1> HIDE DEF Q
<1>6. Cardinality(D) \in Q
  BY <1>2, <1>4, <1>5, NatInduct
<1>7. PICK g : g = [s \in SUBSET D |-> g[s]] /\ Upto(g, Cardinality(D))
  BY <1>6 DEF Q
<1>8. Is(g)
  <2>1. \A s \in SUBSET D : g[s] = Round(g, s)
    BY <1>2, <1>7
  <2> HIDE DEF Round
  <2> QED
    BY <1>7, <2>1
<1>9. Is(c)
  <2> HIDE DEF Is
  <2> QED
    BY <1>8
<1> HIDE DEF c
<1>10. \A s \in SUBSET D : c[s] = Round(c, s)
  <2> HIDE DEF Round
  <2> QED
    BY <1>9
<1> DEFINE f == [k \in 0 .. n |-> c[1 .. k]]
<1>11. f[0] = S
  <2>1. 1 .. 0 = {}
    OBVIOUS
  <2>2. c[{}] = Round(c, {})
    <3> HIDE DEF Round
    <3> QED
      BY <1>10
  <2> QED
    BY <2>1, <2>2
<1>12. ASSUME NEW k \in 1 .. n
       PROVE  f[k] = AfterUser(f[k - 1], q[k])
  <2>1. k - 1 \in Nat /\ k - 1 + 1 = k /\ 1 .. k \in SUBSET D /\ k \in 0 .. n /\ k - 1 \in 0 .. n
    OBVIOUS
  <2>2. Max(1 .. k) = k /\ (1 .. k) \ {k} = 1 .. k - 1 /\ 1 .. k # {}
    BY <2>1, MaxUpTo
  <2>3. c[1 .. k] = Round(c, 1 .. k)
    <3> HIDE DEF Round
    <3> QED
      BY <1>10, <2>1
  <2>4. f[k] = c[1 .. k] /\ f[k - 1] = c[1 .. k - 1]
    BY <2>1
  <2> QED
    BY <2>2, <2>3, <2>4 DEF AfterUser
<1>13. f[n] = UsersTurns(S, q)
  BY <1>1
<1> HIDE DEF f
<1> QED
  BY <1>11, <1>12, <1>13 DEF UsersRun

\* The bots' turns.
BotsTurns(S, q) == InTurn(S, BotTurn, q)
AfterBot(R, x) == UNION {BotTurn(r, x) : r \in R}
BotsRun(S, n, q, f) ==
  f[0] = S /\ f[n] = BotsTurns(S, q) /\ \A k \in 1 .. n : f[k] = AfterBot(f[k - 1], q[k])
LEMMA BotLoop ==
  ASSUME NEW S, NEW n \in Nat, NEW q \in [1 .. n -> DOMAIN plan.bots]
  PROVE  \E f : BotsRun(S, n, q, f)
<1> DEFINE D == 1 .. n
           Round(g, s) == IF s = {} THEN S
                         ELSE UNION {BotTurn(r, q[Max(s)]) : r \in g[s \ {Max(s)}]}
           Is(g) == g = [s \in SUBSET D |-> Round(g, s)]
           Upto(g, m) == \A s \in SUBSET D : Cardinality(s) <= m => g[s] = Round(g, s)
           Q == {m \in Nat : \E g : g = [s \in SUBSET D |-> g[s]] /\ Upto(g, m)}
           c == CHOOSE g : Is(g)
<1>1. BotsTurns(S, q) = c[D]
  <2>1. DOMAIN q = D
    OBVIOUS
  <2>2. BotsTurns(S, q)
          = (CHOOSE g : g = [s \in SUBSET DOMAIN q |->
               IF s = {} THEN S
               ELSE UNION {BotTurn(r, q[Max(s)]) : r \in g[s \ {Max(s)}]}])[DOMAIN q]
    BY DEF BotsTurns, InTurn, FoldLeft, MapThenFoldSet
  <2> QED
    BY <2>1, <2>2
<1>2. IsFiniteSet(D) /\ Cardinality(D) \in Nat
      /\ \A s \in SUBSET D : IsFiniteSet(s) /\ Cardinality(s) \in Nat /\ Cardinality(s) <= Cardinality(D)
  <2>1. IsFiniteSet(D)
    BY FS_Interval
  <2> HIDE DEF D
  <2>2. \A s \in SUBSET D : IsFiniteSet(s) /\ Cardinality(s) <= Cardinality(D)
    BY <2>1, FS_Subset
  <2> QED
    BY <2>1, <2>2, FS_CardinalityType
<1>3. ASSUME NEW s \in SUBSET D, s # {}
      PROVE  /\ Max(s) \in s /\ s \ {Max(s)} \in SUBSET D
             /\ Cardinality(s \ {Max(s)}) = Cardinality(s) - 1
  <2>1. Max(s) \in s
    BY <1>3, MaxIn
  <2> QED
    BY <1>2, <2>1, FS_RemoveElement
<1>4. 0 \in Q
  <2> DEFINE g == [s \in SUBSET D |-> S]
  <2>1. \A s \in SUBSET D : Cardinality(s) <= 0 => s = {}
    BY <1>2, FS_EmptySet
  <2>2. Upto(g, 0)
    BY <2>1
  <2>3. g = [s \in SUBSET D |-> g[s]]
    OBVIOUS
  <2> HIDE DEF g, Upto
  <2> QED
    BY <2>2, <2>3
<1>5. ASSUME NEW m \in Nat, m \in Q
      PROVE  m + 1 \in Q
  <2>1. PICK g : g = [s \in SUBSET D |-> g[s]] /\ Upto(g, m)
    BY <1>5
  <2> DEFINE h == [s \in SUBSET D |-> Round(g, s)]
  <2>2. \A s \in SUBSET D : Cardinality(s) <= m => h[s] = g[s]
    <3> HIDE DEF Round
    <3> QED
      BY <2>1
  <2>3. ASSUME NEW s \in SUBSET D, Cardinality(s) <= m + 1
        PROVE  h[s] = Round(h, s)
    <3>1. CASE s = {}
      BY <3>1
    <3>2. CASE s # {}
      <4>1. s \ {Max(s)} \in SUBSET D /\ Cardinality(s \ {Max(s)}) <= m
        <5>1. Cardinality(s \ {Max(s)}) = Cardinality(s) - 1 /\ s \ {Max(s)} \in SUBSET D
          BY <1>3, <3>2
        <5>2. Cardinality(s) \in Nat /\ Cardinality(s) <= m + 1
          BY <1>2, <2>3
        <5> QED
          BY <5>1, <5>2
      <4>2. h[s \ {Max(s)}] = g[s \ {Max(s)}]
        <5> HIDE DEF h
        <5> QED
          BY <2>2, <4>1
      <4>3. h[s] = Round(g, s)
        <5> HIDE DEF Round
        <5> QED
          OBVIOUS
      <4> HIDE DEF h
      <4> QED
        BY <3>2, <4>2, <4>3
    <3> QED
      BY <3>1, <3>2
  <2>4. h = [s \in SUBSET D |-> h[s]]
    OBVIOUS
  <2> HIDE DEF h
  <2>5. Upto(h, m + 1)
    BY <2>3
  <2>6. \E k : k = [s \in SUBSET D |-> k[s]] /\ Upto(k, m + 1)
    BY <2>4, <2>5
  <2> HIDE DEF Round, Upto
  <2> QED
    BY <2>6
<1> HIDE DEF Q
<1>6. Cardinality(D) \in Q
  BY <1>2, <1>4, <1>5, NatInduct
<1>7. PICK g : g = [s \in SUBSET D |-> g[s]] /\ Upto(g, Cardinality(D))
  BY <1>6 DEF Q
<1>8. Is(g)
  <2>1. \A s \in SUBSET D : g[s] = Round(g, s)
    BY <1>2, <1>7
  <2> HIDE DEF Round
  <2> QED
    BY <1>7, <2>1
<1>9. Is(c)
  <2> HIDE DEF Is
  <2> QED
    BY <1>8
<1> HIDE DEF c
<1>10. \A s \in SUBSET D : c[s] = Round(c, s)
  <2> HIDE DEF Round
  <2> QED
    BY <1>9
<1> DEFINE f == [k \in 0 .. n |-> c[1 .. k]]
<1>11. f[0] = S
  <2>1. 1 .. 0 = {}
    OBVIOUS
  <2>2. c[{}] = Round(c, {})
    <3> HIDE DEF Round
    <3> QED
      BY <1>10
  <2> QED
    BY <2>1, <2>2
<1>12. ASSUME NEW k \in 1 .. n
       PROVE  f[k] = AfterBot(f[k - 1], q[k])
  <2>1. k - 1 \in Nat /\ k - 1 + 1 = k /\ 1 .. k \in SUBSET D /\ k \in 0 .. n /\ k - 1 \in 0 .. n
    OBVIOUS
  <2>2. Max(1 .. k) = k /\ (1 .. k) \ {k} = 1 .. k - 1 /\ 1 .. k # {}
    BY <2>1, MaxUpTo
  <2>3. c[1 .. k] = Round(c, 1 .. k)
    <3> HIDE DEF Round
    <3> QED
      BY <1>10, <2>1
  <2>4. f[k] = c[1 .. k] /\ f[k - 1] = c[1 .. k - 1]
    BY <2>1
  <2> QED
    BY <2>2, <2>3, <2>4 DEF AfterBot
<1>13. f[n] = BotsTurns(S, q)
  BY <1>1
<1> HIDE DEF f
<1> QED
  BY <1>11, <1>12, <1>13 DEF BotsRun

LEMMA UsersTurnsGood ==
  ASSUME plan \in Plans, Items(items), NEW J, NEW T, NEW r, Good(items, J, T, r),
         NEW s \in UsersTurns({r}, r.present)
  PROVE  BotOk(J, T, r, s)
<1> DEFINE L == r.present
           n == Len(r.present)
           Ok(k, q) == /\ BotOk(J, T, r, q)
                       /\ ~plan.public => \A i \in 1 .. k : q.user[L[i]].pending = Nowhere
<1>1. r \in Room /\ IsInjective(L) /\ n \in Nat /\ L \in [1 .. n -> User]
  BY ListParts DEF Good, People, Room
<1> HIDE DEF n
<1>0. PICK f : UsersRun({r}, n, L, f)
  BY <1>1, UserLoop
<1>2. /\ f[0] = {r} /\ f[n] = UsersTurns({r}, L)
      /\ \A k \in 1 .. n : f[k] = AfterUser(f[k - 1], L[k])
  BY <1>0 DEF UsersRun
<1> DEFINE P == {k \in Nat : k <= n => \A q \in f[k] : Ok(k, q)}
<1>3. 0 \in P
  BY <1>2 DEF BotOk
<1>4. ASSUME NEW k \in Nat, k \in P
      PROVE  k + 1 \in P
  <2> SUFFICES ASSUME k + 1 <= n, NEW t \in f[k + 1]
               PROVE  Ok(k + 1, t)
    OBVIOUS
  <2> DEFINE u == L[k + 1]
  <2>1. k + 1 \in 1 .. n /\ k + 1 - 1 = k /\ k <= n
    BY <1>1
  <2>2. PICK q \in f[k] : t \in UserTurn(q, u)
    BY <1>2, <2>1 DEF AfterUser
  <2>3. Ok(k, q)
    BY <1>4, <2>1
  <2>4. Good(items, J, T, q) /\ (Swimming(r) => Swimming(q)) /\ q.present = L
    BY <2>3 DEF BotOk
  <2>5. u \in In(q) /\ u \in User
    BY <1>1, <2>1, <2>4 DEF In, Range
  <2>6. Ahead(q, u)
    <3>1. \A j \in DOMAIN L : L[j] = u => j = k + 1
      BY <1>1, <2>1 DEF IsInjective
    <3>2. ~plan.public => \A i \in 1 .. k : q.user[L[i]].pending = Nowhere
      BY <2>3
    <3> QED
      BY <2>4, <3>1, <3>2 DEF Ahead
  <2>7. TurnOk(J, T, q, t, u)
    BY <2>2, <2>4, <2>5, <2>6, TurnGood
  <2>8. BotOk(J, T, r, t) /\ Changes(q, t, u)
    BY <2>4, <2>7 DEF TurnOk, BotOk, Changes
  <2>9. ASSUME ~plan.public, NEW i \in 1 .. k + 1
        PROVE  t.user[L[i]].pending = Nowhere
    <3>1. CASE i = k + 1
      BY <2>7, <2>9, <3>1 DEF TurnOk
    <3>2. CASE i # k + 1
      <4>1. i \in 1 .. k /\ i \in 1 .. n
        BY <1>1, <2>1, <3>2
      <4>2. q.user[L[i]].pending = Nowhere
        BY <2>3, <2>9, <4>1
      <4>3. L[i] \in User /\ L[i] # u
        BY <1>1, <2>1, <3>2, <4>1 DEF IsInjective
      <4> QED
        BY <2>8, <4>2, <4>3 DEF Changes
    <3> QED
      BY <3>1, <3>2
  <2> QED
    BY <2>8, <2>9
<1> HIDE DEF P
<1>5. n \in P
  BY <1>1, <1>3, <1>4, NatInduct
<1> QED
  BY <1>1, <1>2, <1>5 DEF P

LEMMA SetToSeqIn ==
  ASSUME NEW S, IsFiniteSet(S)
  PROVE  \E n \in Nat : SetToSeq(S) \in [1 .. n -> S]
<1> DEFINE n == Cardinality(S)
<1>1. n \in Nat
  BY FS_CardinalityType
<1>2. ExistsBijection(1 .. n, S)
  BY FS_CardinalityType
<1>3. \E f \in [1 .. n -> S] : IsInjective(f)
  BY <1>2 DEF ExistsBijection, Bijection, Injection, IsInjective
<1>4. SetToSeq(S) \in [1 .. n -> S]
  BY <1>3 DEF SetToSeq
<1> QED
  BY <1>1, <1>4

LEMMA BotsTurnsGood ==
  ASSUME plan \in Plans, NEW J, NEW T, NEW r, NEW S, \A t \in S : BotOk(J, T, r, t),
         NEW s \in BotsTurns(S, SetToSeq(DOMAIN plan.bots))
  PROVE  BotOk(J, T, r, s)
<1>1. IsFiniteSet(DOMAIN plan.bots)
  BY PlansAssumption, WalkingAssumption, FS_Subset
<1> DEFINE q == SetToSeq(DOMAIN plan.bots)
<1>2. PICK n \in Nat : q \in [1 .. n -> DOMAIN plan.bots]
  BY <1>1, SetToSeqIn
<1> HIDE DEF q
<1>0. PICK f : BotsRun(S, n, q, f)
  BY <1>2, BotLoop
<1>3. /\ f[0] = S /\ f[n] = BotsTurns(S, q)
      /\ \A k \in 1 .. n : f[k] = AfterBot(f[k - 1], q[k])
  BY <1>0 DEF BotsRun
<1> DEFINE P == {k \in Nat : k <= n => \A t \in f[k] : BotOk(J, T, r, t)}
<1>4. 0 \in P
  BY <1>3
<1>5. ASSUME NEW k \in Nat, k \in P
      PROVE  k + 1 \in P
  <2> SUFFICES ASSUME k + 1 <= n, NEW t \in f[k + 1]
               PROVE  BotOk(J, T, r, t)
    OBVIOUS
  <2>1. k + 1 \in 1 .. n /\ k + 1 - 1 = k /\ k <= n
    BY <1>2
  <2>2. PICK x \in f[k] : t \in BotTurn(x, q[k + 1])
    BY <1>3, <2>1 DEF AfterBot
  <2>3. BotOk(J, T, r, x) /\ q[k + 1] \in DOMAIN plan.bots
    BY <1>2, <1>5, <2>1
  <2>4. BotOk(J, T, x, t)
    BY <2>2, <2>3, BotTurnGood DEF BotOk
  <2> QED
    BY <2>3, <2>4, BotOkTwice
<1> HIDE DEF P
<1>6. n \in P
  BY <1>2, <1>4, <1>5, NatInduct
<1> QED
  BY <1>2, <1>3, <1>6 DEF P, q

-----------------------------------------------------------------------------
(* Coming and going                                                        *)

\* RemoveFirst on a list without repetitions takes one position out of it.
Closed(L, M, k) ==
  M = [i \in 1 .. Len(L) - 1 |-> IF i < k THEN L[i] ELSE L[i + 1]]

LEMMA RemoveFirstIs ==
  ASSUME NEW L \in Seq(User), IsInjective(L), NEW u \in Range(L)
  PROVE  \E k \in 1 .. Len(L) : L[k] = u /\ Closed(L, RemoveFirst(L, u), k)
<1>1. PICK k \in DOMAIN L : L[k] = u
  BY DEF Range
<1>2. Len(L) \in Nat /\ k \in 1 .. Len(L) /\ DOMAIN L = 1 .. Len(L) /\ k \in Int
  OBVIOUS
<1>3. {i \in 1 .. Len(L) : L[i] = u} = {k}
  BY <1>1, <1>2 DEF IsInjective
<1>4. Min({k}) = k
  BY <1>2 DEF Min
<1>5. SelectInSeq(L, LAMBDA v : v = u) = k
  <2>1. SelectInSeq(L, LAMBDA v : v = u)
          = IF {i \in 1 .. Len(L) : L[i] = u} # {} THEN Min({i \in 1 .. Len(L) : L[i] = u}) ELSE 0
    BY DEF SelectInSeq
  <2> QED
    BY <1>3, <1>4, <2>1
<1>6. RemoveFirst(L, u) = RemoveAt(L, k)
  BY <1>1, <1>2, <1>5 DEF RemoveFirst
<1>7. RemoveAt(L, k) = [i \in 1 .. Len(L) - 1 |-> IF i < k THEN L[i] ELSE L[i + 1]]
  <2> DEFINE A == SubSeq(L, 1, k - 1)
             B == SubSeq(L, k + 1, Len(L))
             C == [i \in 1 .. Len(L) - 1 |-> IF i < k THEN L[i] ELSE L[i + 1]]
  <2>1. A = [i \in 1 .. k - 1 |-> L[i]] /\ A \in Seq(User) /\ Len(A) = k - 1
    BY <1>2
  <2>2. B = [i \in 1 .. Len(L) - k |-> L[i + k]] /\ B \in Seq(User) /\ Len(B) = Len(L) - k
    BY <1>2
  <2>3. C \in Seq(User) /\ Len(C) = Len(L) - 1
    <3>1. \A i \in 1 .. Len(L) - 1 : i \in 1 .. Len(L) /\ i + 1 \in 1 .. Len(L)
      BY <1>2
    <3> QED
      BY <1>2, <3>1
  <2>4. A \o B \in Seq(User) /\ Len(A \o B) = Len(L) - 1
    <3> HIDE DEF A, B
    <3> QED
      BY <1>2, <2>1, <2>2
  <2>5. ASSUME NEW i \in 1 .. Len(L) - 1
        PROVE  (A \o B)[i] = C[i]
    <3>1. CASE i < k
      <4>1. (A \o B)[i] = A[i] /\ A[i] = L[i]
        <5> HIDE DEF A, B
        <5>1. i \in 1 .. k - 1 /\ A[i] = L[i]
          BY <1>2, <2>1, <3>1
        <5> QED
          BY <1>2, <2>1, <2>2, <5>1
      <4> QED
        BY <3>1, <4>1
    <3>2. CASE ~(i < k)
      <4>1. (A \o B)[i] = B[i - (k - 1)]
        <5> HIDE DEF A, B
        <5>1. i > Len(A) /\ i <= Len(A) + Len(B)
          BY <1>2, <2>1, <2>2, <3>2
        <5> QED
          BY <1>2, <2>1, <2>2, <5>1, SMTT(30)
      <4>2. i - (k - 1) \in 1 .. Len(L) - k /\ i - (k - 1) + k = i + 1
        BY <1>2, <3>2
      <4>3. B[i - (k - 1)] = L[i + 1]
        <5> HIDE DEF B
        <5> QED
          BY <2>2, <4>2
      <4> QED
        BY <3>2, <4>1, <4>3
    <3> QED
      BY <3>1, <3>2
  <2> HIDE DEF A, B, C
  <2>6. A \o B = C
    BY <2>3, <2>4, <2>5, SeqEqual
  <2> QED
    BY <2>6 DEF RemoveAt, A, B, C
<1> QED
  BY <1>1, <1>2, <1>6, <1>7 DEF Closed

\* Who is on the list after it was closed up, and in which order.
LEMMA ClosedParts ==
  ASSUME NEW L \in Seq(User), IsInjective(L), NEW k \in 1 .. Len(L), NEW M, Closed(L, M, k)
  PROVE  /\ M \in Seq(User) /\ IsInjective(M) /\ Range(M) = Range(L) \ {L[k]}
         /\ \A j \in DOMAIN M : \A i \in 1 .. j - 1 :
              \E n \in DOMAIN L : \E m \in 1 .. n - 1 : M[j] = L[n] /\ M[i] = L[m]
<1> DEFINE at(i) == IF i < k THEN i ELSE i + 1
<1>1. /\ Len(L) \in Nat /\ DOMAIN L = 1 .. Len(L)
      /\ DOMAIN M = 1 .. Len(L) - 1
  BY DEF Closed
<1>2. \A i \in DOMAIN M : at(i) \in 1 .. Len(L) /\ at(i) # k /\ M[i] = L[at(i)]
  BY <1>1 DEF Closed
<1>3. M \in Seq(User)
  <2>1. \A i \in 1 .. Len(L) - 1 : M[i] \in User
    <3> HIDE DEF at
    <3> QED
      BY <1>1, <1>2
  <2>2. M = [i \in 1 .. Len(L) - 1 |-> M[i]]
    BY DEF Closed
  <2>3. Len(L) - 1 \in Nat
    BY <1>1
  <2> QED
    BY <2>1, <2>2, <2>3, IsASeq
<1>4. \A i, j \in DOMAIN M : at(i) = at(j) => i = j
  BY <1>1
<1>5. IsInjective(M)
  <2> HIDE DEF at
  <2> QED
    BY <1>1, <1>2, <1>4 DEF IsInjective
<1>6. \A m \in DOMAIN L \ {k} : \E i \in DOMAIN M : at(i) = m
  <2> TAKE m \in DOMAIN L \ {k}
  <2>1. CASE m < k
    <3>1. m \in DOMAIN M /\ at(m) = m
      BY <1>1, <2>1
    <3> QED
      BY <3>1
  <2>2. CASE m > k
    <3>1. m - 1 \in DOMAIN M /\ at(m - 1) = m
      BY <1>1, <2>2
    <3> QED
      BY <3>1
  <2> QED
    BY <1>1, <2>1, <2>2
<1>7. ASSUME NEW j \in DOMAIN M, NEW i \in 1 .. j - 1
      PROVE  i \in DOMAIN M /\ at(i) \in 1 .. at(j) - 1
  BY <1>1
<1> HIDE DEF at
<1>8. Range(M) = Range(L) \ {L[k]}
  <2>1. ASSUME NEW x \in Range(M)
        PROVE  x \in Range(L) \ {L[k]}
    <3>1. PICK i \in DOMAIN M : x = M[i]
      BY DEF Range
    <3> QED
      BY <1>1, <1>2, <3>1 DEF Range, IsInjective
  <2>2. ASSUME NEW x \in Range(L) \ {L[k]}
        PROVE  x \in Range(M)
    <3>1. PICK m \in DOMAIN L : x = L[m]
      BY DEF Range
    <3>2. PICK i \in DOMAIN M : at(i) = m
      BY <1>6, <3>1
    <3> QED
      BY <1>2, <3>1, <3>2 DEF Range
  <2> QED
    BY <2>1, <2>2
<1>9. ASSUME NEW j \in DOMAIN M, NEW i \in 1 .. j - 1
      PROVE  \E n \in DOMAIN L : \E m \in 1 .. n - 1 : M[j] = L[n] /\ M[i] = L[m]
  <2>1. at(j) \in DOMAIN L /\ at(i) \in 1 .. at(j) - 1 /\ M[j] = L[at(j)] /\ M[i] = L[at(i)]
    BY <1>1, <1>2, <1>7
  <2> QED
    BY <2>1
<1> QED
  BY <1>3, <1>5, <1>8, <1>9

\* Who goes leaves his place on the list, and his tile.
Gone(p, q, u) ==
  /\ q \in Room /\ q.user[u] = Absent /\ \A v \in User \ {u} : q.user[v] = p.user[v]
  /\ \E k \in 1 .. Len(p.present) : p.present[k] = u /\ Closed(p.present, q.present, k)
  /\ q.units = p.units \ {p.user[u].at} /\ q.shared = p.shared
  /\ q.cut = (p.cut \/ p.user[u].pending # Nowhere)
  /\ q.bots = p.bots /\ q.stuck = p.stuck /\ q.exits = p.exits \ {u}

LEMMA GonePlaced ==
  ASSUME NEW p \in Room, NEW q, NEW u \in In(p), u \in User, Gone(p, q, u), Placed(p),
         In(q) = In(p) \ {u}
  PROVE  Placed(q)
<1> DEFINE rest == {Keeps(p.user[v]) : v \in In(p) \ {u}}
<1>1. \A v \in In(q) : q.user[v] = p.user[v]
  BY InUsers DEF Gone
<1>2. UserTiles(q) = rest
  BY <1>1 DEF UserTiles
<1>3. UserTiles(p) = rest \cup {Keeps(p.user[u])}
  BY DEF UserTiles
<1>4. Apart(p) => Apart(q) /\ Keeps(p.user[u]) \notin rest
  BY <1>1 DEF Apart
<1>5. BotTiles(q) = BotTiles(p) /\ (BotsApart(p) => BotsApart(q))
  BY DEF Gone, BotTiles, BotsApart
<1>6. /\ q.units = p.units \ {p.user[u].at} /\ q.shared = p.shared
      /\ (~q.cut => ~p.cut /\ Keeps(p.user[u]) = p.user[u].at)
  BY DEF Gone, Keeps
<1> HIDE DEF rest
<1>7. ~q.cut => q.units \subseteq UserTiles(q) \cup BotTiles(q)
  BY <1>2, <1>3, <1>5, <1>6 DEF Placed
<1>8. ~q.shared => Apart(q)
  BY <1>4, <1>6 DEF Placed
<1>9. ASSUME ~q.cut, ~q.shared
      PROVE  /\ UserTiles(q) \cup BotTiles(q) \subseteq q.units
             /\ UserTiles(q) \cap BotTiles(q) = {} /\ BotsApart(q)
  <2>1. /\ UserTiles(p) \cup BotTiles(p) \subseteq p.units /\ Apart(p)
        /\ UserTiles(p) \cap BotTiles(p) = {} /\ BotsApart(p)
    BY <1>6, <1>9 DEF Placed
  <2>2. p.user[u].at \notin rest /\ p.user[u].at \notin BotTiles(p)
    BY <1>3, <1>4, <1>6, <1>9, <2>1
  <2> QED
    BY <1>2, <1>3, <1>5, <1>6, <2>1, <2>2
<1> QED
  BY <1>7, <1>8, <1>9 DEF Placed

LEMMA GoneIn ==
  ASSUME NEW p, NEW q, NEW u, u \in In(p), People(p), Gone(p, q, u)
  PROVE  \A v : v \in In(q) <=> v \in In(p) /\ v # u
<1>1. p.present \in Seq(User) /\ IsInjective(p.present)
  BY DEF People, Room
<1>2. PICK k \in 1 .. Len(p.present) : p.present[k] = u /\ Closed(p.present, q.present, k)
  BY DEF Gone
<1>3. Range(q.present) = Range(p.present) \ {u}
  BY <1>1, <1>2, ClosedParts
<1> QED
  BY <1>3 DEF In

LEMMA GoneGood ==
  ASSUME NEW I, NEW J, NEW T, NEW p, NEW q, NEW u \in In(p), Good(I, J, T, p), Gone(p, q, u)
  PROVE  Good(I, J, T, q) /\ (Swimming(p) => Swimming(q))
<1>1. p \in Room /\ q \in Room /\ u \in User /\ p.present \in Seq(User) /\ IsInjective(p.present)
  BY InUsers DEF Good, People, Gone, Room
<1>2. PICK k \in 1 .. Len(p.present) : p.present[k] = u /\ Closed(p.present, q.present, k)
  BY DEF Gone
<1>3. /\ IsInjective(q.present) /\ Range(q.present) = Range(p.present) \ {u}
      /\ \A j \in DOMAIN q.present : \A i \in 1 .. j - 1 :
           \E n \in DOMAIN p.present : \E m \in 1 .. n - 1 :
             q.present[j] = p.present[n] /\ q.present[i] = p.present[m]
  <2>1. PICK L : L = p.present
    OBVIOUS
  <2>2. PICK M : M = q.present
    OBVIOUS
  <2>3. L \in Seq(User) /\ IsInjective(L) /\ k \in 1 .. Len(L) /\ L[k] = u /\ Closed(L, M, k)
    BY <1>1, <1>2, <2>1, <2>2
  <2>4. /\ IsInjective(M) /\ Range(M) = Range(L) \ {L[k]}
        /\ \A j \in DOMAIN M : \A i \in 1 .. j - 1 :
              \E n \in DOMAIN L : \E m \in 1 .. n - 1 : M[j] = L[n] /\ M[i] = L[m]
    BY <2>3, ClosedParts
  <2> QED
    BY <2>1, <2>2, <2>3, <2>4
<1>4. In(q) = In(p) \ {u}
  BY <1>3 DEF In
<1>5. In(p) \subseteq User /\ \A v \in In(q) : q.user[v] = p.user[v]
  BY <1>1, <1>4, InUsers DEF Gone
<1>6. People(q)
  <2>1. q.exits \subseteq In(q)
    BY <1>4 DEF Gone, Good, People
  <2>2. \A v \in In(q) : Body(q.user[v])
    BY <1>4, <1>5 DEF Good, People
  <2>3. \A v \in User \ In(q) : q.user[v] = Absent
    BY <1>4 DEF Gone, Good, People
  <2> QED
    BY <1>1, <1>3, <2>1, <2>2, <2>3 DEF People
<1>7. Placed(q)
  BY <1>1, <1>4, GonePlaced DEF Good
<1>8. Minds(J, T, q)
  <2>1. ASSUME NEW v \in In(q)
        PROVE  Obeys(J, v, q.user[v], v \in q.exits) /\ Ends(T, v, q.user[v])
    <3>1. q.user[v] = p.user[v] /\ v \in In(p) /\ (v \in q.exits <=> v \in p.exits)
      BY <1>4, <1>5 DEF Gone
    <3>2. Obeys(J, v, p.user[v], v \in p.exits) /\ Ends(T, v, p.user[v])
      BY <3>1 DEF Good, Minds
    <3> QED
      BY <3>1, <3>2 DEF Obeys
  <2> QED
    BY <2>1 DEF Minds
<1>9. Sits(I, q)
  BY <1>4, <1>5 DEF Good, Sits, Gone
<1>10. First(q)
  <2> SUFFICES ASSUME ~q.shared, ~plan.public, NEW j \in DOMAIN q.present, NEW i \in 1 .. j - 1,
                      Lazy(q.user[q.present[j]])
               PROVE  q.user[q.present[i]].at # q.user[q.present[j]].at
    BY DEF First
  <2>1. PICK n \in DOMAIN p.present : \E m \in 1 .. n - 1 :
          q.present[j] = p.present[n] /\ q.present[i] = p.present[m]
    BY <1>3
  <2>2. PICK m \in 1 .. n - 1 : q.present[j] = p.present[n] /\ q.present[i] = p.present[m]
    BY <2>1
  <2>3. i \in DOMAIN q.present
    BY <1>1, ListParts
  <2>4. q.present[i] \in In(q) /\ q.present[j] \in In(q)
    BY <1>1, <2>3, ListParts
  <2>5. /\ q.user[q.present[j]] = p.user[p.present[n]]
        /\ q.user[q.present[i]] = p.user[p.present[m]]
    BY <1>5, <2>2, <2>4
  <2>6. ~p.shared
    BY DEF Gone
  <2> QED
    BY <2>2, <2>5, <2>6 DEF Good, First
<1>11. Serves(q)
  BY DEF Good, Serves, Gone
<1>12. Swimming(p) => Swimming(q)
  BY <1>4, <1>5 DEF Swimming
<1> QED
  BY <1>4, <1>6, <1>7, <1>8, <1>9, <1>10, <1>11, <1>12 DEF Good

LEMMA NobodyIsAnAvatar == Absent \in Avatar
  BY NowhereIsNoTile DEF Absent, NewAvatar, Avatar

\* What RemoveRoomUser does, whoever else is going to leave.
LEMMA RemoveDoes ==
  ASSUME NEW r \in Room, IsInjective(r.present), NEW u \in In(r), NEW X \in SUBSET User
  PROVE  LET s == RemoveRoomUser(r, u) IN
         /\ s \in Room /\ s.exits = r.exits
         /\ Gone([r EXCEPT !.exits = X], [s EXCEPT !.exits = X \ {u}], u)
<1>1. u \in User /\ r.present \in Seq(User) /\ r.user \in [User -> Avatar]
  BY InUsers DEF Room
<1>2. PICK M : M = RemoveFirst(r.present, u)
  OBVIOUS
<1>3. PICK k \in 1 .. Len(r.present) : r.present[k] = u /\ Closed(r.present, M, k)
  <2>1. u \in Range(r.present)
    BY DEF In
  <2> QED
    BY <1>1, <1>2, <2>1, RemoveFirstIs
<1>4. M \in Seq(User)
  BY <1>1, <1>3, ClosedParts
<1>5. PICK b : b = BreaksOff(r, u)
  OBVIOUS
<1>6. /\ b \in Room /\ b.user = r.user /\ b.present = r.present /\ b.bots = r.bots
      /\ b.stuck = r.stuck /\ b.exits = r.exits /\ b.units = r.units /\ b.shared = r.shared
      /\ b.cut = (r.cut \/ r.user[u].pending # Nowhere)
  BY <1>5 DEF BreaksOff, Room
<1>7. PICK t : t = [b EXCEPT !.present = M, !.units = r.units \ {r.user[u].at}]
  OBVIOUS
<1>8. /\ t \in Room /\ t.user = r.user /\ t.present = M /\ t.bots = r.bots
      /\ t.stuck = r.stuck /\ t.exits = r.exits /\ t.units = r.units \ {r.user[u].at}
      /\ t.shared = r.shared /\ t.cut = b.cut
  <2>1. r.units \ {r.user[u].at} \in SUBSET Tiles
    BY DEF Room
  <2> QED
    BY <1>4, <1>6, <1>7, <2>1 DEF Room
<1>9. PICK s : s = Put(t, u, Absent)
  OBVIOUS
<1>10. t \in Room
  BY <1>8
<1>11. /\ s \in Room /\ s.user[u] = Absent /\ s.present = t.present /\ s.bots = t.bots
       /\ s.stuck = t.stuck /\ s.exits = t.exits /\ s.units = t.units /\ s.shared = t.shared
       /\ s.cut = t.cut
  <2>1. u \in User
    BY <1>1
  <2> QED
    BY <1>9, <1>10, <2>1, NobodyIsAnAvatar, PutParts, ZenonT(40)
<1>12. \A v \in User \ {u} : s.user[v] = t.user[v]
  BY <1>1, <1>9, <1>10, NobodyIsAnAvatar, PutOthers
<1>13. s = RemoveRoomUser(r, u)
  BY <1>2, <1>5, <1>6, <1>7, <1>9 DEF RemoveRoomUser
<1>14. PICK p : p = [r EXCEPT !.exits = X]
  OBVIOUS
<1>15. PICK q : q = [s EXCEPT !.exits = X \ {u}]
  OBVIOUS
<1>16. /\ p.user = r.user /\ p.present = r.present /\ p.bots = r.bots /\ p.stuck = r.stuck
       /\ p.exits = X /\ p.units = r.units /\ p.shared = r.shared /\ p.cut = r.cut
  BY <1>14 DEF Room
<1>17. /\ q.user = s.user /\ q.present = s.present /\ q.bots = s.bots /\ q.stuck = s.stuck
       /\ q.exits = X \ {u} /\ q.units = s.units /\ q.shared = s.shared /\ q.cut = s.cut
       /\ q \in Room
  BY <1>11, <1>15 DEF Room
<1>18. /\ q.user[u] = Absent /\ q.units = p.units \ {p.user[u].at} /\ q.shared = p.shared
       /\ q.cut = (p.cut \/ p.user[u].pending # Nowhere)
       /\ q.bots = p.bots /\ q.stuck = p.stuck /\ q.exits = p.exits \ {u}
       /\ q.present = M
  BY <1>6, <1>8, <1>11, <1>16, <1>17
<1>19. \A v \in User \ {u} : q.user[v] = p.user[v]
  BY <1>8, <1>12, <1>16, <1>17
<1>20. Gone(p, q, u)
  BY <1>3, <1>16, <1>17, <1>18, <1>19 DEF Gone
<1> QED
  BY <1>8, <1>11, <1>13, <1>14, <1>15, <1>20

\* A room that is read anew has nobody in it.
LEMMA LoadedGood ==
  ASSUME plan \in Plans, NEW I, NEW J, NEW T
  PROVE  /\ Good(I, J, T, Loaded(plan)) /\ Swimming(Loaded(plan))
         /\ Loaded(plan).exits = {}
<1>1. PICK r : r = Loaded(plan)
  OBVIOUS
<1>2. /\ r.present = <<>> /\ r.user = [u \in User |-> Absent]
      /\ r.bots = [b \in DOMAIN plan.bots |->
                    [at |-> plan.bots[b].at, goal |-> Nowhere, customer |-> NoUser]]
      /\ r.units = {plan.bots[b].at : b \in DOMAIN plan.bots}
      /\ r.shared = (\E b, c \in DOMAIN plan.bots : b # c /\ plan.bots[b].at = plan.bots[c].at)
      /\ r.cut = FALSE /\ r.stuck = {} /\ r.exits = {}
      /\ r = [present |-> r.present, user |-> r.user, bots |-> r.bots, units |-> r.units,
              shared |-> r.shared, cut |-> r.cut, stuck |-> r.stuck, exits |-> r.exits]
  BY <1>1 DEF Loaded
<1>3. \A b \in DOMAIN plan.bots : plan.bots[b].at \in Tiles
  BY PlansAssumption DEF Tiles
<1>4. r.bots \in [DOMAIN plan.bots -> BotState]
  BY <1>2, <1>3, NowhereIsNoTile DEF BotState
<1>5. r.units \subseteq Tiles
  BY <1>2, <1>3
<1>6. r.shared \in BOOLEAN
  BY <1>2
<1>7. r.user \in [User -> Avatar]
  BY <1>2, NobodyIsAnAvatar
<1>8. r \in Room
  <2>1. r.present \in Seq(User)
    <3>1. r.present = <<>>
      BY <1>2
    <3> QED
      BY <3>1
  <2>2. r.cut \in BOOLEAN /\ r.stuck \in SUBSET Bot /\ r.exits \in SUBSET User
    BY <1>2
  <2> QED
    BY <1>2, <1>4, <1>5, <1>6, <1>7, <2>1, <2>2 DEF Room
<1>9. In(r) = {} /\ DOMAIN r.present = {}
  BY <1>2 DEF In, Range
<1>10. People(r)
  <2>1. \A u \in User : r.user[u] = Absent
    BY <1>2
  <2> QED
    BY <1>2, <1>8, <1>9, <2>1 DEF People, IsInjective
<1>11. DOMAIN r.bots = DOMAIN plan.bots /\ \A b \in DOMAIN plan.bots : r.bots[b].at = plan.bots[b].at
  BY <1>2
<1>12. UserTiles(r) = {} /\ BotTiles(r) = r.units
  BY <1>2, <1>9, <1>11 DEF UserTiles, BotTiles
<1>13. Placed(r)
  <2>1. ~r.shared => BotsApart(r)
    BY <1>2, <1>11 DEF BotsApart
  <2>2. Apart(r)
    BY <1>9 DEF Apart
  <2> QED
    BY <1>12, <2>1, <2>2 DEF Placed
<1>14. Minds(J, T, r) /\ Sits(I, r) /\ First(r) /\ Swimming(r)
  BY <1>9 DEF Minds, Sits, First, Swimming
<1>15. Serves(r)
  BY <1>2 DEF Serves
<1> QED
  BY <1>1, <1>2, <1>10, <1>13, <1>14, <1>15 DEF Good

LEMMA KeptGood ==
  ASSUME plan \in Plans, NEW I, NEW J, NEW T, NEW r, Good(I, J, T, r), r.exits = {}
  PROVE  Good(I, J, T, Kept(r)) /\ (Swimming(r) => Swimming(Kept(r))) /\ Kept(r).exits = {}
  BY LoadedGood DEF Kept

\* Those who reached the door go one after the other.
Removes(r, g, s) == IF s = {} THEN r ELSE RemoveRoomUser(g[s \ {Picked(s)}], Picked(s))

Exiting(r, X, g) ==
  /\ \A s \in SUBSET X : g[s] = Removes(r, g, s)
  /\ Exit(r) = [g[X] EXCEPT !.exits = {}]

LEMMA ExitLoop ==
  ASSUME NEW r, NEW X, X = r.exits, IsFiniteSet(X)
  PROVE  \E g : Exiting(r, X, g)
<1> DEFINE Is(g) == g = [s \in SUBSET X |-> Removes(r, g, s)]
           Upto(g, n) == \A s \in SUBSET X : Cardinality(s) <= n => g[s] = Removes(r, g, s)
           Q == {n \in Nat : \E g : g = [s \in SUBSET X |-> g[s]] /\ Upto(g, n)}
           c == CHOOSE g : Is(g)
<1>0. \A s \in SUBSET X : IsFiniteSet(s) /\ Cardinality(s) \in Nat
  BY FS_Subset, FS_CardinalityType
<1>1. 0 \in Q
  <2> DEFINE g == [s \in SUBSET X |-> r]
  <2>1. \A s \in SUBSET X : Cardinality(s) <= 0 => s = {}
    BY <1>0, FS_EmptySet
  <2>2. Upto(g, 0)
    BY <2>1 DEF Removes
  <2> QED
    BY <2>2
<1>2. ASSUME NEW n \in Nat, n \in Q
      PROVE  n + 1 \in Q
  <2>1. PICK g : g = [s \in SUBSET X |-> g[s]] /\ Upto(g, n)
    BY <1>2
  <2> DEFINE h == [s \in SUBSET X |-> Removes(r, g, s)]
  <2>2. \A s \in SUBSET X : Cardinality(s) <= n => h[s] = g[s]
    BY <2>1
  <2>3. ASSUME NEW s \in SUBSET X, Cardinality(s) <= n + 1
        PROVE  h[s] = Removes(r, h, s)
    <3>1. CASE s = {}
      BY <3>1 DEF Removes
    <3>2. CASE s # {}
      <4>1. Picked(s) \in s
        BY <3>2, FirstIn
      <4>2. Cardinality(s \ {Picked(s)}) <= n
        BY <1>0, <2>3, <4>1, FS_RemoveElement
      <4>3. h[s \ {Picked(s)}] = g[s \ {Picked(s)}]
        BY <2>2, <4>2
      <4> QED
        BY <3>2, <4>3 DEF Removes
    <3> QED
      BY <3>1, <3>2
  <2> HIDE DEF h
  <2>4. Upto(h, n + 1)
    BY <2>3
  <2>5. h = [s \in SUBSET X |-> h[s]]
    BY DEF h
  <2>6. \E k : k = [s \in SUBSET X |-> k[s]] /\ Upto(k, n + 1)
    BY <2>4, <2>5
  <2> HIDE DEF Upto
  <2> QED
    BY <2>6
<1> HIDE DEF Q
<1>3. Cardinality(X) \in Q
  BY <1>0, <1>1, <1>2, NatInduct
<1>4. PICK g : g = [s \in SUBSET X |-> g[s]] /\ Upto(g, Cardinality(X))
  BY <1>3 DEF Q
<1>5. \A s \in SUBSET X : g[s] = Removes(r, g, s)
  BY <1>4, FS_Subset
<1>6. Is(g)
  BY <1>4, <1>5
<1>7. Is(c)
  <2> HIDE DEF Is
  <2> QED
    BY <1>6
<1>8. Exit(r) = [c[X] EXCEPT !.exits = {}]
  BY DEF Exit, FoldSet, MapThenFoldSet, Removes, Picked
<1> HIDE DEF c
<1>9. \A s \in SUBSET X : c[s] = Removes(r, c, s)
  BY <1>7
<1>10. Exiting(r, X, c)
  BY <1>8, <1>9 DEF Exiting
<1> QED
  BY <1>10

LEMMA ExitGood ==
  ASSUME NEW I, NEW J, NEW T, NEW r, Good(I, J, T, r)
  PROVE  Good(I, J, T, Exit(r)) /\ (Swimming(r) => Swimming(Exit(r))) /\ Exit(r).exits = {}
<1>1. r \in Room /\ IsInjective(r.present) /\ r.exits \subseteq In(r) /\ r.exits \subseteq User
  BY DEF Good, People, Room
<1>2. PICK X : X = r.exits
  OBVIOUS
<1>3. IsFiniteSet(X)
  BY <1>1, <1>2, WalkingAssumption, FS_Subset
<1>0. PICK g : Exiting(r, X, g)
  BY <1>2, <1>3, ExitLoop
<1>4. /\ \A s \in SUBSET X : g[s] = Removes(r, g, s)
      /\ Exit(r) = [g[X] EXCEPT !.exits = {}]
  BY <1>0 DEF Exiting
<1> DEFINE Ok(s, q) == /\ q \in Room /\ IsInjective(q.present)
                       /\ In(q) = In(r) \ s
                       /\ Good(I, J, T, [q EXCEPT !.exits = X \ s])
                       /\ Swimming(r) => Swimming([q EXCEPT !.exits = X \ s])
           P == {s \in SUBSET X : Ok(s, g[s])}
<1>5. {} \in P
  <2>1. g[{}] = r
    BY <1>4 DEF Removes
  <2>2. [r EXCEPT !.exits = X \ {}] = r
    BY <1>1, <1>2 DEF Room
  <2> QED
    BY <1>1, <2>1, <2>2
<1>6. ASSUME NEW U \in SUBSET X, U # {}, \A x \in U : U \ {x} \in P
      PROVE  U \in P
  <2>1. PICK x \in U : x = Picked(U)
    BY <1>6, FirstIn
  <2>2. PICK q : q = g[U \ {x}]
    OBVIOUS
  <2>3. Ok(U \ {x}, q)
    BY <1>6, <2>2
  <2>4. PICK s : s = RemoveRoomUser(q, x)
    OBVIOUS
  <2>5. g[U] = s
    BY <1>4, <1>6, <2>1, <2>2, <2>4 DEF Removes
  <2>6. PICK Y : Y = X \ (U \ {x})
    OBVIOUS
  <2>7. x \in In(q) /\ Y \subseteq User /\ Y \ {x} = X \ U
    BY <1>1, <1>2, <2>3, <2>6
  <2>16. PICK p : p = [q EXCEPT !.exits = Y]
    OBVIOUS
  <2>17. PICK t : t = [s EXCEPT !.exits = Y \ {x}]
    OBVIOUS
  <2>8. s \in Room /\ Gone(p, t, x)
    BY <2>3, <2>4, <2>7, <2>16, <2>17, RemoveDoes
  <2>9. In(p) = In(q) /\ In(t) = In(s) /\ t.present = s.present
    BY <2>3, <2>8, <2>16, <2>17 DEF In, Room
  <2>10. Good(I, J, T, p) /\ (Swimming(r) => Swimming(p))
    BY <2>3, <2>6, <2>16
  <2>11. /\ Good(I, J, T, t) /\ (Swimming(p) => Swimming(t))
         /\ \A v : v \in In(t) <=> v \in In(p) /\ v # x
    <3>1. x \in In(p)
      BY <2>7, <2>9
    <3>2. Gone(p, t, x)
      BY <2>8
    <3>3. Good(I, J, T, p)
      BY <2>10
    <3>4. Good(I, J, T, t) /\ (Swimming(p) => Swimming(t))
      BY <3>1, <3>2, <3>3, GoneGood
    <3>5. \A v : v \in In(t) <=> v \in In(p) /\ v # x
      <4>1. People(p)
        BY <3>3 DEF Good
      <4> QED
        BY <3>1, <3>2, <4>1, GoneIn
    <3> QED
      BY <3>4, <3>5
  <2>12. In(s) = In(r) \ U
    BY <2>3, <2>9, <2>11
  <2>13. IsInjective(s.present)
    BY <2>9, <2>11 DEF Good, People
  <2>14. t = [s EXCEPT !.exits = X \ U]
    BY <2>7, <2>17
  <2>15. Ok(U, s)
    BY <2>8, <2>10, <2>11, <2>12, <2>13, <2>14
  <2> QED
    BY <2>5, <2>15
<1>7. X \in P
  <2> HIDE DEF P
  <2>1. SUBSET X \subseteq P
    BY <1>3, <1>5, <1>6, SetInduct
  <2> QED
    BY <2>1
<1>8. Ok(X, g[X])
  BY <1>7
<1>9. [g[X] EXCEPT !.exits = X \ X] = Exit(r)
  BY <1>4
<1>10. Exit(r).exits = {}
  BY <1>4, <1>8 DEF Room
<1> QED
  BY <1>8, <1>9, <1>10

\* One cycle of the room.
LEMMA CycleGood ==
  ASSUME plan \in Plans, Items(items), NEW J, NEW T, Good(items, J, T, room), Cycle
  PROVE  Good(items, J, T, room') /\ (Swimming(room) => Swimming(room')) /\ room'.exits = {}
<1>1. room \in Room
  BY DEF Good, People
<1> DEFINE S == UsersTurns({room}, room.present)
<1>2. PICK r \in BotsTurns(S, SetToSeq(DOMAIN plan.bots)) : room' = Kept(Exit(r))
  <2>1. DOMAIN room.bots = DOMAIN plan.bots
    BY <1>1, BotsAre
  <2> QED
    BY <2>1 DEF Cycle, UsersTurns, BotsTurns
<1>3. \A t \in S : BotOk(J, T, room, t)
  BY UsersTurnsGood
<1> HIDE DEF S
<1>4. BotOk(J, T, room, r)
  BY <1>2, <1>3, BotsTurnsGood
<1>5. PICK q : q = Exit(r)
  OBVIOUS
<1>6. Good(items, J, T, r) /\ (Swimming(room) => Swimming(r))
  BY <1>4 DEF BotOk
<1>7. Good(items, J, T, q) /\ (Swimming(r) => Swimming(q)) /\ q.exits = {}
  BY <1>5, <1>6, ExitGood
<1>8. room' = Kept(q)
  BY <1>2, <1>5
<1>9. /\ Good(items, J, T, Kept(q)) /\ (Swimming(q) => Swimming(Kept(q)))
      /\ Kept(q).exits = {}
  BY <1>7, KeptGood
<1> QED
  BY <1>6, <1>7, <1>8, <1>9

-----------------------------------------------------------------------------
(* What the actions have to show                                           *)

\* An action that leaves this behind keeps the invariant.
Fine ==
  /\ plan' = plan /\ Items(items') /\ jobs' \subseteq User \X Item /\ Timers(timers')
  /\ room'.exits = {} /\ Good(items', jobs', timers', room')
  /\ (Swimming(room) => Swimming(room'))

LEMMA InvPrimed ==
  ASSUME plan' = plan, plan \in Plans, Items(items'), jobs' \subseteq User \X Item, Timers(timers'),
         room'.exits = {}, Good(items', jobs', timers', room')
  PROVE  Inv'
<1>1. plan' \in Plans
  OBVIOUS
<1>2. Items(items)'
  BY DEF Items, Tiles
<1>3. People(room)'
  BY DEF Good, People, Room, BotState, Body, In, Tiles
<1>4. Placed(room)'
  BY DEF Good, Placed, UserTiles, BotTiles, Apart, BotsApart, In
<1>5. Minds(jobs, timers, room)'
  BY DEF Good, Minds, Obeys, Ends, In, Timed
<1>6. Sits(items, room)'
  BY DEF Good, Sits, Rests, Lazy, In, StateOf, Lying, Under, Footprint, TopItem, Above
<1>7. First(room)'
  BY DEF Good, First, Lazy
<1>8. Serves(room)'
  BY DEF Good, Serves
<1>9. (jobs \subseteq User \X Item /\ Timers(timers) /\ room.exits = {})'
  BY DEF Timers
<1> QED
  BY <1>1, <1>2, <1>3, <1>4, <1>5, <1>6, <1>7, <1>8, <1>9 DEF Inv, Good

LEMMA SwimPrimed ==
  ASSUME plan' = plan, Inv', Swimming(room')
  PROVE  SwimInv'
<1>1. Swimming(room)'
  BY DEF Swimming, Bathes, Dry, In, Ground, TilesOf
<1> QED
  BY <1>1 DEF SwimInv

LEMMA FineIsInv == ASSUME plan \in Plans, Fine PROVE Inv' /\ (Swimming(room) => SwimInv')
<1>1. Inv'
  BY InvPrimed DEF Fine
<1>2. Swimming(room) => SwimInv'
  BY <1>1, SwimPrimed DEF Fine
<1> QED
  BY <1>1, <1>2

LEMMA InvParts ==
  ASSUME Inv
  PROVE  /\ plan \in Plans /\ Items(items) /\ jobs \subseteq User \X Item /\ Timers(timers)
         /\ room.exits = {} /\ Good(items, jobs, timers, room) /\ People(room) /\ room \in Room
         /\ In(room) = Here /\ Here \subseteq User
         /\ \A u \in Here : /\ Body(room.user[u]) /\ Obeys(jobs, u, room.user[u], u \in room.exits)
                            /\ Ends(timers, u, room.user[u])
<1>1. Good(items, jobs, timers, room) /\ plan \in Plans /\ Items(items) /\ Timers(timers)
      /\ jobs \subseteq User \X Item /\ room.exits = {}
  BY DEF Inv
<1>2. People(room) /\ room \in Room
  BY <1>1 DEF Good, People
<1>3. In(room) = Here /\ Here \subseteq User
  BY <1>2, InUsers DEF In, Here
<1>4. \A u \in Here : Body(room.user[u])
  BY <1>2, <1>3 DEF People
<1>5. \A u \in Here : /\ Obeys(jobs, u, room.user[u], u \in room.exits)
                     /\ Ends(timers, u, room.user[u])
  BY <1>1, <1>3 DEF Good, Minds
<1> QED
  BY <1>1, <1>2, <1>3, <1>4, <1>5

\* A new copy of the room, and nothing else.
LEMMA DoesFine ==
  ASSUME Inv, NEW r, Does(r), Good(items, jobs, timers, r), Swimming(room) => Swimming(r),
         r.exits = {}
  PROVE  Fine
<1>1. /\ plan' = plan /\ items' = items /\ jobs' = jobs /\ timers' = timers /\ room' = r
  BY DEF Does
<1>2. Items(items) /\ jobs \subseteq User \X Item /\ Timers(timers)
  BY DEF Inv
<1> QED
  BY <1>1, <1>2 DEF Fine

\* A new avatar in the same place.
LEMMA PutFine ==
  ASSUME Inv, NEW u \in Here, NEW b \in Avatar, Does(Put(room, u, b)), StaysThere(My(u), b),
         Obeys(jobs, u, b, u \in room.exits), Ends(timers, u, b)
  PROVE  Fine
<1>1. /\ plan \in Plans /\ Good(items, jobs, timers, room) /\ u \in In(room)
      /\ room.exits = {}
  BY InvParts
<1>2. \A v \in In(room) \ {u} : /\ Obeys(jobs, v, room.user[v], v \in room.exits)
                               /\ Ends(timers, v, room.user[v])
  BY InvParts
<1>3. PICK s : s = Put(room, u, b)
  OBVIOUS
<1>4. StaysThere(room.user[u], b)
  BY DEF My
<1>5. /\ Good(items, jobs, timers, s) /\ (Swimming(room) => Swimming(s))
      /\ s.exits = room.exits
  BY <1>1, <1>2, <1>3, <1>4, PutGood
<1> QED
  BY <1>1, <1>3, <1>5, DoesFine

\* A move, whatever moves the avatar.
LEMMA MovedGood ==
  ASSUME plan \in Plans, NEW I, NEW J, NEW T, NEW K, NEW r, NEW s, NEW u, u \in In(r), NEW to,
         Good(I, J, T, r), Changes(r, s, u), Moves(r, s, u, to), s.exits = r.exits,
         Body(s.user[u]), s.user[u].slid, s.user[u].at \in {to, r.user[u].at},
         Obeys(K, u, s.user[u], u \in s.exits), Ends(T, u, s.user[u]),
         \A v \in In(r) \ {u} : Obeys(K, v, r.user[v], v \in r.exits)
  PROVE  Good(I, K, T, s)
<1>1. r \in Room /\ u \in User /\ In(r) \subseteq User /\ In(s) = In(r)
  BY InUsers, InSame DEF Good, People
<1>2. ~s.shared => ~r.shared
  BY SharedGrows
<1>3. People(s)
  BY <1>1, PeopleChange DEF Good
<1>4. Placed(s)
  BY <1>1, PlacedMoves DEF Good
<1>5. Minds(K, T, s)
  <2>1. \A v \in In(r) \ {u} : s.user[v] = r.user[v] /\ Ends(T, v, r.user[v])
    BY <1>1 DEF Changes, Good, Minds
  <2> QED
    BY <1>1, <2>1 DEF Minds
<1>6. ~Lazy(s.user[u]) /\ Rests(I, s.user[u])
  BY DEF Lazy, Rests
<1>7. Sits(I, s)
  BY <1>1, <1>2, <1>6, SitsChange DEF Good
<1>8. First(s)
  <2>1. CASE s.user[u].at = r.user[u].at
    BY <1>1, <1>2, <1>6, <2>1, FirstStill DEF Good
  <2>2. CASE s.user[u].at = to
    <3>1. ~s.shared => \A v \in In(r) \ {u} : Keeps(r.user[v]) # s.user[u].at
      BY <2>2, MovesAway
    <3> QED
      BY <1>1, <1>2, <1>6, <3>1, FirstMoved DEF Good
  <2> QED
    BY <2>1, <2>2
<1>9. Serves(s)
  BY ServesChange DEF Good
<1> QED
  BY <1>3, <1>4, <1>5, <1>7, <1>8, <1>9 DEF Good

-----------------------------------------------------------------------------
(* The actions: coming and going                                           *)

\* Who comes in is the last on the list, and stands on the ground.
LEMMA AddedPlaced ==
  ASSUME NEW r \in Room, NEW s, NEW u \in User, u \notin In(r), Placed(r),
         \A v \in In(r) : s.user[v] = r.user[v], In(s) = In(r) \cup {u},
         s.bots = r.bots, Keeps(s.user[u]) = s.user[u].at,
         s.units = r.units \cup {s.user[u].at},
         s.shared = (r.shared \/ s.user[u].at \in Taken(r, u)), s.cut = r.cut
  PROVE  Placed(s)
<1> DEFINE at == s.user[u].at
           rest == {Keeps(r.user[v]) : v \in In(r)}
<1>1. UserTiles(r) = rest /\ UserTiles(s) = rest \cup {at}
  BY DEF UserTiles
<1>2. Taken(r, u) = rest \cup BotTiles(r)
  <2>1. In(r) \ {u} = In(r)
    OBVIOUS
  <2> QED
    BY <2>1 DEF Taken, In, BotTiles
<1>3. BotTiles(s) = BotTiles(r) /\ (BotsApart(r) => BotsApart(s))
  BY DEF BotTiles, BotsApart
<1>4. at \notin rest /\ Apart(r) => Apart(s)
  <2> SUFFICES ASSUME at \notin rest, Apart(r), NEW v \in In(s), NEW w \in In(s),
                      Keeps(s.user[v]) = Keeps(s.user[w]), v # w
               PROVE  FALSE
    BY DEF Apart
  <2>1. \A x \in In(r) : Keeps(s.user[x]) = Keeps(r.user[x]) /\ Keeps(s.user[x]) # at
    OBVIOUS
  <2>2. v \in In(r) /\ w \in In(r)
    BY <2>1
  <2> QED
    BY <2>1, <2>2 DEF Apart
<1> HIDE DEF rest, at
<1>5. s.units = r.units \cup {at} /\ s.shared = (r.shared \/ at \in Taken(r, u))
  BY DEF at
<1>6. ~s.cut => s.units \subseteq UserTiles(s) \cup BotTiles(s)
  BY <1>1, <1>3, <1>5 DEF Placed
<1>7. ~s.shared => ~r.shared /\ at \notin rest /\ at \notin BotTiles(r)
  BY <1>2, <1>5
<1>8. ~s.shared => Apart(s)
  BY <1>4, <1>7 DEF Placed
<1>9. ~s.cut /\ ~s.shared =>
        /\ UserTiles(s) \cup BotTiles(s) \subseteq s.units
        /\ UserTiles(s) \cap BotTiles(s) = {} /\ BotsApart(s)
  BY <1>1, <1>3, <1>5, <1>7 DEF Placed
<1> QED
  BY <1>6, <1>8, <1>9 DEF Placed

LEMMA AddedGood ==
  ASSUME plan \in Plans, NEW I, NEW J, NEW T, NEW r, NEW u \in User, u \notin In(r),
         Good(I, J, T, r), NEW at \in Tiles, NEW outfit \in BOOLEAN,
         plan.public => at = plan.door
  PROVE  LET s == AddRoomUser(r, u, NewAvatar(at, outfit)) IN
         Good(I, J, T, s) /\ (Swimming(r) => Swimming(s)) /\ s.exits = r.exits
<1>1. r \in Room /\ IsInjective(r.present) /\ r.present \in Seq(User) /\ In(r) \subseteq User
  BY InUsers DEF Good, People, Room
<1>2. PICK a : a = NewAvatar(at, outfit)
  OBVIOUS
<1>3. /\ a \in Avatar /\ a.at = at /\ a.pending = Nowhere /\ a.poses = {} /\ ~a.lock /\ ~a.toDoor
  BY <1>2, TilesAreTiles, NowhereIsNoTile DEF NewAvatar, Avatar
<1>4. PICK t : t = [r EXCEPT !.present = Append(r.present, u), !.units = r.units \cup {at},
                             !.shared = r.shared \/ at \in Taken(r, u)]
  OBVIOUS
<1>5. /\ t \in Room /\ t.user = r.user /\ t.present = Append(r.present, u) /\ t.bots = r.bots
      /\ t.stuck = r.stuck /\ t.exits = r.exits /\ t.units = r.units \cup {at}
      /\ t.shared = (r.shared \/ at \in Taken(r, u)) /\ t.cut = r.cut
  <2>1. Append(r.present, u) \in Seq(User)
    BY <1>1
  <2>2. r.units \cup {at} \in SUBSET Tiles
    BY <1>1 DEF Room
  <2> QED
    BY <1>1, <1>4, <2>1, <2>2 DEF Room
<1>6. PICK s : s = Put(t, u, a)
  OBVIOUS
<1>7. s = AddRoomUser(r, u, NewAvatar(at, outfit))
  BY <1>2, <1>3, <1>4, <1>6 DEF AddRoomUser
<1>8. /\ s \in Room /\ s.user[u] = a /\ s.present = t.present /\ s.bots = t.bots
      /\ s.stuck = t.stuck /\ s.exits = t.exits /\ s.units = t.units /\ s.shared = t.shared
      /\ s.cut = t.cut
  <2>1. t \in Room /\ a \in Avatar
    BY <1>3, <1>5
  <2> QED
    BY <1>6, <2>1, PutParts, ZenonT(40)
<1>9. \A v \in User \ {u} : s.user[v] = r.user[v]
  <2>1. t \in Room /\ a \in Avatar
    BY <1>3, <1>5
  <2>2. \A v \in User \ {u} : s.user[v] = t.user[v]
    BY <1>6, <2>1, PutOthers
  <2> QED
    BY <1>5, <2>2
<1> DEFINE n == Len(r.present)
<1>10. /\ n \in Nat /\ DOMAIN r.present = 1 .. n /\ DOMAIN s.present = 1 .. n + 1
       /\ s.present[n + 1] = u /\ \A i \in 1 .. n : s.present[i] = r.present[i]
  BY <1>1, <1>5, <1>8
<1> HIDE DEF n
<1>11. In(s) = In(r) \cup {u}
  <2>1. DOMAIN s.present = DOMAIN r.present \cup {n + 1}
    BY <1>10
  <2>2. In(s) \subseteq In(r) \cup {u}
    BY <1>10, <2>1 DEF In, Range
  <2>3. In(r) \subseteq In(s)
    <3> SUFFICES ASSUME NEW v \in In(r) PROVE v \in In(s)
      OBVIOUS
    <3>1. PICK i \in 1 .. n : v = r.present[i]
      BY <1>10 DEF In, Range
    <3>2. i \in DOMAIN s.present /\ s.present[i] = v
      BY <1>10, <2>1, <3>1
    <3> QED
      BY <3>2 DEF In, Range
  <2>4. u \in In(s)
    <3>1. n + 1 \in DOMAIN s.present /\ s.present[n + 1] = u
      BY <1>10, <2>1
    <3> QED
      BY <3>1 DEF In, Range
  <2> QED
    BY <2>2, <2>3, <2>4
<1>12. \A v \in In(r) : s.user[v] = r.user[v] /\ v # u
  BY <1>1, <1>9
<1>13. IsInjective(s.present)
  <2> SUFFICES ASSUME NEW i \in 1 .. n + 1, NEW j \in 1 .. n + 1, s.present[i] = s.present[j]
               PROVE  i = j
    BY <1>10 DEF IsInjective
  <2>1. \A m \in 1 .. n : s.present[m] \in In(r) /\ s.present[m] # u
    BY <1>10, <1>12 DEF In, Range
  <2>2. \A m \in 1 .. n + 1 : m = n + 1 \/ m \in 1 .. n
    BY <1>10
  <2>3. CASE i \in 1 .. n /\ j \in 1 .. n
    BY <1>1, <1>10, <2>3 DEF IsInjective
  <2> QED
    BY <1>10, <2>1, <2>2, <2>3
<1>14. People(s)
  <2>1. Body(a)
    BY <1>3 DEF Body
  <2>2. \A v \in In(s) : Body(s.user[v])
    BY <1>8, <1>11, <1>12, <2>1 DEF Good, People
  <2>3. \A v \in User \ In(s) : s.user[v] = Absent
    BY <1>9, <1>11 DEF Good, People
  <2>4. s.exits \subseteq In(s)
    BY <1>5, <1>8, <1>11 DEF Good, People
  <2> QED
    BY <1>8, <1>13, <2>2, <2>3, <2>4 DEF People
<1>15. Placed(s)
  <2>1. Keeps(a) = at
    BY <1>3 DEF Keeps
  <2>2. /\ s.bots = r.bots /\ s.user[u].at = at /\ Keeps(s.user[u]) = at
        /\ s.units = r.units \cup {at}
        /\ s.shared = (r.shared \/ at \in Taken(r, u)) /\ s.cut = r.cut
    BY <1>3, <1>5, <1>8, <2>1
  <2>3. Placed(r)
    BY DEF Good
  <2> QED
    BY <1>1, <1>11, <1>12, <2>2, <2>3, AddedPlaced
<1>16. Minds(J, T, s)
  <2>1. Obeys(J, u, a, u \in s.exits) /\ Ends(T, u, a)
    BY <1>3 DEF Obeys, Ends
  <2>2. \A v \in In(r) : Obeys(J, v, s.user[v], v \in s.exits) /\ Ends(T, v, s.user[v])
    BY <1>5, <1>8, <1>12 DEF Good, Minds
  <2> QED
    BY <1>8, <1>11, <2>1, <2>2 DEF Minds
<1>17. ~s.shared => ~r.shared
  BY <1>5, <1>8
<1>18. Sits(I, s)
  <2>1. Rests(I, a)
    BY <1>3 DEF Rests, Lazy
  <2> QED
    BY <1>8, <1>11, <1>12, <1>17, <2>1 DEF Good, Sits
<1>19. First(s)
  <2> SUFFICES ASSUME ~s.shared, ~plan.public, NEW j \in 1 .. n + 1, NEW i \in 1 .. j - 1,
                      Lazy(s.user[s.present[j]])
               PROVE  s.user[s.present[i]].at # s.user[s.present[j]].at
    BY <1>10 DEF First
  <2>1. ~Lazy(a)
    BY <1>3 DEF Lazy
  <2>2. j \in 1 .. n /\ i \in 1 .. n
    BY <1>8, <1>10, <2>1
  <2>3. s.user[s.present[j]] = r.user[r.present[j]] /\ s.user[s.present[i]] = r.user[r.present[i]]
    BY <1>10, <1>12, <2>2 DEF In, Range
  <2> QED
    BY <1>10, <1>17, <2>2, <2>3 DEF Good, First
<1>20. Serves(s)
  BY <1>5, <1>8 DEF Good, Serves
<1>21. Swimming(r) => Swimming(s)
  <2>1. Bathes(a) /\ Dry(a)
    <3>1. Dry(a)
      BY <1>3 DEF Dry
    <3>2. ASSUME plan.public
          PROVE  at \in Ground(plan) /\ at \notin plan.water
      <4>1. plan.door \in Ground(plan)
        BY PlansAssumption DEF Ground
      <4>2. plan.door \notin plan.water
        BY WaterAssumption
      <4> QED
        BY <3>2, <4>1, <4>2
    <3> QED
      BY <1>3, <3>1, <3>2 DEF Bathes, Keeps
  <2> QED
    BY <1>8, <1>11, <1>12, <2>1 DEF Swimming
<1>22. s.exits = r.exits
  BY <1>5, <1>8
<1> QED
  BY <1>7, <1>14, <1>15, <1>16, <1>18, <1>19, <1>20, <1>21, <1>22 DEF Good

LEMMA EnterFine ==
  ASSUME Inv, NEW u \in User, NEW at \in Tiles, Enter(u, at)
  PROVE  Fine
<1>1. plan \in Plans /\ Items(items) /\ Good(items, jobs, timers, room) /\ room.exits = {}
      /\ In(room) = Here
  BY InvParts
<1>2. u \notin In(room)
  BY <1>1 DEF Enter
<1>3. PICK outfit \in {plan.pool, FALSE} : Does(AddRoomUser(room, u, NewAvatar(at, outfit)))
  BY DEF Enter
<1>4. outfit \in BOOLEAN
  BY <1>1, PlansAssumption
<1>5. plan.public => at = plan.door
  BY <1>1 DEF Enter, Items
<1>6. PICK s : s = AddRoomUser(room, u, NewAvatar(at, outfit))
  OBVIOUS
<1>7. Good(items, jobs, timers, s) /\ (Swimming(room) => Swimming(s)) /\ s.exits = room.exits
  BY <1>1, <1>2, <1>4, <1>5, <1>6, AddedGood
<1> QED
  BY <1>1, <1>3, <1>6, <1>7, DoesFine

LEMMA LeaveFine ==
  ASSUME Inv, NEW u \in User, Leave(u)
  PROVE  Fine
<1>1. plan \in Plans /\ Good(items, jobs, timers, room) /\ room.exits = {} /\ In(room) = Here
      /\ room \in Room /\ IsInjective(room.present)
  BY InvParts DEF People
<1>2. u \in In(room)
  BY <1>1 DEF Leave
<1>3. PICK s : s = RemoveRoomUser(room, u)
  OBVIOUS
<1>4. PICK X : X = {}
  OBVIOUS
<1>5. X \in SUBSET User /\ X \ {u} = X
  BY <1>4
<1>6. /\ s \in Room /\ s.exits = room.exits
      /\ Gone([room EXCEPT !.exits = X], [s EXCEPT !.exits = X \ {u}], u)
  BY <1>1, <1>2, <1>3, <1>5, RemoveDoes
<1>7. [room EXCEPT !.exits = X] = room /\ [s EXCEPT !.exits = X \ {u}] = s
  BY <1>1, <1>4, <1>5, <1>6 DEF Room
<1>8. Gone(room, s, u)
  BY <1>6, <1>7
<1>9. Good(items, jobs, timers, s) /\ (Swimming(room) => Swimming(s))
  BY <1>1, <1>2, <1>8, GoneGood
<1>10. s.exits = {}
  BY <1>1, <1>6
<1>11. PICK t : t = Kept(s)
  OBVIOUS
<1>12. Good(items, jobs, timers, t) /\ (Swimming(s) => Swimming(t)) /\ t.exits = {}
  BY <1>1, <1>9, <1>10, <1>11, KeptGood
<1>13. Does(t)
  BY <1>3, <1>11 DEF Leave
<1> QED
  BY <1>9, <1>12, <1>13, DoesFine

LEMMA CycleFine == ASSUME Inv, Cycle PROVE Fine
<1>1. plan \in Plans /\ Items(items) /\ Good(items, jobs, timers, room)
  BY InvParts
<1>2. /\ Good(items, jobs, timers, room') /\ (Swimming(room) => Swimming(room'))
      /\ room'.exits = {}
  BY <1>1, CycleGood
<1>3. plan' = plan /\ items' = items /\ jobs' = jobs /\ timers' = timers
  BY DEF Cycle
<1> QED
  BY <1>2, <1>3 DEF Fine, Inv

-----------------------------------------------------------------------------
(* The actions: walking, and being moved                                   *)

LEMMA MyBody ==
  ASSUME Inv, NEW u \in Here
  PROVE  /\ My(u) = room.user[u] /\ My(u) \in Avatar /\ Body(My(u)) /\ u \in User /\ u \in In(room)
         /\ Obeys(jobs, u, My(u), u \in room.exits) /\ Ends(timers, u, My(u)) /\ room \in Room
         /\ plan \in Plans
  BY InvParts DEF My, Body

LEMMA ClickDoorFine ==
  ASSUME Inv, NEW u \in User, ClickDoor(u)
  PROVE  Fine
<1>1. u \in Here /\ Does(Put(room, u, [My(u) EXCEPT !.toDoor = TRUE, !.goal = plan.door,
                                               !.turned = FALSE]))
  BY DEF ClickDoor, May
<1>2. PICK b : b = [My(u) EXCEPT !.toDoor = TRUE, !.goal = plan.door, !.turned = FALSE]
  OBVIOUS
<1>3. My(u) \in Avatar /\ plan \in Plans
  BY <1>1, MyBody
<1>4. plan.door \in Int \X Int
  BY <1>3, PlansAssumption, TilesAreTiles DEF Tiles
<1>5. /\ b \in Avatar /\ b.at = My(u).at /\ b.pending = My(u).pending /\ b.slid = My(u).slid
      /\ b.flown = My(u).flown /\ b.poses = My(u).poses /\ b.forever = My(u).forever
      /\ b.toDoor /\ b.goal = plan.door
  BY <1>2, <1>3, <1>4 DEF Avatar
<1>6. StaysThere(My(u), b) /\ Obeys(jobs, u, b, u \in room.exits)
  BY <1>5 DEF StaysThere, Obeys
<1>7. Ends(timers, u, b)
  BY <1>1, <1>5, MyBody DEF Ends
<1>8. Does(Put(room, u, b))
  BY <1>1, <1>2
<1> QED
  BY <1>1, <1>5, <1>6, <1>7, <1>8, PutFine

LEMMA ArmFine ==
  ASSUME Inv, NEW u \in User, Arm(u)
  PROVE  Fine
<1>1. u \in Here /\ Does(Put(room, u, [My(u) EXCEPT !.armed = TRUE]))
  BY DEF Arm, May
<1>2. PICK b : b = [My(u) EXCEPT !.armed = TRUE]
  OBVIOUS
<1>3. My(u) \in Avatar
  BY <1>1, MyBody
<1>5. /\ b \in Avatar /\ b.at = My(u).at /\ b.pending = My(u).pending /\ b.slid = My(u).slid
      /\ b.flown = My(u).flown /\ b.poses = My(u).poses /\ b.forever = My(u).forever
      /\ b.toDoor = My(u).toDoor /\ b.goal = My(u).goal /\ b.turned = My(u).turned
      /\ b.lock = My(u).lock /\ b.lost = My(u).lost
  BY <1>2, <1>3 DEF Avatar
<1>6. StaysThere(My(u), b)
  BY <1>5 DEF StaysThere
<1>7. Ends(timers, u, b) /\ Obeys(jobs, u, b, u \in room.exits)
  BY <1>1, <1>5, MyBody DEF Ends, Obeys
<1>8. Does(Put(room, u, b))
  BY <1>1, <1>2
<1> QED
  BY <1>1, <1>5, <1>6, <1>7, <1>8, PutFine

\* A moderator's jump, or one that does not succeed.
LEMMA TeleportFine ==
  ASSUME Inv, NEW u \in Here, NEW t, Does(TeleportTo(room, u, t))
  PROVE  Fine
<1> DEFINE a == room.user[u]
<1>1. /\ a \in Avatar /\ Body(a) /\ u \in User /\ u \in In(room) /\ room \in Room
      /\ plan \in Plans /\ My(u) = a
      /\ Obeys(jobs, u, a, u \in room.exits) /\ Ends(timers, u, a)
  BY MyBody
<1>2. CASE t \notin Tiles \/ State(t) = "blocked"
  <2>1. PICK b : b = [a EXCEPT !.armed = FALSE]
    OBVIOUS
  <2>2. Does(Put(room, u, b))
    BY <1>2, <2>1 DEF TeleportTo
  <2>3. /\ b \in Avatar /\ b.at = a.at /\ b.pending = a.pending /\ b.slid = a.slid
        /\ b.flown = a.flown /\ b.poses = a.poses /\ b.forever = a.forever
        /\ b.toDoor = a.toDoor /\ b.goal = a.goal /\ b.turned = a.turned
        /\ b.lock = a.lock /\ b.lost = a.lost
    BY <1>1, <2>1 DEF Avatar
  <2> HIDE DEF a
  <2>4. StaysThere(My(u), b) /\ Obeys(jobs, u, b, u \in room.exits) /\ Ends(timers, u, b)
    BY <1>1, <2>3 DEF StaysThere, Obeys, Ends
  <2> QED
    BY <2>2, <2>3, <2>4, PutFine
<1>3. CASE ~(t \notin Tiles \/ State(t) = "blocked")
  <2>1. PICK b : b = [a EXCEPT !.at = t, !.goal = Nowhere, !.lock = FALSE, !.armed = FALSE,
                        !.turned = TRUE, !.flown = TRUE, !.slid = TRUE, !.lost = FALSE]
    OBVIOUS
  <2>2. t \in Tiles /\ t \in Tile
    BY <1>1, <1>3, TilesAreTiles
  <2>3. /\ b \in Avatar /\ b.at = t /\ b.pending = a.pending /\ b.slid
        /\ b.flown /\ b.poses = a.poses /\ b.forever = a.forever /\ b.turned /\ ~b.lock
    BY <1>1, <2>1, <2>2, NowhereIsNoTile, ZenonT(40) DEF Avatar
  <2>4. PICK s : s = Put(Retake(BreaksOff(room, u), u, room.user[u].at, t), u, b)
    OBVIOUS
  <2>5. Does(s)
    BY <1>3, <2>1, <2>4 DEF TeleportTo
  <2>6. /\ Changes(room, s, u) /\ Moves(room, s, u, t) /\ s.user[u] = b
        /\ s.exits = room.exits
    <3>1. Keeps(b) = t \/ (room.user[u].pending # Nowhere /\ Keeps(b) = Keeps(room.user[u]))
      BY <2>3 DEF Keeps
    <3> QED
      BY <1>1, <2>2, <2>3, <2>4, <3>1, MoveChanges
  <2> HIDE DEF a
  <2>7. Obeys(jobs, u, b, u \in s.exits) /\ Ends(timers, u, b) /\ Body(b)
    BY <1>1, <2>2, <2>3 DEF Obeys, Ends, Body
  <2>8. Good(items, jobs, timers, s)
    <3>1. \A v \in In(room) \ {u} : Obeys(jobs, v, room.user[v], v \in room.exits)
      BY InvParts
    <3>2. Good(items, jobs, timers, room)
      BY InvParts
    <3> QED
      BY <1>1, <2>3, <2>6, <2>7, <3>1, <3>2, MovedGood
  <2>9. Swimming(room) => Swimming(s)
    <3>1. ASSUME Swimming(room) PROVE Bathes(b) /\ Dry(b)
      <4>1. Dry(a)
        BY <1>1, <3>1 DEF Swimming, a
      <4> QED
        BY <2>3, <4>1 DEF Bathes, Dry
    <3> QED
      BY <1>1, <2>6, <3>1, SwimmingChange
  <2> QED
    BY <2>5, <2>6, <2>8, <2>9, InvParts, DoesFine
<1> QED
  BY <1>2, <1>3

LEMMA WalkFine ==
  ASSUME Inv, NEW u \in User, NEW t \in plan.goals, Walk(u, t)
  PROVE  Fine
<1>1. u \in Here /\ ~My(u).lock
  BY DEF Walk
<1>2. My(u) \in Avatar /\ plan \in Plans
  BY <1>1, MyBody
<1>3. CASE My(u).armed
  <2>1. Does(TeleportTo(room, u, t))
    BY <1>3 DEF Walk
  <2> QED
    BY <1>1, <2>1, TeleportFine
<1>4. CASE ~My(u).armed
  <2>1. PICK b : b = [My(u) EXCEPT !.goal = t, !.turned = TRUE]
    OBVIOUS
  <2>2. Does(Put(room, u, b))
    BY <1>4, <2>1 DEF Walk
  <2>3. t \in Int \X Int
    BY <1>2, PlansAssumption
  <2>4. /\ b \in Avatar /\ b.at = My(u).at /\ b.pending = My(u).pending /\ b.slid = My(u).slid
        /\ b.flown = My(u).flown /\ b.poses = My(u).poses /\ b.forever = My(u).forever
        /\ b.turned /\ ~b.lock
    BY <1>1, <1>2, <2>1, <2>3 DEF Avatar
  <2>5. StaysThere(My(u), b) /\ Obeys(jobs, u, b, u \in room.exits)
    BY <2>4 DEF StaysThere, Obeys
  <2>6. Ends(timers, u, b)
    BY <1>1, <2>4, MyBody DEF Ends
  <2> QED
    BY <1>1, <2>2, <2>4, <2>5, <2>6, PutFine
<1> QED
  BY <1>3, <1>4

LEMMA SelectOutfitFine ==
  ASSUME Inv, NEW u \in User, SelectOutfit(u)
  PROVE  Fine
<1> DEFINE a == My(u)
<1>1. u \in Here /\ a.at \in DOMAIN plan.triggers
  BY DEF SelectOutfit
<1>2. a \in Avatar /\ plan \in Plans
  BY <1>1, MyBody
<1>3. PICK b : b = [a EXCEPT !.outfit = TRUE, !.lock = FALSE, !.lost = FALSE,
                      !.goal = plan.triggers[a.at].goal, !.turned = TRUE]
  OBVIOUS
<1>4. Does(Put(room, u, b))
  BY <1>3 DEF SelectOutfit
<1>5. plan.triggers[a.at].goal \in Int \X Int
  BY <1>1, <1>2, PlansAssumption
<1>6. /\ b \in Avatar /\ b.at = a.at /\ b.pending = a.pending /\ b.slid = a.slid
      /\ b.flown = a.flown /\ b.poses = a.poses /\ b.forever = a.forever
      /\ b.turned /\ ~b.lock
  BY <1>2, <1>3, <1>5 DEF Avatar
<1>7. StaysThere(a, b) /\ Obeys(jobs, u, b, u \in room.exits)
  BY <1>6 DEF StaysThere, Obeys
<1>8. Ends(timers, u, b)
  BY <1>1, <1>6, MyBody DEF Ends
<1> QED
  BY <1>1, <1>4, <1>6, <1>7, <1>8, PutFine

\* Where furniture lies nothing is triggered.
LEMMA NoTriggers ==
  ASSUME Inv, NEW i \in DOMAIN items
  PROVE  ~plan.public /\ DOMAIN plan.triggers = {} /\ items[i].at \in Tiles /\ i \in Item
<1>1. plan \in Plans /\ Items(items)
  BY InvParts
<1>2. ~plan.public
  BY <1>1 DEF Items
<1> QED
  BY <1>1, <1>2, PlansAssumption DEF Items

LEMMA EnterTeleporterFine ==
  ASSUME Inv, NEW u \in User, NEW i, EnterTeleporter(u, i)
  PROVE  Fine
<1> DEFINE a == room.user[u]
           to == items[i].at
<1>1. u \in Here /\ i \in DOMAIN items
  BY DEF EnterTeleporter, IsTeleporter
<1>2. /\ a \in Avatar /\ Body(a) /\ u \in In(room) /\ room \in Room /\ plan \in Plans
      /\ My(u) = a /\ Obeys(jobs, u, a, u \in room.exits) /\ Ends(timers, u, a)
  BY <1>1, MyBody
<1>3. ~plan.public /\ DOMAIN plan.triggers = {} /\ to \in Tiles
  BY <1>1, NoTriggers
<1>4. PICK b : b = [a EXCEPT !.goal = Nowhere, !.turned = TRUE]
  OBVIOUS
<1>5. PICK q : q = Put(room, u, b)
  OBVIOUS
<1>6. PICK s : s = SingleStep(q, u, to, TRUE)
  OBVIOUS
<1>7. Does(s)
  BY <1>2, <1>4, <1>5, <1>6 DEF EnterTeleporter
<1>8. /\ b \in Avatar /\ b.at = a.at /\ b.pending = a.pending /\ b.slid = a.slid
      /\ b.flown = a.flown /\ b.poses = a.poses /\ b.forever = a.forever /\ b.goal = Nowhere
      /\ b.toDoor = a.toDoor /\ b.turned /\ b.lock = a.lock /\ b.lost = a.lost
  BY <1>2, <1>4, NowhereIsNoTile DEF Avatar
<1> HIDE DEF a, to
<1>9. StaysThere(a, b) /\ Obeys(jobs, u, b, u \in room.exits) /\ Ends(timers, u, b)
  BY <1>2, <1>3, <1>8 DEF StaysThere, Obeys, Ends
<1>10. \A v \in In(room) \ {u} : /\ Obeys(jobs, v, room.user[v], v \in room.exits)
                                /\ Ends(timers, v, room.user[v])
  BY InvParts
<1>11. Good(items, jobs, timers, room) /\ room.exits = {}
  BY InvParts
<1>12. /\ Good(items, jobs, timers, q) /\ (Swimming(room) => Swimming(q))
       /\ Changes(room, q, u) /\ q.exits = room.exits /\ q.user[u] = b /\ q \in Room
  <2>1. a = room.user[u]
    BY DEF a
  <2>2. /\ Good(items, jobs, timers, q) /\ (Swimming(room) => Swimming(q))
        /\ Changes(room, q, u) /\ q.exits = room.exits
    <3>1. b \in Avatar /\ StaysThere(room.user[u], b) /\ plan \in Plans /\ u \in In(room)
      BY <1>2, <1>8, <1>9, <2>1
    <3>2. Obeys(jobs, u, b, u \in room.exits) /\ Ends(timers, u, b)
          /\ Good(items, jobs, timers, room)
      BY <1>9, <1>11
    <3> QED
      BY <1>5, <1>10, <3>1, <3>2, PutGood
  <2>3. q.user[u] = b /\ q \in Room
    BY <1>2, <1>5, <1>8, PutParts
  <2> QED
    BY <2>2, <2>3
<1>13. In(q) = In(room) /\ Body(b)
  BY <1>2, <1>12, InSame DEF Good, People
<1>14. /\ Changes(q, s, u) /\ Moves(q, s, u, to) /\ s.exits = q.exits
       /\ Body(s.user[u]) /\ Kindred(b, s.user[u]) /\ s.user[u].at = b.at
       /\ s.user[u].goal = b.goal /\ s.user[u].slid
  <2>1. plan \in Plans /\ q \in Room /\ Body(q.user[u]) /\ to \in Tiles /\ q.user[u] = b
    BY <1>2, <1>3, <1>12, <1>13
  <2>2. PICK again \in BOOLEAN : again = TRUE
    OBVIOUS
  <2>3. s = SingleStep(q, u, to, again)
    BY <1>6, <2>2
  <2> QED
    BY <2>1, <2>3, SingleStepDoes
<1>15. Obeys(jobs, u, s.user[u], u \in s.exits) /\ Ends(timers, u, s.user[u])
  <2>1. Obeys(jobs, u, s.user[u], u \in s.exits)
    BY <1>3, <1>8, <1>9, <1>12, <1>14 DEF Obeys, Kindred
  <2>2. Ends(timers, u, s.user[u])
    BY <1>9, <1>14, EndsKindred
  <2> QED
    BY <2>1, <2>2
<1>16. \A v \in In(q) \ {u} : Obeys(jobs, v, q.user[v], v \in q.exits)
  BY <1>12 DEF Good, Minds
<1>17. Good(items, jobs, timers, s)
  BY <1>2, <1>12, <1>13, <1>14, <1>15, <1>16, MovedGood
<1>18. Swimming(room) => Swimming(s)
  <2>1. ASSUME Swimming(q) PROVE Bathes(s.user[u]) /\ Dry(s.user[u])
    <3>1. Bathes(s.user[u])
      BY <1>3 DEF Bathes
    <3>2. Dry(b)
      BY <1>2, <1>12, <1>13, <2>1 DEF Swimming
    <3> QED
      BY <1>14, <3>1, <3>2 DEF Dry, Kindred
  <2> QED
    BY <1>12, <1>14, <2>1, SwimmingChange
<1> QED
  BY <1>7, <1>11, <1>12, <1>14, <1>17, <1>18, DoesFine

LEMMA UseTeleporterFine ==
  ASSUME Inv, NEW u \in User, NEW i \in Item, UseTeleporter(u, i)
  PROVE  Fine
<1> DEFINE a == room.user[u]
           other == Shape[i].pair
           K == jobs \cup {<<u, other>>}
<1>1. u \in Here /\ other \in DOMAIN items /\ jobs' = K
      /\ plan' = plan /\ items' = items /\ timers' = timers
  BY DEF UseTeleporter
<1>2. /\ a \in Avatar /\ Body(a) /\ u \in In(room) /\ room \in Room /\ plan \in Plans
      /\ My(u) = a /\ Obeys(jobs, u, a, u \in room.exits) /\ Ends(timers, u, a)
  BY <1>1, MyBody
<1>3. other \in Item /\ Items(items) /\ Timers(timers) /\ jobs \subseteq User \X Item
      /\ Good(items, jobs, timers, room) /\ room.exits = {}
  BY <1>1, NoTriggers, InvParts
<1>4. PICK b : b = [a EXCEPT !.lock = TRUE]
  OBVIOUS
<1>5. room' = Put(room, u, b)
  BY <1>2, <1>4 DEF UseTeleporter
<1>6. /\ b \in Avatar /\ b.at = a.at /\ b.pending = a.pending /\ b.slid = a.slid
      /\ b.flown = a.flown /\ b.poses = a.poses /\ b.forever = a.forever
      /\ b.toDoor = a.toDoor /\ b.turned = a.turned /\ b.goal = a.goal
  BY <1>2, <1>4 DEF Avatar
<1>7. <<u, other>> \in K /\ jobs \subseteq K
  OBVIOUS
<1>8. K \subseteq User \X Item
  BY <1>3
<1> HIDE DEF a, other, K
<1>9. StaysThere(room.user[u], b) /\ Obeys(K, u, b, u \in room.exits) /\ Ends(timers, u, b)
  BY <1>2, <1>3, <1>6, <1>7 DEF StaysThere, Obeys, Ends, a
<1>10. \A v \in In(room) \ {u} : /\ Obeys(K, v, room.user[v], v \in room.exits)
                                /\ Ends(timers, v, room.user[v])
  <2>1. \A v \in In(room) \ {u} : /\ Obeys(jobs, v, room.user[v], v \in room.exits)
                                 /\ Ends(timers, v, room.user[v])
    BY InvParts
  <2> QED
    BY <1>7, <2>1 DEF Obeys
<1>11. /\ Good(items, K, timers, room') /\ (Swimming(room) => Swimming(room'))
       /\ room'.exits = room.exits
  <2>1. b \in Avatar /\ plan \in Plans /\ u \in In(room) /\ Good(items, jobs, timers, room)
    BY <1>2, <1>3, <1>6
  <2>2. PICK s : s = Put(room, u, b)
    OBVIOUS
  <2>3. /\ Good(items, K, timers, s) /\ (Swimming(room) => Swimming(s)) /\ s.exits = room.exits
    BY <1>9, <1>10, <2>1, <2>2, PutGood
  <2> QED
    BY <1>5, <2>2, <2>3
<1> QED
  BY <1>1, <1>3, <1>8, <1>11 DEF Fine

LEMMA TeleportedFine ==
  ASSUME Inv, NEW u \in User, NEW i \in Item, Teleported(u, i)
  PROVE  Fine
<1> DEFINE a == room.user[u]
           K == jobs \ {<<u, i>>}
<1>1. jobs' = K /\ plan' = plan /\ items' = items /\ timers' = timers
  BY DEF Teleported
<1>2. Items(items) /\ Timers(timers) /\ jobs \subseteq User \X Item /\ plan \in Plans
      /\ Good(items, jobs, timers, room) /\ room.exits = {} /\ room \in Room /\ In(room) = Here
  BY InvParts
<1>3. \A v \in In(room) \ {u} : /\ Obeys(K, v, room.user[v], v \in room.exits)
                               /\ Ends(timers, v, room.user[v])
  <2> SUFFICES ASSUME NEW v \in In(room) \ {u}
               PROVE  Obeys(K, v, room.user[v], v \in room.exits) /\ Ends(timers, v, room.user[v])
    OBVIOUS
  <2>1. Obeys(jobs, v, room.user[v], v \in room.exits) /\ Ends(timers, v, room.user[v])
    BY InvParts
  <2>2. \A j \in Item : <<v, j>> \in jobs => <<v, j>> \in K
    OBVIOUS
  <2> HIDE DEF K
  <2> QED
    BY <2>1, <2>2 DEF Obeys
<1>4. K \subseteq User \X Item
  BY <1>2
<1> HIDE DEF K
<1>5. SUFFICES Good(items, K, timers, room') /\ (Swimming(room) => Swimming(room'))
               /\ room'.exits = {}
  BY <1>1, <1>2, <1>4 DEF Fine
<1>6. CASE u \notin Here
  <2>1. room' = room
    BY <1>6 DEF Teleported
  <2>2. \A v \in In(room) : v # u
    BY <1>2, <1>6
  <2>3. Minds(K, timers, room)
    BY <1>3, <2>2 DEF Minds
  <2> QED
    BY <1>2, <2>1, <2>3 DEF Good
<1>7. ASSUME u \in Here PROVE
         /\ a \in Avatar /\ Body(a) /\ u \in In(room) /\ My(u) = a
         /\ Obeys(jobs, u, a, u \in room.exits) /\ Ends(timers, u, a)
  BY <1>7, MyBody
<1>8. CASE u \in Here /\ i \in DOMAIN items
  <2>1. items[i].at \in Tiles
    BY <1>8, NoTriggers
  <2>2. PICK t \in Tiles : t = items[i].at
    BY <2>1
  <2>3. PICK b : b = [a EXCEPT !.at = t, !.goal = Nowhere, !.lock = FALSE, !.turned = TRUE,
                        !.flown = TRUE, !.slid = TRUE, !.lost = FALSE]
    OBVIOUS
  <2>4. room' = Put(Retake(BreaksOff(room, u), u, room.user[u].at, t), u, b)
    BY <1>8, <2>2, <2>3 DEF Teleported, Arrive
  <2>5. t \in Tile
    BY <1>2, TilesAreTiles
  <2>6. /\ b \in Avatar /\ b.at = t /\ b.pending = a.pending /\ b.slid
        /\ b.flown /\ b.poses = a.poses /\ b.forever = a.forever /\ b.turned /\ ~b.lock
    BY <1>7, <1>8, <2>3, <2>5, NowhereIsNoTile, ZenonT(40) DEF Avatar
  <2>7. /\ Changes(room, room', u) /\ Moves(room, room', u, t) /\ room'.user[u] = b
        /\ room'.exits = room.exits
    <3>1. Keeps(b) = t \/ (room.user[u].pending # Nowhere /\ Keeps(b) = Keeps(room.user[u]))
      BY <2>6 DEF Keeps
    <3>2. room \in Room
      BY <1>2
    <3> QED
      BY <2>4, <2>6, <3>1, <3>2, MoveChanges
  <2> HIDE DEF a
  <2>8. Obeys(K, u, b, u \in room'.exits) /\ Ends(timers, u, b) /\ Body(b)
    BY <1>7, <1>8, <2>6 DEF Obeys, Ends, Body
  <2>9. Good(items, K, timers, room')
    BY <1>2, <1>3, <1>7, <1>8, <2>6, <2>7, <2>8, MovedGood
  <2>10. Swimming(room) => Swimming(room')
    <3>1. ASSUME Swimming(room) PROVE Bathes(b) /\ Dry(b)
      <4>1. Dry(a)
        BY <1>7, <1>8, <3>1 DEF Swimming, a
      <4> QED
        BY <1>7, <1>8, <2>6, <4>1 DEF Bathes, Dry
    <3> QED
      BY <1>2, <2>7, <3>1, SwimmingChange
  <2> QED
    BY <1>2, <2>7, <2>9, <2>10
<1>9. CASE u \in Here /\ i \notin DOMAIN items
  <2>1. PICK b : b = [a EXCEPT !.lost = a.lock]
    OBVIOUS
  <2>2. room' = Put(room, u, b)
    BY <1>7, <1>9, <2>1 DEF Teleported
  <2>3. /\ b \in Avatar /\ b.at = a.at /\ b.pending = a.pending /\ b.slid = a.slid
        /\ b.flown = a.flown /\ b.poses = a.poses /\ b.forever = a.forever
        /\ b.toDoor = a.toDoor /\ b.turned = a.turned /\ b.goal = a.goal
        /\ (b.lock => b.lost)
    BY <1>7, <1>9, <2>1 DEF Avatar
  <2>4. a = room.user[u]
    OBVIOUS
  <2> HIDE DEF a
  <2>5. StaysThere(room.user[u], b) /\ Obeys(K, u, b, u \in room.exits) /\ Ends(timers, u, b)
    BY <1>7, <1>9, <2>3, <2>4 DEF StaysThere, Obeys, Ends
  <2> QED
    BY <1>2, <1>3, <1>7, <1>9, <2>2, <2>3, <2>5, PutGood
<1> QED
  BY <1>6, <1>8, <1>9

-----------------------------------------------------------------------------
(* The actions: statuses                                                   *)

\* What an avatar obeys does not depend on its poses.
SameMind(a, b) ==
  b.toDoor = a.toDoor /\ b.goal = a.goal /\ b.turned = a.turned /\ b.lock = a.lock
  /\ b.lost = a.lost
Delayed == {"wave", "sign", "carry"}

\* One task is put on the list, goes on, or is taken off.
LEMMA TimerSet ==
  ASSUME NEW T, NEW k \in DOMAIN T, NEW x, NEW v, NEW w \in Delayed,
         \/ T[k].user # v \/ T[k].what # w
         \/ x.user = v /\ x.what = w
  PROVE  Timed(T, v, w) => Timed([T EXCEPT ![k] = x], v, w)
<1> SUFFICES ASSUME NEW m \in DOMAIN T, T[m].user = v, T[m].what = w
             PROVE  Timed([T EXCEPT ![k] = x], v, w)
  BY DEF Timed
<1> DEFINE V == [T EXCEPT ![k] = x]
<1>1. DOMAIN V = DOMAIN T /\ V[k] = x /\ (m # k => V[m] = T[m])
  OBVIOUS
<1>2. V[m].user = v /\ V[m].what = w
  BY <1>1
<1> QED
  BY <1>1, <1>2 DEF Timed

\* A status that comes or goes, and the tasks with it.
LEMMA TimersFine ==
  ASSUME Inv, plan' = plan, items' = items, jobs' = jobs, Timers(timers'),
         NEW u \in Here, NEW b \in Avatar, room' = Put(room, u, b), StaysThere(My(u), b),
         SameMind(My(u), b), Ends(timers', u, b),
         \A v \in Here \ {u} : \A w \in Delayed : Timed(timers, v, w) => Timed(timers', v, w)
  PROVE  Fine
<1>1. /\ plan \in Plans /\ u \in In(room) /\ Good(items, jobs, timers, room) /\ Items(items)
      /\ jobs \subseteq User \X Item /\ room.exits = {} /\ In(room) = Here
  BY InvParts, MyBody
<1>2. Obeys(jobs, u, b, u \in room.exits)
  <2>1. Obeys(jobs, u, My(u), u \in room.exits)
    BY MyBody
  <2> QED
    BY <2>1 DEF Obeys, StaysThere, SameMind
<1>3. \A v \in In(room) \ {u} : /\ Obeys(jobs, v, room.user[v], v \in room.exits)
                               /\ Ends(timers', v, room.user[v])
  <2> SUFFICES ASSUME NEW v \in In(room) \ {u}
               PROVE  /\ Obeys(jobs, v, room.user[v], v \in room.exits)
                      /\ Ends(timers', v, room.user[v])
    OBVIOUS
  <2>1. Obeys(jobs, v, room.user[v], v \in room.exits) /\ Ends(timers, v, room.user[v])
    BY InvParts
  <2>2. \A w \in Delayed : Timed(timers, v, w) => Timed(timers', v, w)
    BY <1>1
  <2> QED
    BY <2>1, <2>2 DEF Ends, Delayed
<1>4. PICK s : s = Put(room, u, b)
  OBVIOUS
<1>5. PICK V : V = timers'
  OBVIOUS
<1>6. StaysThere(room.user[u], b) /\ Ends(V, u, b)
  BY <1>5 DEF My
<1>7. \A v \in In(room) \ {u} : /\ Obeys(jobs, v, room.user[v], v \in room.exits)
                               /\ Ends(V, v, room.user[v])
  BY <1>3, <1>5
<1>8. /\ Good(items, jobs, V, s) /\ (Swimming(room) => Swimming(s))
      /\ s.exits = room.exits
  BY <1>1, <1>2, <1>4, <1>6, <1>7, PutGood
<1> QED
  BY <1>1, <1>4, <1>5, <1>8 DEF Fine

\* Tasks of those who are gone.
LEMMA NobodyFine ==
  ASSUME Inv, plan' = plan, items' = items, jobs' = jobs, room' = room, Timers(timers'),
         \A v \in Here : \A w \in Delayed : Timed(timers, v, w) => Timed(timers', v, w)
  PROVE  Fine
<1>1. /\ Good(items, jobs, timers, room) /\ Items(items)
      /\ jobs \subseteq User \X Item /\ room.exits = {} /\ In(room) = Here
  BY InvParts
<1>2. Minds(jobs, timers', room)
  <2>1. \A v \in In(room) : Obeys(jobs, v, room.user[v], v \in room.exits)
                            /\ Ends(timers, v, room.user[v])
    BY InvParts
  <2> QED
    BY <1>1, <2>1 DEF Minds, Ends, Delayed
<1> QED
  BY <1>1, <1>2 DEF Fine, Good

LEMMA PosingFine ==
  ASSUME Inv, NEW u \in Here, NEW b \in Avatar, NEW what \in {"none"} \cup Delayed,
         Posing(u, b, what), StaysThere(My(u), b), SameMind(My(u), b),
         "wave" \in b.poses => "wave" \in b.forever \/ what = "wave" \/ Timed(timers, u, "wave"),
         "sign" \in b.poses => "sign" \in b.forever \/ what = "sign" \/ Timed(timers, u, "sign"),
         b.poses \cap InHand # {} =>
           "carryd" \in b.forever \/ what = "carry" \/ Timed(timers, u, "carry")
  PROVE  Fine
<1>1. /\ room' = Put(room, u, b) /\ plan' = plan /\ items' = items /\ jobs' = jobs
  BY DEF Posing
<1>2. Timers(timers) /\ u \in User
  BY InvParts
<1>3. CASE what = "none"
  <2>1. timers' = timers
    BY <1>3 DEF Posing
  <2>2. PICK V : V = timers'
    OBVIOUS
  <2>3. Ends(V, u, b)
    BY <1>3, <2>1, <2>2 DEF Ends
  <2> QED
    BY <1>1, <1>2, <2>1, <2>2, <2>3, TimersFine
<1>4. CASE what \in Delayed
  <2> DEFINE free == {k \in DOMAIN timers : timers[k] = NoTimer}
  <2>1. PICK x : x = [user |-> u, what |-> what, left |-> Sips, sips |-> FALSE]
    OBVIOUS
  <2>2. PICK k : k = Min(free)
    OBVIOUS
  <2>3. free # {} /\ timers' = [timers EXCEPT ![k] = x]
    BY <1>4, <2>1, <2>2 DEF Posing, Delayed
  <2>4. DOMAIN timers = 1 .. MaxTimers /\ timers \in [1 .. MaxTimers -> Timer]
    BY <1>2 DEF Timers
  <2>5. k \in DOMAIN timers /\ timers[k] = NoTimer
    <3>1. free \in SUBSET Nat
      BY <2>4
    <3> HIDE DEF free
    <3>2. k \in free
      BY <2>2, <2>3, <3>1, MinIn
    <3> QED
      BY <3>2 DEF free
  <2> HIDE DEF free
  <2>6. x \in Timer /\ x.user = u /\ x.what = what
    BY <1>2, <1>4, <2>1, WalkingAssumption DEF Timer, Delayed
  <2>7. Timers(timers')
    <3>1. timers' \in [1 .. MaxTimers -> Timer]
      BY <2>3, <2>4, <2>6
    <3>2. \A m \in DOMAIN timers' : timers'[m].what # "none" => timers'[m].user \in User
      BY <1>2, <2>3, <2>4, <2>6 DEF Timers
    <3> QED
      BY <3>1, <3>2 DEF Timers
  <2>8. \A v, w : w \in Delayed /\ Timed(timers, v, w) => Timed(timers', v, w)
    <3> SUFFICES ASSUME NEW v, NEW w \in Delayed, Timed(timers, v, w)
                 PROVE  Timed(timers', v, w)
      OBVIOUS
    <3>1. timers[k].what # w
      BY <2>5 DEF NoTimer, Delayed
    <3> QED
      BY <2>3, <2>5, <3>1, TimerSet
  <2>9. Timed(timers', u, what)
    <3>1. k \in DOMAIN timers' /\ timers'[k] = x
      BY <2>3, <2>4, <2>5
    <3> QED
      BY <2>6, <3>1 DEF Timed
  <2>10. Ends(timers', u, b)
    BY <2>8, <2>9 DEF Ends, Delayed
  <2> QED
    BY <1>1, <2>7, <2>8, <2>10, TimersFine
<1> QED
  BY <1>3, <1>4

LEMMA WaveFine ==
  ASSUME Inv, NEW u \in User, Wave(u)
  PROVE  Fine
<1> DEFINE a == My(u)
<1>1. u \in Here
  BY DEF Wave, May
<1>2. a \in Avatar /\ Ends(timers, u, a)
  BY <1>1, MyBody
<1>3. PICK b : b = [a EXCEPT !.poses = (a.poses \ {"dance"}) \cup {"wave"}]
  OBVIOUS
<1>4. Posing(u, b, "wave")
  BY <1>3 DEF Wave
<1>5. b \in Avatar /\ b.poses = (a.poses \ {"dance"}) \cup {"wave"} /\ b.forever = a.forever
      /\ b.at = a.at /\ b.pending = a.pending /\ b.slid = a.slid /\ b.flown = a.flown
      /\ SameMind(a, b)
  <2>1. (a.poses \ {"dance"}) \cup {"wave"} \in SUBSET Pose
    BY <1>2 DEF Avatar, Pose
  <2> QED
    BY <1>2, <1>3, <2>1 DEF Avatar, SameMind
<1> HIDE DEF a
<1>6. StaysThere(a, b)
  BY <1>5 DEF StaysThere
<1>7. /\ "wave" \in {"none"} \cup Delayed
      /\ "sign" \in b.poses => "sign" \in b.forever \/ Timed(timers, u, "sign")
      /\ b.poses \cap InHand # {} => "carryd" \in b.forever \/ Timed(timers, u, "carry")
  BY <1>2, <1>5 DEF Ends, Delayed, InHand
<1> QED
  BY <1>1, <1>4, <1>5, <1>6, <1>7, PosingFine DEF a

LEMMA DanceFine ==
  ASSUME Inv, NEW u \in User, Dance(u)
  PROVE  Fine
<1> DEFINE a == My(u)
<1>1. u \in Here
  BY DEF Dance, May
<1>2. a \in Avatar /\ Ends(timers, u, a)
  BY <1>1, MyBody
<1>3. PICK b : b = [Drop(a) EXCEPT !.poses = @ \cup {"dance"}]
  OBVIOUS
<1>4. Posing(u, b, "none")
  BY <1>3 DEF Dance
<1>5. b \in Avatar /\ b.poses = (a.poses \ InHand) \cup {"dance"}
      /\ b.forever = a.forever \ {"carryd"}
      /\ b.at = a.at /\ b.pending = a.pending /\ b.slid = a.slid /\ b.flown = a.flown
      /\ SameMind(a, b)
  <2>1. (a.poses \ InHand) \cup {"dance"} \in SUBSET Pose
    BY <1>2 DEF Avatar, Pose
  <2> QED
    BY <1>2, <1>3, <2>1 DEF Avatar, SameMind, Drop
<1> HIDE DEF a
<1>6. StaysThere(a, b)
  BY <1>5 DEF StaysThere, InHand
<1>7. /\ "wave" \in b.poses => "wave" \in b.forever \/ Timed(timers, u, "wave")
      /\ "sign" \in b.poses => "sign" \in b.forever \/ Timed(timers, u, "sign")
      /\ b.poses \cap InHand = {}
  BY <1>2, <1>5 DEF Ends, InHand
<1> QED
  BY <1>1, <1>4, <1>5, <1>6, <1>7, PosingFine DEF a

LEMMA LidoVoteFine ==
  ASSUME Inv, NEW u \in User, NEW bare \in BOOLEAN, LidoVote(u, bare)
  PROVE  Fine
<1> DEFINE a == My(u)
           forever == IF bare THEN a.forever \cup {"sign"} ELSE a.forever
           what == IF bare THEN "none" ELSE "sign"
<1>1. u \in Here
  BY DEF LidoVote, May
<1>2. a \in Avatar /\ Ends(timers, u, a)
  BY <1>1, MyBody
<1>3. PICK b : b = [a EXCEPT !.poses = a.poses \cup {"sign"}, !.forever = forever]
  OBVIOUS
<1>4. Posing(u, b, what)
  BY <1>3 DEF LidoVote
<1>5. b \in Avatar /\ b.poses = a.poses \cup {"sign"} /\ b.forever = forever
      /\ b.at = a.at /\ b.pending = a.pending /\ b.slid = a.slid /\ b.flown = a.flown
      /\ SameMind(a, b)
  <2>1. a.poses \cup {"sign"} \in SUBSET Pose /\ forever \in SUBSET Pose
    BY <1>2 DEF Avatar, Pose
  <2> HIDE DEF forever
  <2> QED
    BY <1>2, <1>3, <2>1 DEF Avatar, SameMind
<1>6. a.forever \subseteq forever /\ ("sign" \in forever \/ what = "sign")
      /\ what \in {"none"} \cup Delayed
  BY DEF Delayed
<1> HIDE DEF a, forever, what
<1>7. StaysThere(a, b)
  BY <1>5 DEF StaysThere
<1>8. /\ "wave" \in b.poses => "wave" \in b.forever \/ Timed(timers, u, "wave")
      /\ "sign" \in b.forever \/ what = "sign"
      /\ b.poses \cap InHand # {} => "carryd" \in b.forever \/ Timed(timers, u, "carry")
  BY <1>2, <1>5, <1>6 DEF Ends, InHand
<1> QED
  BY <1>1, <1>4, <1>5, <1>6, <1>7, <1>8, PosingFine DEF a

LEMMA CarryItemFine ==
  ASSUME Inv, NEW u \in User, CarryItem(u)
  PROVE  Fine
<1> DEFINE a == My(u)
<1>1. u \in Here
  BY DEF CarryItem, May
<1>2. a \in Avatar /\ Ends(timers, u, a)
  BY <1>1, MyBody
<1>3. PICK b : b = [Drop(a) EXCEPT !.poses = (@ \ {"dance"}) \cup {"carryd"}]
  OBVIOUS
<1>4. Posing(u, b, "carry")
  BY <1>3 DEF CarryItem
<1>5. b \in Avatar /\ b.poses = ((a.poses \ InHand) \ {"dance"}) \cup {"carryd"}
      /\ b.forever = a.forever \ {"carryd"}
      /\ b.at = a.at /\ b.pending = a.pending /\ b.slid = a.slid /\ b.flown = a.flown
      /\ SameMind(a, b)
  <2>1. ((a.poses \ InHand) \ {"dance"}) \cup {"carryd"} \in SUBSET Pose
    BY <1>2 DEF Avatar, Pose
  <2> QED
    BY <1>2, <1>3, <2>1 DEF Avatar, SameMind, Drop
<1> HIDE DEF a
<1>6. StaysThere(a, b)
  BY <1>5 DEF StaysThere, InHand
<1>7. /\ "carry" \in {"none"} \cup Delayed
      /\ "wave" \in b.poses => "wave" \in b.forever \/ Timed(timers, u, "wave")
      /\ "sign" \in b.poses => "sign" \in b.forever \/ Timed(timers, u, "sign")
  BY <1>2, <1>5 DEF Ends, Delayed, InHand
<1> QED
  BY <1>1, <1>4, <1>5, <1>6, <1>7, PosingFine DEF a

LEMMA StopStatusFine ==
  ASSUME Inv, NEW u \in User, NEW what \in {"carry", "dance"}, StopStatus(u, what)
  PROVE  Fine
<1> DEFINE a == My(u)
<1>1. u \in Here
  BY DEF StopStatus, May
<1>2. a \in Avatar /\ Ends(timers, u, a)
  BY <1>1, MyBody
<1>3. PICK b : b = IF what = "carry" THEN Drop(a) ELSE [a EXCEPT !.poses = @ \ {"dance"}]
  OBVIOUS
<1>4. Posing(u, b, "none")
  BY <1>3 DEF StopStatus
<1>5. b \in Avatar /\ b.poses \subseteq a.poses /\ ("swim" \in a.poses => "swim" \in b.poses)
      /\ b.poses \cap {"sit", "lay"} = a.poses \cap {"sit", "lay"}
      /\ a.forever \ {"carryd"} \subseteq b.forever
      /\ (b.poses \cap InHand # {} => b.forever = a.forever)
      /\ b.at = a.at /\ b.pending = a.pending /\ b.slid = a.slid /\ b.flown = a.flown
      /\ SameMind(a, b)
  <2>1. CASE what = "carry"
    <3>1. b = [a EXCEPT !.poses = a.poses \ InHand, !.forever = a.forever \ {"carryd"}]
      BY <1>3, <2>1 DEF Drop
    <3>2. b \in Avatar /\ b.poses = a.poses \ InHand /\ b.forever = a.forever \ {"carryd"}
          /\ b.at = a.at /\ b.pending = a.pending /\ b.slid = a.slid /\ b.flown = a.flown
          /\ SameMind(a, b)
      BY <1>2, <3>1 DEF Avatar, SameMind
    <3> QED
      BY <3>2 DEF InHand
  <2>2. CASE what # "carry"
    <3>1. b = [a EXCEPT !.poses = a.poses \ {"dance"}]
      BY <1>3, <2>2
    <3>2. b \in Avatar /\ b.poses = a.poses \ {"dance"} /\ b.forever = a.forever
          /\ b.at = a.at /\ b.pending = a.pending /\ b.slid = a.slid /\ b.flown = a.flown
          /\ SameMind(a, b)
      BY <1>2, <3>1 DEF Avatar, SameMind
    <3> QED
      BY <3>2
  <2> QED
    BY <2>1, <2>2
<1> HIDE DEF a
<1>6. StaysThere(a, b)
  BY <1>5 DEF StaysThere
<1>7. /\ "wave" \in b.poses => "wave" \in b.forever \/ Timed(timers, u, "wave")
      /\ "sign" \in b.poses => "sign" \in b.forever \/ Timed(timers, u, "sign")
      /\ b.poses \cap InHand # {} => "carryd" \in b.forever \/ Timed(timers, u, "carry")
  <2>1. b.poses \cap InHand # {} => a.poses \cap InHand # {}
    BY <1>5
  <2> QED
    BY <1>2, <1>5, <2>1 DEF Ends
<1> QED
  BY <1>1, <1>4, <1>5, <1>6, <1>7, PosingFine DEF a

\* A task that ends, or goes on, leaves tasks.
LEMMA TimersKept ==
  ASSUME Timers(timers), NEW k \in DOMAIN timers, NEW x \in Timer,
         x.what # "none" => x.user \in User, timers' = [timers EXCEPT ![k] = x]
  PROVE  Timers(timers')
<1>1. timers' \in [1 .. MaxTimers -> Timer]
  BY DEF Timers
<1>2. \A m \in DOMAIN timers' : timers'[m].what # "none" => timers'[m].user \in User
  BY DEF Timers
<1> QED
  BY <1>1, <1>2 DEF Timers

LEMMA NoTimerIs == NoTimer \in Timer /\ NoTimer.what = "none"
  BY DEF NoTimer, Timer

LEMMA StatusEndsFine ==
  ASSUME Inv, NEW k \in DOMAIN timers, StatusEnds(k)
  PROVE  Fine
<1> DEFINE u == timers[k].user
           what == timers[k].what
           a == My(u)
<1>1. /\ what \in {"wave", "sign"} /\ timers' = [timers EXCEPT ![k] = NoTimer]
      /\ plan' = plan /\ items' = items /\ jobs' = jobs
  BY DEF StatusEnds
<1>2. Timers(timers) /\ Here \subseteq User
  BY InvParts
<1>3. Timers(timers')
  BY <1>1, <1>2, NoTimerIs, TimersKept
<1>4. \A v, w : w \in Delayed /\ (v # u \/ w # what) /\ Timed(timers, v, w)
        => Timed(timers', v, w)
  BY <1>1, TimerSet
<1>5. CASE u \notin Here
  <2>1. room' = room
    BY <1>5 DEF StatusEnds
  <2>2. \A v \in Here : v # u
    BY <1>5
  <2> HIDE DEF u, what
  <2>3. \A v \in Here : \A w \in Delayed : Timed(timers, v, w) => Timed(timers', v, w)
    BY <1>4, <2>2
  <2> QED
    BY <1>1, <1>3, <2>1, <2>3, NobodyFine
<1>6. CASE u \in Here
  <2>1. a \in Avatar /\ Ends(timers, u, a)
    BY <1>6, MyBody
  <2>2. PICK b : b = [a EXCEPT !.poses = a.poses \ {what}, !.forever = a.forever \ {what}]
    OBVIOUS
  <2>3. room' = Put(room, u, b)
    BY <1>6, <2>2 DEF StatusEnds
  <2> HIDE DEF u, what, a
  <2>4. b \in Avatar /\ b.poses = a.poses \ {what} /\ b.forever = a.forever \ {what}
        /\ b.at = a.at /\ b.pending = a.pending /\ b.slid = a.slid /\ b.flown = a.flown
        /\ SameMind(a, b)
    BY <2>1, <2>2 DEF Avatar, SameMind
  <2>5. StaysThere(a, b)
    BY <1>1, <2>4 DEF StaysThere
  <2>6. Ends(timers', u, b)
    <3>1. /\ what # "wave" /\ Timed(timers, u, "wave") => Timed(timers', u, "wave")
          /\ what # "sign" /\ Timed(timers, u, "sign") => Timed(timers', u, "sign")
          /\ Timed(timers, u, "carry") => Timed(timers', u, "carry")
      BY <1>1, <1>4 DEF Delayed
    <3>2. /\ "wave" \in b.poses => "wave" \in b.forever \/ Timed(timers', u, "wave")
          /\ "sign" \in b.poses => "sign" \in b.forever \/ Timed(timers', u, "sign")
      BY <1>1, <2>1, <2>4, <3>1 DEF Ends
    <3>3. b.poses \cap InHand # {} => "carryd" \in b.forever \/ Timed(timers', u, "carry")
      BY <1>1, <2>1, <2>4, <3>1 DEF Ends
    <3> QED
      BY <3>2, <3>3 DEF Ends
  <2>7. \A v \in Here \ {u} : \A w \in Delayed : Timed(timers, v, w) => Timed(timers', v, w)
    BY <1>4
  <2> QED
    BY <1>1, <1>3, <1>6, <2>3, <2>4, <2>5, <2>6, <2>7, TimersFine DEF a
<1> QED
  BY <1>5, <1>6

LEMMA SipFine ==
  ASSUME Inv, NEW k \in DOMAIN timers, Sip(k)
  PROVE  Fine
<1> DEFINE u == timers[k].user
           t == timers[k]
           a == My(u)
           next == [t EXCEPT !.sips = ~@, !.left = IF t.sips THEN @ - 1 ELSE @]
           x == IF u \in Here /\ t.left > 0 THEN next ELSE NoTimer
<1>1. /\ t.what = "carry" /\ timers' = [timers EXCEPT ![k] = x]
      /\ plan' = plan /\ items' = items /\ jobs' = jobs
  BY DEF Sip
<1>2. Timers(timers) /\ Here \subseteq User
  BY InvParts
<1>3. t \in Timer /\ u \in User
  BY <1>1, <1>2 DEF Timers
<1>4. x \in Timer /\ (x.what # "none" => x.user = u)
      /\ (u \in Here /\ t.left > 0 => x.user = u /\ x.what = "carry")
  <2>1. CASE u \in Here /\ t.left > 0
    <3>1. x = next
      BY <2>1
    <3>2. (IF t.sips THEN t.left - 1 ELSE t.left) \in Nat /\ (~t.sips) \in BOOLEAN
      BY <1>3, <2>1 DEF Timer
    <3>3. next \in Timer /\ next.user = u /\ next.what = t.what
      BY <1>3, <3>2 DEF Timer
    <3> HIDE DEF next, x
    <3> QED
      BY <1>1, <3>1, <3>3
  <2>2. CASE ~(u \in Here /\ t.left > 0)
    <3>1. x = NoTimer
      BY <2>2
    <3> HIDE DEF x
    <3> QED
      BY <2>2, <3>1, NoTimerIs
  <2> QED
    BY <2>1, <2>2
<1> HIDE DEF x
<1>5. Timers(timers')
  BY <1>1, <1>2, <1>3, <1>4, TimersKept
<1>6. \A v, w : w \in Delayed /\ (v # u \/ w # "carry") /\ Timed(timers, v, w)
        => Timed(timers', v, w)
  BY <1>1, TimerSet
<1>7. CASE u \notin Here
  <2>1. room' = room
    BY <1>7 DEF Sip
  <2>2. \A v \in Here : v # u
    BY <1>7
  <2> HIDE DEF u, t
  <2>3. \A v \in Here : \A w \in Delayed : Timed(timers, v, w) => Timed(timers', v, w)
    BY <1>6, <2>2
  <2> QED
    BY <1>1, <1>5, <2>1, <2>3, NobodyFine
<1>8. CASE u \in Here
  <2>1. a \in Avatar /\ Ends(timers, u, a)
    BY <1>8, MyBody
  <2>2. PICK b : b = IF t.left = 0 THEN Drop(a)
                     ELSE [a EXCEPT !.poses = (@ \ InHand)
                             \cup (IF t.sips THEN {"drink"} ELSE {"carryd"})]
    OBVIOUS
  <2>3. room' = Put(room, u, b)
    BY <1>8, <2>2 DEF Sip, PutDown
  <2>4. /\ b \in Avatar /\ b.poses \ InHand = a.poses \ InHand
        /\ a.forever \ {"carryd"} \subseteq b.forever
        /\ (b.poses \cap InHand # {} => t.left # 0)
        /\ b.at = a.at /\ b.pending = a.pending /\ b.slid = a.slid /\ b.flown = a.flown
        /\ SameMind(a, b)
    <3>1. CASE t.left = 0
      <4>1. b = [a EXCEPT !.poses = a.poses \ InHand, !.forever = a.forever \ {"carryd"}]
        BY <2>2, <3>1 DEF Drop
      <4>2. b \in Avatar /\ b.poses = a.poses \ InHand /\ b.forever = a.forever \ {"carryd"}
            /\ b.at = a.at /\ b.pending = a.pending /\ b.slid = a.slid /\ b.flown = a.flown
            /\ SameMind(a, b)
        BY <2>1, <4>1 DEF Avatar, SameMind
      <4> QED
        BY <4>2
    <3>2. CASE t.left # 0
      <4> DEFINE poses == (a.poses \ InHand) \cup (IF t.sips THEN {"drink"} ELSE {"carryd"})
      <4>1. b = [a EXCEPT !.poses = poses]
        BY <2>2, <3>2
      <4>2. poses \in SUBSET Pose /\ poses \ InHand = a.poses \ InHand
        BY <2>1 DEF Avatar, Pose, InHand
      <4> HIDE DEF poses
      <4>3. b \in Avatar /\ b.poses = poses /\ b.forever = a.forever
            /\ b.at = a.at /\ b.pending = a.pending /\ b.slid = a.slid /\ b.flown = a.flown
            /\ SameMind(a, b)
        BY <2>1, <4>1, <4>2 DEF Avatar, SameMind
      <4> QED
        BY <3>2, <4>2, <4>3
    <3> QED
      BY <3>1, <3>2
  <2>5. StaysThere(a, b)
    <3> HIDE DEF a
    <3> QED
      BY <2>4 DEF StaysThere, InHand
  <2>6. t.left # 0 => x.user = u /\ x.what = "carry"
    BY <1>3, <1>4, <1>8 DEF Timer
  <2> HIDE DEF u, t, a
  <2>7. Ends(timers', u, b)
    <3>1. /\ Timed(timers, u, "wave") => Timed(timers', u, "wave")
          /\ Timed(timers, u, "sign") => Timed(timers', u, "sign")
      BY <1>6 DEF Delayed
    <3>2. t.left # 0 => Timed(timers', u, "carry")
      <4>1. k \in DOMAIN timers' /\ timers'[k] = x
        BY <1>1
      <4> QED
        BY <2>6, <4>1 DEF Timed
    <3>3. /\ "wave" \in b.poses => "wave" \in b.forever \/ Timed(timers', u, "wave")
          /\ "sign" \in b.poses => "sign" \in b.forever \/ Timed(timers', u, "sign")
      BY <2>1, <2>4, <3>1 DEF Ends, InHand
    <3> QED
      BY <2>4, <3>2, <3>3 DEF Ends
  <2>8. \A v \in Here \ {u} : \A w \in Delayed : Timed(timers, v, w) => Timed(timers', v, w)
    BY <1>6
  <2> QED
    BY <1>1, <1>5, <1>8, <2>3, <2>4, <2>5, <2>7, <2>8, TimersFine DEF a
<1> QED
  BY <1>7, <1>8

-----------------------------------------------------------------------------
(* The actions: orders                                                     *)

LEMMA GapIn == ASSUME NEW m \in Int, NEW n \in Int PROVE Gap(m, n) \in Nat
<1> DEFINE S == {m - n, n - m}
<1>1. \E x \in S : \A y \in S : x >= y
  <2>1. CASE m >= n
    BY <2>1
  <2>2. CASE ~(m >= n)
    BY <2>2
  <2> QED
    BY <2>1, <2>2
<1>2. PICK g : g = Max(S)
  OBVIOUS
<1>3. g \in S /\ \A y \in S : g >= y
  BY <1>1, <1>2 DEF Max
<1> QED
  BY <1>2, <1>3 DEF Gap

LEMMA NearestIn ==
  ASSUME plan \in Plans, NEW b \in DOMAIN plan.bots, Beat(b) # <<>>, NEW t \in Int \X Int
  PROVE  Nearest(b, t) \in Int \X Int /\ Nearest(b, t) # Nowhere
<1>1. Beat(b) \in Seq((Int \X Int) \ {Nowhere})
  BY PlansAssumption DEF Beat
<1> DEFINE D == DOMAIN Beat(b)
           far(n) == Distance(Beat(b)[n], t)
           S == {n \in D : \A m \in D : far(n) <= far(m)}
           F == {far(n) : n \in D}
<1>2. D \subseteq Nat /\ D # {} /\ \A n \in D : Beat(b)[n] \in (Int \X Int) \ {Nowhere}
  <2>1. Len(Beat(b)) \in Nat /\ Len(Beat(b)) # 0 /\ D = 1 .. Len(Beat(b))
    BY <1>1, EmptySeq
  <2>2. 1 \in D
    BY <2>1
  <2>3. \A n \in D : Beat(b)[n] \in (Int \X Int) \ {Nowhere}
    BY <1>1, <2>1, ElementOfSeq
  <2> QED
    BY <2>1, <2>2, <2>3
<1>3. \A n \in D : far(n) \in Nat
  <2> SUFFICES ASSUME NEW n \in D PROVE far(n) \in Nat
    OBVIOUS
  <2>1. PICK s : s = Beat(b)[n]
    OBVIOUS
  <2>2. s[1] \in Int /\ s[2] \in Int /\ t[1] \in Int /\ t[2] \in Int
    BY <1>2, <2>1
  <2>3. Gap(s[1], t[1]) \in Nat /\ Gap(s[2], t[2]) \in Nat
    BY <2>2, GapIn
  <2> QED
    BY <2>1, <2>3 DEF Distance
<1> HIDE DEF D
<1>4. S # {}
  <2>1. F \in SUBSET Nat /\ F # {}
    BY <1>2, <1>3
  <2> HIDE DEF far
  <2>2. Min(F) \in F /\ \A x \in F : Min(F) <= x
    <3> HIDE DEF F
    <3> QED
      BY <2>1, MinIn
  <2>3. PICK n \in D : Min(F) = far(n)
    BY <2>2
  <2>4. \A m \in D : far(n) <= far(m)
    BY <2>2, <2>3
  <2> QED
    BY <2>4
<1>5. S \in SUBSET Nat
  BY <1>2
<1>6. Min(S) \in D
  <2>1. Min(S) \in S
    <3> HIDE DEF S
    <3> QED
      BY <1>4, <1>5, MinIn
  <2> QED
    BY <2>1
<1>7. Nearest(b, t) = Beat(b)[Min(S)]
  BY DEF Nearest, D
<1> HIDE DEF S
<1> QED
  BY <1>2, <1>6, <1>7

LEMMA OrderFine ==
  ASSUME Inv, NEW u \in User, Order(u)
  PROVE  Fine
<1> DEFINE at == room.user[u].at
           hear(b) == Near(room.bots[b].at, at) /\ room.bots[b].customer = NoUser /\ Beat(b) # <<>>
           new(b) == IF hear(b)
                       THEN [room.bots[b] EXCEPT !.goal = Nearest(b, at), !.customer = u]
                       ELSE room.bots[b]
<1>1. /\ plan \in Plans /\ room \in Room /\ Good(items, jobs, timers, room)
      /\ room.exits = {} /\ In(room) = Here
  BY InvParts
<1>2. u \in Here
  BY DEF Order
<1>3. PICK bots : bots = [b \in DOMAIN room.bots |-> new(b)]
  OBVIOUS
<1>4. PICK s : s = [room EXCEPT !.bots = bots]
  OBVIOUS
<1>5. Does(s)
  BY <1>3, <1>4 DEF Order, Does
<1>6. at \in Int \X Int
  <2>1. Body(room.user[u])
    BY <1>2, InvParts
  <2> QED
    BY <1>1, <2>1, TilesAreTiles DEF Body
<1>7. DOMAIN room.bots = DOMAIN plan.bots /\ room.bots \in [DOMAIN plan.bots -> BotState]
  BY <1>1 DEF Room
<1>8. ASSUME NEW b \in DOMAIN plan.bots
      PROVE  /\ new(b) \in BotState /\ new(b).at = room.bots[b].at
             /\ \/ new(b) = room.bots[b]
                \/ new(b).goal # Nowhere
  <2>1. room.bots[b] \in BotState
    BY <1>7
  <2>2. CASE hear(b)
    <3>1. Nearest(b, at) \in Int \X Int /\ Nearest(b, at) # Nowhere
      BY <1>1, <1>6, <2>2, NearestIn
    <3>2. PICK goal \in Int \X Int : goal = Nearest(b, at) /\ goal # Nowhere
      BY <3>1
    <3>3. new(b) = [room.bots[b] EXCEPT !.goal = goal, !.customer = u]
      BY <2>2, <3>2
    <3> HIDE DEF new, hear, at
    <3> QED
      BY <2>1, <3>2, <3>3 DEF BotState
  <2>3. CASE ~hear(b)
    <3>1. new(b) = room.bots[b]
      BY <2>3
    <3> HIDE DEF new, hear, at
    <3> QED
      BY <2>1, <3>1
  <2> QED
    BY <2>2, <2>3
<1> HIDE DEF new, hear, at
<1>9. bots \in [DOMAIN plan.bots -> BotState] /\ DOMAIN bots = DOMAIN plan.bots
      /\ \A b \in DOMAIN plan.bots :
           /\ bots[b].at = room.bots[b].at
           /\ \/ bots[b] = room.bots[b]
              \/ bots[b].goal # Nowhere
  <2>1. \A b \in DOMAIN plan.bots : bots[b] = new(b)
    BY <1>3, <1>7
  <2>2. bots = [b \in DOMAIN plan.bots |-> new(b)]
    BY <1>3, <1>7
  <2>3. bots \in [DOMAIN plan.bots -> BotState]
    BY <1>8, <2>2
  <2> QED
    BY <1>8, <2>1, <2>3
<1>10. /\ s \in Room /\ s.bots = bots /\ s.present = room.present /\ s.user = room.user
       /\ s.units = room.units /\ s.shared = room.shared /\ s.cut = room.cut
       /\ s.stuck = room.stuck /\ s.exits = room.exits
  BY <1>1, <1>4, <1>9 DEF Room
<1>11. In(s) = In(room) /\ UserTiles(s) = UserTiles(room) /\ (Apart(room) => Apart(s))
  BY <1>10 DEF In, UserTiles, Apart
<1>12. BotTiles(s) = BotTiles(room) /\ (BotsApart(room) => BotsApart(s))
  BY <1>7, <1>9, <1>10 DEF BotTiles, BotsApart
<1>13. People(s)
  BY <1>1, <1>10, <1>11 DEF Good, People
<1>14. Placed(s)
  BY <1>1, <1>10, <1>11, <1>12 DEF Good, Placed
<1>15. Minds(jobs, timers, s) /\ Sits(items, s)
  BY <1>1, <1>10, <1>11 DEF Good, Minds, Sits
<1>16. First(s)
  BY <1>1, <1>10 DEF Good, First
<1>17. Serves(s)
  <2>1. Serves(room)
    BY <1>1 DEF Good
  <2> QED
    BY <1>7, <1>9, <1>10, <2>1 DEF Serves
<1>18. Swimming(room) => Swimming(s)
  BY <1>10, <1>11 DEF Swimming
<1>19. Good(items, jobs, timers, s)
  BY <1>13, <1>14, <1>15, <1>16, <1>17 DEF Good
<1> QED
  BY <1>1, <1>5, <1>10, <1>18, <1>19, DoesFine

-----------------------------------------------------------------------------
(* What lies on a tile                                                     *)

\* Of some items one lies above the others.
LEMMA SomeTop ==
  ASSUME NEW I, \A i \in DOMAIN I : i \in Nat /\ I[i].h \in Nat,
         NEW S \in SUBSET DOMAIN I, IsFiniteSet(S), S # {}
  PROVE  \E i \in S : \A j \in S : Above(I, i, j)
<1> DEFINE P == {T \in SUBSET S : T # {} => \E i \in T : \A j \in T : Above(I, i, j)}
<1>1. ASSUME NEW T \in SUBSET S, T # {}, \A x \in T : T \ {x} \in P
      PROVE  T \in P
  <2>1. PICK x \in T : TRUE
    BY <1>1
  <2>2. Above(I, x, x) /\ x \in Nat /\ I[x].h \in Nat
    BY DEF Above
  <2>3. CASE T \ {x} = {}
    BY <2>2, <2>3
  <2>4. CASE T \ {x} # {}
    <3>1. PICK i \in T \ {x} : \A j \in T \ {x} : Above(I, i, j)
      BY <1>1, <2>4
    <3>2. i \in Nat /\ I[i].h \in Nat
      OBVIOUS
    <3>3. CASE Above(I, i, x)
      BY <3>1, <3>3
    <3>4. CASE ~Above(I, i, x)
      <4>1. Above(I, x, i)
        BY <2>2, <3>2, <3>4 DEF Above
      <4>2. ASSUME NEW j \in T PROVE Above(I, x, j)
        <5>1. CASE j = x
          BY <2>2, <5>1
        <5>2. CASE j # x
          <6>1. Above(I, i, j) /\ j \in Nat /\ I[j].h \in Nat
            BY <3>1, <5>2
          <6> QED
            BY <2>2, <3>2, <4>1, <6>1 DEF Above
        <5> QED
          BY <5>1, <5>2
      <4> QED
        BY <4>2
    <3> QED
      BY <3>3, <3>4
  <2> QED
    BY <2>3, <2>4
<1>2. {} \in P
  OBVIOUS
<1> HIDE DEF P
<1>3. SUBSET S \subseteq P
  BY <1>1, <1>2, SetInduct
<1>4. S \in P
  BY <1>3
<1> QED
  BY <1>4 DEF P

LEMMA ItemIs ==
  ASSUME NEW I, Items(I), NEW i \in DOMAIN I
  PROVE  i \in Item /\ i \in Nat /\ I[i].h \in Nat /\ Shape[i].top \in Nat /\ I[i].at \in Tiles
<1>1. i \in Item /\ I[i].h \in 0 .. MaxStack /\ I[i].at \in Tiles
  BY DEF Items
<1>2. MaxStack \in Nat /\ Item \subseteq Nat \ {0}
  BY WalkingAssumption
<1>3. Shape[i].top \in Nat
  <2>1. Shape[i] \in [type : Square \ {"open"}, width : Nat \ {0}, length : Nat \ {0},
                      top : Nat, pair : Nat]
    BY <1>1, WalkingAssumption
  <2> QED
    BY <2>1
<1>4. I[i].h \in Nat /\ i \in Nat
  BY <1>1, <1>2
<1> QED
  BY <1>1, <1>3, <1>4

\* The one on top is one of those that lie on the tile, and lies above them.
LEMMA TopIs ==
  ASSUME plan \in Plans, NEW I, Items(I), NEW t, Lying(I, t) # {}
  PROVE  /\ TopItem(I, t) \in Lying(I, t) /\ \A j \in Lying(I, t) : Above(I, TopItem(I, t), j)
         /\ TopItem(I, t) \in DOMAIN I
<1>1. Lying(I, t) \in SUBSET DOMAIN I /\ DOMAIN I \subseteq Item
  BY DEF Lying, Items
<1>2. IsFiniteSet(Lying(I, t))
  BY <1>1, WalkingAssumption, FS_Subset
<1>3. \A i \in DOMAIN I : i \in Nat /\ I[i].h \in Nat
  BY ItemIs
<1>4. \E i \in Lying(I, t) : \A j \in Lying(I, t) : Above(I, i, j)
  BY <1>1, <1>2, <1>3, SomeTop
<1>5. TopItem(I, t) \in Lying(I, t) /\ \A j \in Lying(I, t) : Above(I, TopItem(I, t), j)
  <2> DEFINE P(i) == \A j \in Lying(I, t) : Above(I, i, j)
  <2>1. TopItem(I, t) = CHOOSE i \in Lying(I, t) : P(i)
    BY DEF TopItem
  <2>2. \E i \in Lying(I, t) : P(i)
    BY <1>4
  <2> HIDE DEF P
  <2>3. TopItem(I, t) \in Lying(I, t) /\ P(TopItem(I, t))
    BY <2>1, <2>2
  <2> QED
    BY <2>3 DEF P
<1> QED
  BY <1>1, <1>5

\* Where the same items lie in the same way, the tile is what it was.
LEMMA SameState ==
  ASSUME plan \in Plans, NEW I, NEW H, Items(I), Items(H), NEW t, Lying(I, t) = Lying(H, t),
         \A j \in Lying(H, t) : I[j] = H[j]
  PROVE  StateOf(I, t) = StateOf(H, t)
<1>1. CASE Lying(H, t) = {}
  BY <1>1 DEF StateOf
<1>2. CASE Lying(H, t) # {}
  <2> DEFINE x == TopItem(I, t)
             y == TopItem(H, t)
  <2>1. x \in Lying(H, t) /\ \A j \in Lying(H, t) : Above(I, x, j)
    BY <1>2, TopIs
  <2>2. y \in Lying(H, t) /\ (\A j \in Lying(H, t) : Above(H, y, j)) /\ y \in DOMAIN H
    BY <1>2, TopIs
  <2>3. x \in DOMAIN H
    BY <2>1 DEF Lying
  <2>4. H[x].h \in Nat /\ H[y].h \in Nat /\ x \in Nat /\ y \in Nat
    BY <2>2, <2>3, ItemIs
  <2> HIDE DEF x, y
  <2>5. I[x] = H[x] /\ I[y] = H[y] /\ Above(I, x, y) /\ Above(H, y, x)
    BY <2>1, <2>2
  <2>6. x = y
    BY <2>4, <2>5 DEF Above
  <2> QED
    BY <1>2, <2>6 DEF StateOf, x, y
<1> QED
  BY <1>1, <1>2

\* The library's Max of a finite set of numbers is one of them.
LEMMA MaxOf ==
  ASSUME NEW S \in SUBSET Nat, IsFiniteSet(S), S # {}
  PROVE  Max(S) \in S
<1> DEFINE P == {T \in SUBSET S : T # {} => \E x \in T : \A y \in T : x >= y}
<1>1. ASSUME NEW T \in SUBSET S, T # {}, \A x \in T : T \ {x} \in P
      PROVE  T \in P
  <2>1. PICK x \in T : TRUE
    BY <1>1
  <2>2. CASE T \ {x} = {}
    BY <2>2
  <2>3. CASE T \ {x} # {}
    <3>1. PICK m \in T \ {x} : \A y \in T \ {x} : m >= y
      BY <1>1, <2>3
    <3>2. CASE m >= x
      BY <3>1, <3>2
    <3>3. CASE ~(m >= x)
      <4>1. \A y \in T : x >= y
        BY <3>1, <3>3
      <4> QED
        BY <4>1
    <3> QED
      BY <3>2, <3>3
  <2> QED
    BY <2>2, <2>3
<1>2. {} \in P
  OBVIOUS
<1> HIDE DEF P
<1>3. SUBSET S \subseteq P
  BY <1>1, <1>2, SetInduct
<1>4. \E x \in S : \A y \in S : x >= y
  <2>1. S \in P
    BY <1>3
  <2> QED
    BY <2>1 DEF P
<1> QED
  BY <1>4 DEF Max

LEMMA FootprintIs ==
  ASSUME NEW i \in Item, NEW at \in Int \X Int, NEW z
  PROVE  IsFiniteSet(Footprint(i, at, z)) /\ at \in Footprint(i, at, z)
<1> DEFINE across == IF z \in {2, 6} THEN Shape[i].width ELSE Shape[i].length
           along == IF z \in {2, 6} THEN Shape[i].length ELSE Shape[i].width
<1>1. across \in Nat \ {0} /\ along \in Nat \ {0}
  BY WalkingAssumption
<1>2. Footprint(i, at, z) = (at[1] .. at[1] + across - 1) \X (at[2] .. at[2] + along - 1)
  BY DEF Footprint
<1> HIDE DEF across, along
<1>3. at[1] \in Int /\ at[2] \in Int /\ at = <<at[1], at[2]>>
      /\ at[1] + across - 1 \in Int /\ at[2] + along - 1 \in Int
  BY <1>1
<1>4. IsFiniteSet(at[1] .. at[1] + across - 1) /\ IsFiniteSet(at[2] .. at[2] + along - 1)
  BY <1>3, FS_Interval
<1>5. IsFiniteSet((at[1] .. at[1] + across - 1) \X (at[2] .. at[2] + along - 1))
  BY <1>4, FS_Product
<1>6. at[1] \in at[1] .. at[1] + across - 1 /\ at[2] \in at[2] .. at[2] + along - 1
  BY <1>1, <1>3
<1> QED
  BY <1>2, <1>3, <1>5, <1>6

\* What is put somewhere comes to lie between the ground and the limit.
LEMMA HeightIs ==
  ASSUME plan \in Plans, NEW I, Items(I), NEW i \in Item, NEW at \in Int \X Int, NEW z,
         Footprint(i, at, z) \subseteq Tiles
  PROVE  at \in Tiles /\ HeightAt(I, i, at, z) \in 0 .. MaxStack
<1> DEFINE F == Footprint(i, at, z)
           first == IF Lying(I, at) = {} THEN 10 * plan.floor[at] ELSE TopOf(I, at)
           on == {t \in F : Lying(I, t) # {}}
           blocked == {x \in on : StateOf(I, x) = "blocked"}
           rug == {x \in on : StateOf(I, x) = "rug"}
           solid == {TopOf(I, t) : t \in blocked}
           rugs == {I[TopItem(I, t)].h + 1 : t \in rug}
           h == Max({first} \cup solid \cup rugs)
<1>1. IsFiniteSet(F) /\ at \in F /\ at \in Tiles
  BY FootprintIs
<1>2. ASSUME NEW t, Lying(I, t) # {}
      PROVE  TopOf(I, t) \in Nat /\ I[TopItem(I, t)].h \in Nat
  <2>1. PICK x : x = TopItem(I, t)
    OBVIOUS
  <2>2. x \in DOMAIN I
    BY <1>2, <2>1, TopIs
  <2>3. I[x].h \in Nat /\ Shape[x].top \in Nat
    BY <2>2, ItemIs
  <2> QED
    BY <2>1, <2>3 DEF TopOf
<1>3. first \in Nat
  <2>1. plan.floor[at] \in Nat
    BY <1>1, PlansAssumption DEF Tiles
  <2> QED
    BY <1>2, <2>1
<1>4. IsFiniteSet(blocked) /\ IsFiniteSet(rug)
  <2>1. blocked \subseteq F /\ rug \subseteq F
    OBVIOUS
  <2> HIDE DEF F, blocked, rug
  <2> QED
    BY <1>1, <2>1, FS_Subset
<1>5. IsFiniteSet(solid) /\ solid \subseteq Nat
  <2> DEFINE f == [t \in blocked |-> TopOf(I, t)]
  <2>1. solid = {f[t] : t \in blocked}
    OBVIOUS
  <2>2. IsFiniteSet({f[t] : t \in blocked})
    <3> HIDE DEF f, blocked
    <3> QED
      BY <1>4, Pictures
  <2>3. solid \subseteq Nat
    BY <1>2
  <2> QED
    BY <2>1, <2>2, <2>3
<1>6. IsFiniteSet(rugs) /\ rugs \subseteq Nat
  <2> DEFINE f == [t \in rug |-> I[TopItem(I, t)].h + 1]
  <2>1. rugs = {f[t] : t \in rug}
    OBVIOUS
  <2>2. IsFiniteSet({f[t] : t \in rug})
    <3> HIDE DEF f, rug
    <3> QED
      BY <1>4, Pictures
  <2>3. rugs \subseteq Nat
    BY <1>2
  <2> QED
    BY <2>1, <2>2, <2>3
<1>7. HeightAt(I, i, at, z) = IF h < MaxStack THEN h ELSE MaxStack
  BY DEF HeightAt
<1> HIDE DEF first, solid, rugs
<1>8. h \in Nat
  <2> DEFINE S == {first} \cup solid \cup rugs
  <2>1. S \in SUBSET Nat /\ S # {}
    BY <1>3, <1>5, <1>6
  <2>2. IsFiniteSet(S)
    BY <1>5, <1>6, FS_Singleton, FS_Union
  <2>3. Max(S) \in S
    <3> HIDE DEF S
    <3> QED
      BY <2>1, <2>2, MaxOf
  <2> QED
    BY <2>1, <2>3
<1> HIDE DEF h
<1>9. MaxStack \in Nat
  BY WalkingAssumption
<1> QED
  BY <1>1, <1>7, <1>8, <1>9

-----------------------------------------------------------------------------
(* The actions: furniture                                                  *)

\* The first one on a tile, by his place on the list.
FirstOn(r, t) == SelectInSeq(r.present, LAMBDA v : r.user[v].at = t)
Found(r, C) == {r.present[FirstOn(r, t)] : t \in {x \in C : FirstOn(r, x) > 0}}

LEMMA FirstOnIs ==
  ASSUME NEW r, r.present \in Seq(User), NEW t
  PROVE  LET n == FirstOn(r, t) IN
         /\ n > 0 => n \in DOMAIN r.present /\ r.user[r.present[n]].at = t
         /\ \A j \in DOMAIN r.present : r.user[r.present[j]].at = t =>
              /\ n > 0
              /\ (\A i \in 1 .. j - 1 : r.user[r.present[i]].at # t) => n = j
<1> DEFINE D == 1 .. Len(r.present)
           S == {i \in D : r.user[r.present[i]].at = t}
<1>1. FirstOn(r, t) = IF S # {} THEN Min(S) ELSE 0
  BY DEF FirstOn, SelectInSeq
<1>2. DOMAIN r.present = D /\ S \in SUBSET Nat
  OBVIOUS
<1>3. S # {} => Min(S) \in S /\ \A x \in S : Min(S) <= x
  <2> HIDE DEF S
  <2> QED
    BY <1>2, MinIn
<1>4. CASE S = {}
  <2>1. FirstOn(r, t) = 0
    BY <1>1, <1>4
  <2>2. \A j \in DOMAIN r.present : r.user[r.present[j]].at # t
    BY <1>2, <1>4
  <2> QED
    BY <2>1, <2>2
<1>5. CASE S # {}
  <2>1. PICK n : n = FirstOn(r, t)
    OBVIOUS
  <2>2. n \in S /\ (\A x \in S : n <= x) /\ n > 0
    <3>1. n \in S /\ \A x \in S : n <= x
      <4> HIDE DEF S
      <4> QED
        BY <1>1, <1>3, <1>5, <2>1
    <3>2. \A x \in S : x > 0
      OBVIOUS
    <3> QED
      BY <3>1, <3>2
  <2>3. ASSUME NEW j \in DOMAIN r.present, r.user[r.present[j]].at = t,
               \A i \in 1 .. j - 1 : r.user[r.present[i]].at # t
        PROVE  n = j
    <3>1. j \in S /\ n <= j /\ n \in D /\ r.user[r.present[n]].at = t
      BY <1>2, <2>2, <2>3
    <3>2. n \notin 1 .. j - 1
      BY <2>3, <3>1
    <3> QED
      BY <3>1, <3>2
  <2> QED
    BY <1>2, <2>1, <2>2, <2>3
<1> QED
  BY <1>4, <1>5

\* What refreshing makes of an avatar.
Seen(I, a) ==
  [a EXCEPT !.poses = CASE StateOf(I, a.at) = "seat" -> a.poses \cup {"sit"}
                        [] StateOf(I, a.at) = "bed" -> a.poses \cup {"lay"}
                        [] OTHER -> a.poses \ {"sit", "lay"}]

LEMMA RefreshIs ==
  ASSUME NEW r, NEW I, NEW C
  PROVE  RefreshCoords(r, I, C)
           = [r EXCEPT !.user = [u \in User |-> IF u \in Found(r, C) THEN Seen(I, r.user[u])
                                                ELSE r.user[u]]]
  BY DEF RefreshCoords, Found, FirstOn, Seen

LEMMA SeenIs ==
  ASSUME NEW I, NEW a, Body(a)
  PROVE  LET b == Seen(I, a) IN
         /\ b \in Avatar /\ Body(b) /\ b.at = a.at /\ b.pending = a.pending /\ b.slid = a.slid
         /\ SameMind(a, b) /\ b.flown = a.flown /\ b.forever = a.forever
         /\ b.poses \ {"sit", "lay"} = a.poses \ {"sit", "lay"} /\ Rests(I, b)
<1> DEFINE poses == CASE StateOf(I, a.at) = "seat" -> a.poses \cup {"sit"}
                      [] StateOf(I, a.at) = "bed" -> a.poses \cup {"lay"}
                      [] OTHER -> a.poses \ {"sit", "lay"}
<1>1. a \in Avatar
  BY DEF Body
<1>2. poses \in SUBSET Pose /\ poses \ {"sit", "lay"} = a.poses \ {"sit", "lay"}
  BY <1>1 DEF Avatar, Pose
<1>3. poses \cap {"sit", "lay"} # {} => \/ StateOf(I, a.at) = "seat" /\ "sit" \in poses
                                        \/ StateOf(I, a.at) = "bed" /\ "lay" \in poses
  OBVIOUS
<1>4. PICK b : b = [a EXCEPT !.poses = poses]
  OBVIOUS
<1>5. b = Seen(I, a)
  BY <1>4 DEF Seen
<1> HIDE DEF poses
<1>6. /\ b \in Avatar /\ b.at = a.at /\ b.pending = a.pending /\ b.slid = a.slid
      /\ SameMind(a, b) /\ b.flown = a.flown /\ b.forever = a.forever /\ b.poses = poses
  BY <1>1, <1>2, <1>4 DEF Avatar, SameMind
<1>7. Body(b)
  BY <1>6 DEF Body
<1>8. Rests(I, b)
  BY <1>3, <1>6 DEF Rests, Lazy
<1> QED
  BY <1>2, <1>5, <1>6, <1>7, <1>8

\* Furniture changes what some tiles are, and those who stand on them are looked at again.
LEMMA RefreshGood ==
  ASSUME plan \in Plans, ~plan.public, NEW I, NEW J, NEW T, NEW H, NEW C, NEW r,
         Good(H, J, T, r), \A t \in Tiles \ C : StateOf(I, t) = StateOf(H, t)
  PROVE  LET s == RefreshCoords(r, I, C) IN
         Good(I, J, T, s) /\ (Swimming(r) => Swimming(s)) /\ s.exits = r.exits
<1> DEFINE F == Found(r, C)
           new(u) == IF u \in F THEN Seen(I, r.user[u]) ELSE r.user[u]
<1>1. r \in Room /\ r.present \in Seq(User) /\ In(r) \subseteq User /\ People(r)
      /\ (\A v \in In(r) : Body(r.user[v])) /\ (\A v \in User \ In(r) : r.user[v] = Absent)
  BY InUsers DEF Good, People, Room
<1>2. F \subseteq In(r)
  <2> SUFFICES ASSUME NEW t \in C, FirstOn(r, t) > 0
               PROVE  r.present[FirstOn(r, t)] \in In(r)
    BY DEF Found
  <2>1. FirstOn(r, t) \in DOMAIN r.present
    BY <1>1, FirstOnIs
  <2> QED
    BY <2>1 DEF In, Range
<1>3. ASSUME NEW v \in In(r), Lazy(r.user[v]), r.user[v].at \in C, ~r.shared
      PROVE  v \in F
  <2>1. PICK j \in DOMAIN r.present : v = r.present[j]
    BY DEF In, Range
  <2>2. \A i \in 1 .. j - 1 : r.user[r.present[i]].at # r.user[v].at
    BY <1>3, <2>1 DEF Good, First
  <2>3. FirstOn(r, r.user[v].at) = j /\ FirstOn(r, r.user[v].at) > 0
    <3>1. PICK t : t = r.user[v].at
      OBVIOUS
    <3>2. r.user[r.present[j]].at = t /\ \A i \in 1 .. j - 1 : r.user[r.present[i]].at # t
      BY <2>1, <2>2, <3>1
    <3>3. r.present \in Seq(User)
      BY <1>1
    <3> QED
      BY <2>1, <3>1, <3>2, <3>3, FirstOnIs, SMTT(30)
  <2> QED
    BY <1>3, <2>1, <2>3 DEF Found
<1>4. ASSUME NEW j \in DOMAIN r.present, r.present[j] \in F, NEW i \in 1 .. j - 1
      PROVE  r.user[r.present[i]].at # r.user[r.present[j]].at
  <2>1. PICK t \in C : FirstOn(r, t) > 0 /\ r.present[j] = r.present[FirstOn(r, t)]
    BY <1>4 DEF Found
  <2>2. FirstOn(r, t) \in DOMAIN r.present /\ r.user[r.present[FirstOn(r, t)]].at = t
    BY <1>1, <2>1, FirstOnIs
  <2>3. FirstOn(r, t) = j
    BY <1>1, <2>1, <2>2 DEF People, IsInjective
  <2> SUFFICES ASSUME r.user[r.present[i]].at = t
               PROVE  FALSE
    BY <2>1, <2>2
  <2> DEFINE D == 1 .. Len(r.present)
             S == {k \in D : r.user[r.present[k]].at = t}
  <2>4. FirstOn(r, t) = IF S # {} THEN Min(S) ELSE 0
    BY DEF FirstOn, SelectInSeq
  <2>5. i \in S /\ S \in SUBSET Nat /\ i < j
    <3>1. DOMAIN r.present = D /\ Len(r.present) \in Nat
      BY <1>1
    <3> QED
      BY <3>1
  <2>6. Min(S) <= i
    <3> HIDE DEF S
    <3> QED
      BY <2>5, MinIn
  <2>7. i < j /\ j \in Nat /\ i \in Nat
    BY <1>1, <2>5
  <2> HIDE DEF S
  <2>8. j = Min(S)
    BY <2>3, <2>4, <2>5
  <2>9. j <= i
    BY <2>6, <2>8
  <2> QED
    BY <2>7, <2>9
<1>5. \A v \in In(r) :
        /\ new(v) \in Avatar /\ Body(new(v)) /\ new(v).at = r.user[v].at
        /\ new(v).pending = r.user[v].pending /\ new(v).slid = r.user[v].slid
        /\ SameMind(r.user[v], new(v)) /\ new(v).flown = r.user[v].flown
        /\ new(v).forever = r.user[v].forever
        /\ new(v).poses \ {"sit", "lay"} = r.user[v].poses \ {"sit", "lay"}
        /\ (v \in F => Rests(I, new(v))) /\ (v \notin F => new(v) = r.user[v])
  <2> SUFFICES ASSUME NEW v \in In(r)
               PROVE  /\ new(v) \in Avatar /\ Body(new(v)) /\ new(v).at = r.user[v].at
                      /\ new(v).pending = r.user[v].pending /\ new(v).slid = r.user[v].slid
                      /\ SameMind(r.user[v], new(v)) /\ new(v).flown = r.user[v].flown
                      /\ new(v).forever = r.user[v].forever
                      /\ new(v).poses \ {"sit", "lay"} = r.user[v].poses \ {"sit", "lay"}
                      /\ (v \in F => Rests(I, new(v))) /\ (v \notin F => new(v) = r.user[v])
    OBVIOUS
  <2>1. Body(r.user[v])
    BY <1>1
  <2>2. CASE v \in F
    <3>1. new(v) = Seen(I, r.user[v])
      BY <2>2
    <3> HIDE DEF new, F
    <3> QED
      BY <2>1, <2>2, <3>1, SeenIs
  <2>3. CASE v \notin F
    <3>1. new(v) = r.user[v]
      BY <2>3
    <3> HIDE DEF new, F
    <3> QED
      BY <2>1, <2>3, <3>1 DEF Body, SameMind
  <2> QED
    BY <2>2, <2>3
<1>6. \A v \in User \ In(r) : new(v) = Absent
  BY <1>1, <1>2
<1>7. PICK s : s = RefreshCoords(r, I, C)
  OBVIOUS
<1>8. s = [r EXCEPT !.user = [u \in User |-> new(u)]]
  BY <1>7, RefreshIs
<1> HIDE DEF new, F
<1>9. [u \in User |-> new(u)] \in [User -> Avatar]
  BY <1>5, <1>6, NobodyIsAnAvatar
<1>10. /\ s \in Room /\ s.present = r.present /\ s.bots = r.bots /\ s.units = r.units
       /\ s.shared = r.shared /\ s.cut = r.cut /\ s.stuck = r.stuck /\ s.exits = r.exits
       /\ \A u \in User : s.user[u] = new(u)
  BY <1>1, <1>8, <1>9 DEF Room
<1>11. In(s) = In(r) /\ BotTiles(s) = BotTiles(r) /\ (BotsApart(r) => BotsApart(s))
  BY <1>10 DEF In, BotTiles, BotsApart
<1>12. \A v \in In(r) : s.user[v] = new(v) /\ Keeps(s.user[v]) = Keeps(r.user[v])
  BY <1>1, <1>5, <1>10 DEF Keeps
<1>13. People(s)
  BY <1>1, <1>5, <1>6, <1>10, <1>11 DEF People
<1>14. Placed(s)
  <2>1. UserTiles(s) = UserTiles(r)
    BY <1>11, <1>12 DEF UserTiles
  <2>2. Apart(r) => Apart(s)
    BY <1>11, <1>12 DEF Apart
  <2> QED
    BY <1>10, <1>11, <2>1, <2>2 DEF Good, Placed
<1>15. Minds(J, T, s)
  <2> SUFFICES ASSUME NEW v \in In(r)
               PROVE  Obeys(J, v, s.user[v], v \in s.exits) /\ Ends(T, v, s.user[v])
    BY <1>11 DEF Minds
  <2>1. Obeys(J, v, r.user[v], v \in r.exits) /\ Ends(T, v, r.user[v])
    BY DEF Good, Minds
  <2>2. /\ s.user[v].at = r.user[v].at /\ s.user[v].pending = r.user[v].pending
        /\ SameMind(r.user[v], s.user[v]) /\ s.user[v].forever = r.user[v].forever
        /\ s.user[v].poses \ {"sit", "lay"} = r.user[v].poses \ {"sit", "lay"}
    BY <1>5, <1>12
  <2>3. Obeys(J, v, s.user[v], v \in s.exits)
    BY <1>10, <2>1, <2>2 DEF Obeys, SameMind
  <2>4. Ends(T, v, s.user[v])
    BY <2>1, <2>2 DEF Ends, InHand
  <2> QED
    BY <2>3, <2>4
<1>16. Sits(I, s)
  <2> SUFFICES ASSUME ~r.shared, NEW v \in In(r)
               PROVE  Rests(I, s.user[v])
    BY <1>10, <1>11 DEF Sits
  <2>1. CASE v \in F
    BY <1>5, <1>12, <2>1
  <2>2. CASE v \notin F
    <3>1. s.user[v] = r.user[v] /\ Rests(H, r.user[v])
      BY <1>5, <1>12, <2>2 DEF Good, Sits
    <3>2. Lazy(r.user[v]) => r.user[v].at \in Tiles \ C
      BY <1>1, <1>3, <2>2 DEF Body
    <3> QED
      BY <3>1, <3>2 DEF Rests
  <2> QED
    BY <2>1, <2>2
<1>17. First(s)
  <2> SUFFICES ASSUME ~r.shared, NEW j \in DOMAIN r.present, NEW i \in 1 .. j - 1,
                      Lazy(s.user[r.present[j]])
               PROVE  s.user[r.present[i]].at # s.user[r.present[j]].at
    BY <1>10 DEF First
  <2>1. r.present[j] \in In(r) /\ r.present[i] \in In(r)
    <3>1. i \in DOMAIN r.present
      BY <1>1
    <3> QED
      BY <3>1 DEF In, Range
  <2>2. /\ s.user[r.present[j]].at = r.user[r.present[j]].at
        /\ s.user[r.present[i]].at = r.user[r.present[i]].at
    BY <1>5, <1>12, <2>1
  <2>3. CASE r.present[j] \in F
    BY <1>4, <2>2, <2>3
  <2>4. CASE r.present[j] \notin F
    <3>1. Lazy(r.user[r.present[j]])
      BY <1>5, <1>12, <2>1, <2>4
    <3> QED
      BY <2>2, <3>1 DEF Good, First
  <2> QED
    BY <2>3, <2>4
<1>18. Serves(s)
  BY <1>10 DEF Good, Serves
<1>19. Swimming(r) => Swimming(s)
  <2> SUFFICES ASSUME Swimming(r), NEW v \in In(r)
               PROVE  Bathes(s.user[v]) /\ Dry(s.user[v])
    BY <1>11 DEF Swimming
  <2>1. Dry(r.user[v])
    BY DEF Swimming
  <2>2. s.user[v].poses \ {"sit", "lay"} = r.user[v].poses \ {"sit", "lay"}
    BY <1>5, <1>12
  <2> QED
    BY <2>1, <2>2 DEF Bathes, Dry
<1> QED
  BY <1>7, <1>10, <1>13, <1>14, <1>15, <1>16, <1>17, <1>18, <1>19 DEF Good

LEMMA RebuildFine ==
  ASSUME Inv, ~plan.public, NEW I, NEW C, Rebuild(I, C), Items(I),
         \A t \in Tiles \ C : StateOf(I, t) = StateOf(items, t)
  PROVE  Fine
<1>1. /\ plan \in Plans /\ Good(items, jobs, timers, room) /\ room.exits = {}
      /\ jobs \subseteq User \X Item /\ Timers(timers)
  BY InvParts
<1>2. items' = I /\ plan' = plan /\ jobs' = jobs /\ timers' = timers
  BY DEF Rebuild
<1>3. PICK s : s = RefreshCoords(room, I, C)
  OBVIOUS
<1>4. Good(I, jobs, timers, s) /\ (Swimming(room) => Swimming(s)) /\ s.exits = room.exits
  BY <1>1, <1>3, RefreshGood
<1>5. room' = s
  BY <1>3 DEF Rebuild
<1> QED
  BY <1>1, <1>2, <1>4, <1>5 DEF Fine

\* A piece of furniture that is put somewhere is furniture of the room.
LEMMA LaidGood ==
  ASSUME plan \in Plans, ~plan.public, NEW I, Items(I), NEW i \in Item, NEW at \in Int \X Int, NEW z,
         NEW units, Fits(I, units, i, at, z)
  PROVE  Items(With(I, i, Laid(I, i, at, z)))
<1>1. Footprint(i, at, z) \subseteq Tiles
  BY DEF Fits
<1>2. at \in Tiles /\ HeightAt(I, i, at, z) \in 0 .. MaxStack
  BY <1>1, HeightIs
<1>3. PICK x : x = Laid(I, i, at, z)
  OBVIOUS
<1>4. x.at \in Tiles /\ x.h \in 0 .. MaxStack
  BY <1>2, <1>3 DEF Laid
<1>5. PICK H : H = With(I, i, x)
  OBVIOUS
<1>6. DOMAIN H = DOMAIN I \cup {i} /\ \A j \in DOMAIN H : H[j] = IF j = i THEN x ELSE I[j]
  BY <1>5 DEF With
<1>7. Items(H)
  BY <1>4, <1>6 DEF Items
<1> QED
  BY <1>3, <1>5, <1>7

LEMMA PlaceItemFine ==
  ASSUME Inv, NEW u, NEW i \in Item, NEW s \in plan.spots, PlaceItem(u, i, s.at, s.z)
  PROVE  Fine
<1>1. /\ ~plan.public /\ i \notin DOMAIN items /\ Fits(items, room.units, i, s.at, s.z)
      /\ Rebuild(With(items, i, Laid(items, i, s.at, s.z)), Footprint(i, s.at, s.z))
  BY DEF PlaceItem
<1>2. plan \in Plans /\ Items(items)
  BY InvParts
<1>3. PICK at \in Int \X Int : at = s.at
  BY <1>2, PlansAssumption
<1>4. PICK z : z = s.z
  OBVIOUS
<1>5. PICK I : I = With(items, i, Laid(items, i, at, z))
  OBVIOUS
<1>6. Items(I)
  BY <1>1, <1>2, <1>3, <1>4, <1>5, LaidGood
<1>7. PICK x : x = Laid(items, i, at, z)
  OBVIOUS
<1>8. /\ DOMAIN I = DOMAIN items \cup {i}
      /\ \A j \in DOMAIN items : I[j] = items[j]
      /\ I[i].at = at /\ I[i].z = z
  <2>1. I = [j \in DOMAIN items \cup {i} |-> IF j = i THEN x ELSE items[j]]
    BY <1>5, <1>7 DEF With
  <2>2. x.at = at /\ x.z = z
    BY <1>7 DEF Laid
  <2> QED
    BY <1>1, <2>1, <2>2
<1>9. ASSUME NEW t \in Tiles \ Footprint(i, at, z)
      PROVE  StateOf(I, t) = StateOf(items, t)
  <2>1. t \notin Under(I, i)
    BY <1>8 DEF Under
  <2>2. \A j \in DOMAIN items : Under(I, j) = Under(items, j)
    BY <1>8 DEF Under
  <2>3. Lying(I, t) = Lying(items, t)
    BY <1>8, <2>1, <2>2 DEF Lying
  <2>4. \A j \in Lying(items, t) : I[j] = items[j]
    BY <1>8 DEF Lying
  <2> QED
    BY <1>2, <1>6, <2>3, <2>4, SameState
<1>10. Rebuild(I, Footprint(i, at, z))
  BY <1>1, <1>3, <1>4, <1>5
<1> QED
  BY <1>1, <1>6, <1>9, <1>10, RebuildFine

\* The room without a piece of furniture.
LEMMA RestIs ==
  ASSUME plan \in Plans, Items(items), NEW i \in DOMAIN items
  PROVE  LET rest == Restrict(items, DOMAIN items \ {i}) IN
         /\ Items(rest) /\ DOMAIN rest = DOMAIN items \ {i}
         /\ \A j \in DOMAIN rest : rest[j] = items[j]
         /\ \A t \in Tiles \ Under(items, i) : StateOf(rest, t) = StateOf(items, t)
<1>1. PICK rest : rest = Restrict(items, DOMAIN items \ {i})
  OBVIOUS
<1>2. DOMAIN rest = DOMAIN items \ {i} /\ \A j \in DOMAIN rest : rest[j] = items[j]
  BY <1>1 DEF Restrict
<1>3. Items(rest)
  BY <1>2 DEF Items
<1>4. ASSUME NEW t \in Tiles \ Under(items, i)
      PROVE  StateOf(rest, t) = StateOf(items, t)
  <2>1. \A j \in DOMAIN rest : Under(rest, j) = Under(items, j)
    BY <1>2 DEF Under
  <2>2. Lying(rest, t) = Lying(items, t)
    BY <1>2, <2>1 DEF Lying
  <2>3. \A j \in Lying(items, t) : rest[j] = items[j]
    BY <1>2, <2>2 DEF Lying
  <2> QED
    BY <1>3, <2>2, <2>3, SameState
<1> QED
  BY <1>1, <1>2, <1>3, <1>4

LEMMA PickUpFine ==
  ASSUME Inv, NEW u, NEW i, PickUp(u, i)
  PROVE  Fine
<1>1. /\ ~plan.public /\ i \in DOMAIN items
      /\ Rebuild(Restrict(items, DOMAIN items \ {i}), Under(items, i))
  BY DEF PickUp
<1>2. plan \in Plans /\ Items(items)
  BY InvParts
<1>3. PICK rest : rest = Restrict(items, DOMAIN items \ {i})
  OBVIOUS
<1>4. Items(rest) /\ \A t \in Tiles \ Under(items, i) : StateOf(rest, t) = StateOf(items, t)
  BY <1>1, <1>2, <1>3, RestIs
<1>5. Rebuild(rest, Under(items, i))
  BY <1>1, <1>3
<1> QED
  BY <1>1, <1>4, <1>5, RebuildFine

LEMMA MoveItemFine ==
  ASSUME Inv, NEW u, NEW i \in Item, NEW s \in plan.spots, MoveItem(u, i, s.at, s.z)
  PROVE  Fine
<1>0. PICK rest : rest = Restrict(items, DOMAIN items \ {i})
  OBVIOUS
<1>1. /\ ~plan.public /\ i \in DOMAIN items /\ Fits(rest, room.units, i, s.at, s.z)
      /\ Rebuild(With(rest, i, Laid(rest, i, s.at, s.z)),
                 Under(items, i) \cup Footprint(i, s.at, s.z))
  BY <1>0 DEF MoveItem
<1>2. plan \in Plans /\ Items(items)
  BY InvParts
<1>3. PICK at \in Int \X Int : at = s.at
  BY <1>2, PlansAssumption
<1>4. PICK z : z = s.z
  OBVIOUS
<1>5. /\ Items(rest) /\ DOMAIN rest = DOMAIN items \ {i}
      /\ \A t \in Tiles \ Under(items, i) : StateOf(rest, t) = StateOf(items, t)
  BY <1>0, <1>1, <1>2, RestIs
<1>6. PICK I : I = With(rest, i, Laid(rest, i, at, z))
  OBVIOUS
<1>7. Items(I)
  BY <1>1, <1>2, <1>3, <1>4, <1>5, <1>6, LaidGood
<1>8. PICK x : x = Laid(rest, i, at, z)
  OBVIOUS
<1>9. /\ DOMAIN I = DOMAIN rest \cup {i}
      /\ \A j \in DOMAIN rest : I[j] = rest[j]
      /\ I[i].at = at /\ I[i].z = z
  <2>1. I = [j \in DOMAIN rest \cup {i} |-> IF j = i THEN x ELSE rest[j]]
    BY <1>6, <1>8 DEF With
  <2>2. x.at = at /\ x.z = z
    BY <1>8 DEF Laid
  <2> QED
    BY <1>5, <2>1, <2>2
<1>10. PICK C : C = Under(items, i) \cup Footprint(i, at, z)
  OBVIOUS
<1>11. ASSUME NEW t \in Tiles \ C
       PROVE  StateOf(I, t) = StateOf(items, t)
  <2>1. t \notin Under(I, i)
    BY <1>9, <1>10 DEF Under
  <2>2. \A j \in DOMAIN rest : Under(I, j) = Under(rest, j)
    BY <1>9 DEF Under
  <2>3. Lying(I, t) = Lying(rest, t)
    BY <1>9, <2>1, <2>2 DEF Lying
  <2>4. \A j \in Lying(rest, t) : I[j] = rest[j]
    BY <1>9 DEF Lying
  <2>5. StateOf(I, t) = StateOf(rest, t)
    BY <1>2, <1>5, <1>7, <2>3, <2>4, SameState
  <2> QED
    BY <1>5, <1>10, <2>5
<1>12. Rebuild(I, C)
  BY <1>1, <1>3, <1>4, <1>6, <1>10
<1> QED
  BY <1>1, <1>7, <1>11, <1>12, RebuildFine

LEMMA ToggleItemFine ==
  ASSUME Inv, NEW u, NEW i, ToggleItem(u, i)
  PROVE  Fine
<1>1. i \in DOMAIN items /\ Rebuild(items, Under(items, i))
  BY DEF ToggleItem
<1>2. ~plan.public
  BY <1>1, NoTriggers
<1>3. Items(items)
  BY InvParts
<1> QED
  BY <1>1, <1>2, <1>3, RebuildFine

-----------------------------------------------------------------------------
(* The invariant                                                           *)

LEMMA InitInv == Init => SwimInv
<1> SUFFICES ASSUME Init PROVE SwimInv
  OBVIOUS
<1>1. /\ plan \in Plans /\ items = plan.items /\ room = Loaded(plan) /\ jobs = {}
      /\ timers = [k \in 1 .. MaxTimers |-> NoTimer]
  BY DEF Init
<1>2. Items(items)
  <2>1. /\ DOMAIN plan.items \subseteq Item /\ (plan.public => DOMAIN plan.items = {})
        /\ \A i \in DOMAIN plan.items :
             plan.items[i].at \in TilesOf(plan) /\ plan.items[i].h \in 0 .. MaxStack
    BY <1>1, PlansAssumption
  <2> QED
    BY <1>1, <2>1 DEF Items, Tiles
<1>3. Timers(timers)
  <2>1. timers \in [1 .. MaxTimers -> Timer]
    BY <1>1, NoTimerIs
  <2>2. \A k \in DOMAIN timers : timers[k].what = "none"
    BY <1>1, NoTimerIs
  <2> QED
    BY <2>1, <2>2 DEF Timers
<1>4. Good(items, jobs, timers, room) /\ Swimming(room) /\ room.exits = {}
  BY <1>1, LoadedGood
<1> QED
  BY <1>1, <1>2, <1>3, <1>4 DEF SwimInv, Inv

LEMMA NextFine ==
  ASSUME Inv, [Next]_vars
  PROVE  Fine
<1>1. CASE UNCHANGED vars
  <2>1. plan' = plan /\ room' = room /\ items' = items /\ jobs' = jobs /\ timers' = timers
    BY <1>1 DEF vars
  <2> QED
    BY <2>1, InvParts DEF Fine
<1>2. CASE Cycle
  BY <1>2, CycleFine
<1>3. CASE \E k \in DOMAIN timers : StatusEnds(k) \/ Sip(k)
  BY <1>3, StatusEndsFine, SipFine
<1>4. ASSUME NEW u \in User,
             \/ \E t \in Tiles : Enter(u, t)
             \/ Leave(u) \/ ClickDoor(u) \/ Arm(u) \/ SelectOutfit(u) \/ Order(u)
      PROVE  Fine
  BY <1>4, EnterFine, LeaveFine, ClickDoorFine, ArmFine, SelectOutfitFine, OrderFine
<1>5. ASSUME NEW u \in User,
             \/ Wave(u) \/ Dance(u) \/ CarryItem(u)
             \/ \E bare \in BOOLEAN : LidoVote(u, bare)
             \/ \E what \in {"carry", "dance"} : StopStatus(u, what)
      PROVE  Fine
  BY <1>5, WaveFine, DanceFine, CarryItemFine, LidoVoteFine, StopStatusFine
<1>6. ASSUME NEW u \in User, NEW t \in plan.goals, Walk(u, t) \/ Rotate(u, t)
      PROVE  Fine
  <2>1. CASE Walk(u, t)
    BY <2>1, WalkFine
  <2>2. CASE Rotate(u, t)
    <3>1. u \in Here /\ Does(TeleportTo(room, u, t))
      BY <2>2 DEF Rotate
    <3> QED
      BY <3>1, TeleportFine
  <2> QED
    BY <1>6, <2>1, <2>2
<1>7. ASSUME NEW u \in User, NEW i \in Item,
             \/ EnterTeleporter(u, i) \/ UseTeleporter(u, i) \/ Teleported(u, i)
             \/ PickUp(u, i) \/ ToggleItem(u, i)
      PROVE  Fine
  BY <1>7, EnterTeleporterFine, UseTeleporterFine, TeleportedFine, PickUpFine, ToggleItemFine
<1>8. ASSUME NEW u \in User, NEW i \in Item, NEW s \in Spots(i),
             PlaceItem(u, i, s.at, s.z) \/ MoveItem(u, i, s.at, s.z)
      PROVE  Fine
  <2>1. s \in plan.spots
    BY DEF Spots
  <2> QED
    BY <1>8, <2>1, PlaceItemFine, MoveItemFine
<1>9. CASE Next
  <2>1. \/ Cycle
        \/ \E k \in DOMAIN timers : StatusEnds(k) \/ Sip(k)
        \/ \E u \in User :
             \/ \/ \E t \in Tiles : Enter(u, t)
                \/ Leave(u) \/ ClickDoor(u) \/ Arm(u) \/ SelectOutfit(u) \/ Order(u)
             \/ \/ Wave(u) \/ Dance(u) \/ CarryItem(u)
                \/ \E bare \in BOOLEAN : LidoVote(u, bare)
                \/ \E what \in {"carry", "dance"} : StopStatus(u, what)
             \/ \E t \in plan.goals : Walk(u, t) \/ Rotate(u, t)
             \/ \E i \in Item :
                  \/ \/ EnterTeleporter(u, i) \/ UseTeleporter(u, i) \/ Teleported(u, i)
                     \/ PickUp(u, i) \/ ToggleItem(u, i)
                  \/ \E s \in Spots(i) : PlaceItem(u, i, s.at, s.z) \/ MoveItem(u, i, s.at, s.z)
    BY <1>9 DEF Next
  <2>2. CASE \E u \in User :
               \/ \E t \in Tiles : Enter(u, t)
               \/ Leave(u) \/ ClickDoor(u) \/ Arm(u) \/ SelectOutfit(u) \/ Order(u)
    BY <1>4, <2>2
  <2>3. CASE \E u \in User :
               \/ Wave(u) \/ Dance(u) \/ CarryItem(u)
               \/ \E bare \in BOOLEAN : LidoVote(u, bare)
               \/ \E what \in {"carry", "dance"} : StopStatus(u, what)
    BY <1>5, <2>3
  <2>4. CASE \E u \in User : \E t \in plan.goals : Walk(u, t) \/ Rotate(u, t)
    BY <1>6, <2>4
  <2>5. CASE \E u \in User, i \in Item :
               \/ EnterTeleporter(u, i) \/ UseTeleporter(u, i) \/ Teleported(u, i)
               \/ PickUp(u, i) \/ ToggleItem(u, i)
    BY <1>7, <2>5
  <2>6. CASE \E u \in User, i \in Item : \E s \in Spots(i) :
               PlaceItem(u, i, s.at, s.z) \/ MoveItem(u, i, s.at, s.z)
    BY <1>8, <2>6
  <2> QED
    BY <1>2, <1>3, <2>1, <2>2, <2>3, <2>4, <2>5, <2>6
<1> QED
  BY <1>1, <1>9

LEMMA InvStep == SwimInv /\ [Next]_vars => SwimInv'
<1> SUFFICES ASSUME SwimInv, [Next]_vars PROVE SwimInv'
  OBVIOUS
<1>1. Inv /\ Swimming(room) /\ plan \in Plans
  BY DEF SwimInv, Inv
<1>2. Fine
  BY <1>1, NextFine
<1> QED
  BY <1>1, <1>2, FineIsInv

-----------------------------------------------------------------------------
(* The theorems                                                            *)

\* As many tiles as users, if no two of them keep the same one.
LEMMA OneTileEach ==
  ASSUME NEW r \in Room, IsInjective(r.present), Apart(r)
  PROVE  IsFiniteSet(UserTiles(r)) /\ Cardinality(UserTiles(r)) = Len(r.present)
<1> DEFINE n == Len(r.present)
           f == [i \in 1 .. n |-> Keeps(r.user[r.present[i]])]
<1>1. r.present \in Seq(User) /\ n \in Nat /\ DOMAIN r.present = 1 .. n
  BY DEF Room
<1>2. \A i \in 1 .. n : r.present[i] \in In(r)
  BY <1>1 DEF In, Range
<1>3. \A t \in UserTiles(r) : \E i \in 1 .. n : t = Keeps(r.user[r.present[i]])
  BY <1>1 DEF UserTiles, In, Range
<1>4. f \in [1 .. n -> UserTiles(r)]
  BY <1>2 DEF UserTiles
<1>5. f \in Surjection(1 .. n, UserTiles(r))
  BY <1>3, <1>4 DEF Surjection
<1>6. \A i, j \in 1 .. n : f[i] = f[j] => i = j
  <2> SUFFICES ASSUME NEW i \in 1 .. n, NEW j \in 1 .. n, f[i] = f[j] PROVE i = j
    OBVIOUS
  <2>1. Keeps(r.user[r.present[i]]) = Keeps(r.user[r.present[j]])
    OBVIOUS
  <2>2. r.present[i] = r.present[j]
    BY <1>2, <2>1 DEF Apart
  <2> QED
    BY <1>1, <2>2 DEF IsInjective
<1>7. f \in Bijection(1 .. n, UserTiles(r))
  BY <1>4, <1>5, <1>6 DEF Bijection, Injection, IsInjective
<1>8. ExistsBijection(1 .. n, UserTiles(r))
  BY <1>7 DEF ExistsBijection
<1>9. IsFiniteSet(1 .. n) /\ Cardinality(1 .. n) = n
  <2> HIDE DEF n
  <2>1. 0 + 1 \in Int /\ n \in Int /\ (1 > n => n = 0) /\ (1 <= n => n - 1 + 1 = n)
    BY <1>1
  <2> QED
    BY <1>1, <2>1, FS_Interval
<1> HIDE DEF n, f
<1> QED
  BY <1>8, <1>9, FS_Bijection DEF n

LEMMA OneTilePerBot ==
  ASSUME plan \in Plans, NEW r \in Room, BotsApart(r)
  PROVE  IsFiniteSet(BotTiles(r)) /\ Cardinality(BotTiles(r)) = Cardinality(DOMAIN r.bots)
<1> DEFINE B == DOMAIN r.bots
           f == [b \in B |-> r.bots[b].at]
<1>1. IsFiniteSet(B)
  <2>1. B \subseteq Bot
    BY PlansAssumption DEF Room
  <2> QED
    BY <2>1, WalkingAssumption, FS_Subset
<1>2. BotTiles(r) = {f[b] : b \in B} /\ \A b, c \in B : f[b] = f[c] => b = c
  BY DEF BotTiles, BotsApart
<1>3. f \in [B -> BotTiles(r)]
  BY DEF BotTiles
<1> HIDE DEF f, B
<1>4. f \in Bijection(B, BotTiles(r))
  BY <1>2, <1>3 DEF Bijection, Injection, Surjection, IsInjective
<1>5. ExistsBijection(B, BotTiles(r))
  BY <1>4 DEF ExistsBijection
<1> QED
  BY <1>1, <1>5, FS_Bijection DEF B

\* Whatever users, moderators, furniture and teleporters do in a room with whichever plan,
\* and in which order cycles come: the copy of the room is what the code takes it for.
THEOREM TypeCorrect == Spec => []TypeOK
<1>1. SwimInv => TypeOK
  <2> SUFFICES ASSUME Inv PROVE TypeOK
    BY DEF SwimInv
  <2>1. /\ plan \in Plans /\ Items(items) /\ jobs \subseteq User \X Item /\ room.exits = {}
        /\ room \in Room /\ In(room) = Here /\ Here \subseteq User
        /\ IsInjective(room.present)
    BY InvParts DEF People
  <2>2. \A u \in User : u \in Here <=> room.user[u] # Absent
    <3>1. \A u \in User \ Here : room.user[u] = Absent
      BY <2>1, InvParts DEF People
    <3>2. \A u \in Here : room.user[u].at # Nowhere
      BY InvParts, NowhereIsNoTile DEF Body
    <3>3. Absent.at = Nowhere
      BY DEF Absent, NewAvatar
    <3> QED
      BY <3>1, <3>2, <3>3
  <2>3. \A b \in DOMAIN room.bots : room.bots[b].at \in Tiles
    BY <2>1 DEF Room, BotState
  <2> QED
    BY <2>1, <2>2, <2>3 DEF TypeOK, Items, Room
<1> QED
  BY <1>1, InitInv, InvStep, PTL DEF Spec

\* Whoever walks, is moved, comes or goes, and in whichever order their turns come: no
\* tile stays flagged that nobody stands on (while no step was cut off), and while nobody
\* was put on a taken tile everybody has one of his own, which is flagged.
THEOREM TilesTakenByThose == Spec => []TilesTaken
<1>1. SwimInv => TilesTaken
  <2> SUFFICES ASSUME Inv PROVE TilesTaken
    BY DEF SwimInv
  <2>1. /\ plan \in Plans /\ room \in Room /\ In(room) = Here /\ IsInjective(room.present)
        /\ Placed(room)
    BY InvParts DEF People, Good
  <2>2. Stood = UserTiles(room) \cup BotTiles(room)
    BY <2>1 DEF Stood, UserTiles, BotTiles
  <2>3. ASSUME ~room.cut, ~room.shared
        PROVE  Cardinality(Stood) = Len(room.present) + Cardinality(DOMAIN room.bots)
    <3>1. /\ Apart(room) /\ BotsApart(room) /\ UserTiles(room) \cap BotTiles(room) = {}
      BY <2>1, <2>3 DEF Placed
    <3>2. /\ IsFiniteSet(UserTiles(room)) /\ Cardinality(UserTiles(room)) = Len(room.present)
          /\ IsFiniteSet(BotTiles(room))
          /\ Cardinality(BotTiles(room)) = Cardinality(DOMAIN room.bots)
      BY <2>1, <3>1, OneTileEach, OneTilePerBot
    <3>3. /\ Cardinality(UserTiles(room)) \in Nat /\ Cardinality(BotTiles(room)) \in Nat
          /\ Cardinality({}) = 0
      BY <3>2, FS_CardinalityType, FS_EmptySet
    <3>4. Cardinality(Stood) = Cardinality(UserTiles(room)) + Cardinality(BotTiles(room))
                                 - Cardinality({})
      BY <2>2, <3>1, <3>2, FS_Union
    <3> QED
      BY <3>2, <3>3, <3>4
  <2> QED
    BY <2>1, <2>2, <2>3 DEF TilesTaken, Placed
<1> QED
  BY <1>1, InitInv, InvStep, PTL DEF Spec

\* Whatever is placed, moved, picked up or switched below somebody who sits or lies, and
\* however he came there on his legs: he sits on a seat or lies on a bed.
THEOREM SeatsBelow == Spec => []Seated
<1>1. SwimInv => Seated
  <2> SUFFICES ASSUME Inv, ~room.shared, NEW u \in Here, ~My(u).slid,
                      My(u).poses \cap {"sit", "lay"} # {}
               PROVE  \/ State(My(u).at) = "seat" /\ "sit" \in My(u).poses
                      \/ State(My(u).at) = "bed" /\ "lay" \in My(u).poses
    BY DEF SwimInv, Seated
  <2>1. Rests(items, room.user[u])
    BY InvParts DEF Good, Sits
  <2> QED
    BY <2>1 DEF Rests, Lazy, State, My
<1> QED
  BY <1>1, InitInv, InvStep, PTL DEF Spec

\* Doors, teleporters, curtains and moderators' commands in any order: whoever is going to
\* leave is on his way to the door or was sent elsewhere since, and whoever does not obey
\* his user has something ahead that unlocks him (unless that was lost).
THEOREM NobodyCaught == Spec => []NotCaught
<1>1. SwimInv => NotCaught
  <2> SUFFICES ASSUME Inv, NEW u \in Here
               PROVE  /\ My(u).toDoor => My(u).goal = plan.door \/ My(u).turned
                      /\ My(u).lock =>
                           \/ My(u).lost \/ My(u).toDoor
                           \/ \E i \in Item : <<u, i>> \in jobs
                           \/ My(u).at \in DOMAIN plan.triggers
    BY DEF SwimInv, NotCaught
  <2>1. Obeys(jobs, u, My(u), u \in room.exits) /\ room.exits = {}
    BY MyBody, InvParts
  <2> QED
    BY <2>1 DEF Obeys
<1> QED
  BY <1>1, InitInv, InvStep, PTL DEF Spec

\* Wherever users walk in a pool, and whatever triggers lead them on: those in the water
\* swim, and nobody swims on land (unless a teleport put him there).
THEOREM WaterSwims == Spec => []Swims
<1>1. SwimInv => Swims
  <2> SUFFICES ASSUME Inv, Swimming(room), NEW u \in Here, ~My(u).flown
               PROVE  "swim" \in My(u).poses <=> Keeps(My(u)) \in plan.water
    BY DEF SwimInv, Swims
  <2>1. Bathes(My(u)) /\ Dry(My(u)) /\ plan \in Plans
    BY MyBody DEF Swimming
  <2>2. CASE plan.public
    BY <2>1, <2>2 DEF Bathes
  <2>3. CASE ~plan.public
    <3>1. plan.water = {}
      BY <2>1, <2>3, WaterAssumption
    <3> QED
      BY <2>1, <2>3, <3>1 DEF Dry
  <2> QED
    BY <2>2, <2>3
<1> QED
  BY <1>1, InitInv, InvStep, PTL DEF Spec

\* However many statuses are put on, stopped and put on again, by whomever, and whoever
\* leaves and comes back meanwhile: each that is on has a task that takes it away (unless
\* it is one that nobody is to take away).
THEOREM StatusesAwaitTheirEnd == Spec => []StatusesEnd
<1>1. SwimInv => StatusesEnd
  <2> SUFFICES ASSUME Inv, NEW u \in Here
               PROVE  /\ \A what \in {"wave", "sign"} \cap My(u).poses :
                           what \in My(u).forever \/ Awaits(u, what)
                      /\ My(u).poses \cap InHand # {} =>
                           "carryd" \in My(u).forever \/ Awaits(u, "carry")
    BY DEF SwimInv, StatusesEnd
  <2>1. Ends(timers, u, My(u))
    BY MyBody
  <2>2. \A what : Timed(timers, u, what) => Awaits(u, what)
    BY DEF Timed, Awaits
  <2> QED
    BY <2>1, <2>2 DEF Ends
<1> QED
  BY <1>1, InitInv, InvStep, PTL DEF Spec

\* Whatever is ordered, and whoever gets in the way: a bot with an order walks, or is one
\* that could not reach its place.
THEOREM BotsOnTheWay == Spec => []BotOnTheWay
<1>1. SwimInv => BotOnTheWay
  BY DEF SwimInv, Inv, Good, Serves, BotOnTheWay
<1> QED
  BY <1>1, InitInv, InvStep, PTL DEF Spec
=============================================================================
