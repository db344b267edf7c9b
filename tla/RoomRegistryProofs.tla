-------------------------- MODULE RoomRegistryProofs ---------------------------
(***************************************************************************)
(* RoomRegistry: its states are well typed, and the uids of a loaded room  *)
(* are distinct, whatever copies of the room overtake each other.  Until   *)
(* one does, a loaded room has a cycle, nobody comes into a room but by    *)
(* entering it, every avatar is that of a session which knows where it is, *)
(* and the visitor counts are right.                                       *)
(*                                                                         *)
(* No copy is ever repaired by another: what makes the table right is that *)
(* every private copy, of every task and at every moment, is right by      *)
(* itself.  A copy is only ever thinned out, or given one more user under  *)
(* a uid that nobody in that copy has (RegistryInv).                       *)
(*                                                                         *)
(* Nothing locks a room either: what stands in for a lock is that a task   *)
(* which has not been overtaken has a copy that differs from the table     *)
(* only by its own edit (UpToDate).  The rest follows from that.           *)
(***************************************************************************)
EXTENDS RoomRegistry, FiniteSetTheorems, WellFoundedInduction, TLAPS

\* No two avatars of copy m share a uid, and none has a bot's.
Distinct(m) ==
  /\ \A u, v \in Present(m) : m[u] = m[v] => u = v
  /\ \A u \in Present(m) : m[u] \notin BotUid

\* The room of the task is one, where the code uses it.
NamesRoom == {"fetch", "load", "count", "save", "remove", "zero"}

GoodTask(x) ==
  /\ x \in TaskState
  /\ Distinct(x.copy)
  /\ x.pc \in NamesRoom => x.at \in Room

\* A session that has a uid, or is entering, knows its room.
Placed ==
  \A u \in User :
    /\ uid[u] # NoUid => cur[u] # NoRoom
    /\ task[u].pc \in Busy /\ task[u].op = "enter" => cur[u] # NoRoom

OtherTypes ==
  /\ visitors \in [Room -> Nat]
  /\ cur \in [User -> Room \cup {NoRoom}] /\ goal \in [User -> Room \cup {NoRoom}]
  /\ uid \in [User -> Uid \cup {NoUid}]
  /\ where \in [User -> Room \cup {NoRoom}]
  /\ unspawned \subseteq Room /\ broken \subseteq Task
  /\ stale \subseteq Task /\ overtaken \in BOOLEAN

Rooms ==
  /\ loaded \in [Room -> Copy \cup {NotLoaded}]
  /\ \A r \in Room : loaded[r] # NotLoaded => Distinct(loaded[r])
Tasks ==
  /\ task \in [Task -> TaskState]
  /\ \A t \in Task : GoodTask(task[t])

\* The inductive invariant.
RegistryInv == Rooms /\ Tasks /\ OtherTypes /\ Placed

-----------------------------------------------------------------------------
(* Copies                                                                  *)

\* The taken uids are finitely many, so a natural number is free.
LEMMA TakenFinite ==
  ASSUME NEW m \in Copy
  PROVE  /\ IsFiniteSet(TakenUids(m)) /\ TakenUids(m) \subseteq Nat
         /\ IsFiniteSet(Present(m)) /\ Cardinality(Present(m)) \in Nat
         /\ Cardinality(TakenUids(m)) \in Nat
<1> DEFINE P == Present(m)
           I == {m[u] : u \in P}
           f == [u \in P |-> m[u]]
<1>1. IsFiniteSet(P) /\ Cardinality(P) \in Nat
  <2>1. P \in SUBSET User BY DEF Present
  <2>2. IsFiniteSet(P) BY <2>1, FS_Subset, RoomRegistryAssumption DEF RoomRegistryAssumption
  <2> QED BY <2>2, FS_CardinalityType
<1>2. IsFiniteSet(I)
  <2>1. f \in Surjection(P, I) BY DEF Surjection
  <2> QED BY <2>1, <1>1, FS_Surjection
<1>3. I \subseteq Nat BY DEF Present, Copy, Uid
<1>4. TakenUids(m) = I \cup BotUid BY DEF TakenUids
<1> HIDE DEF P, I
<1>5. IsFiniteSet(TakenUids(m))
  BY <1>2, <1>4, FS_Union, RoomRegistryAssumption DEF RoomRegistryAssumption
<1>6. Cardinality(TakenUids(m)) \in Nat BY <1>5, FS_CardinalityType
<1> QED BY <1>1, <1>3, <1>4, <1>5, <1>6, RoomRegistryAssumption DEF RoomRegistryAssumption, P

\* get_free_room_identifier gives a natural number that nobody in the copy has.
LEMMA FreeUid ==
  ASSUME NEW m \in Copy
  PROVE  FreeRoomIdentifier(m) \in Nat /\ FreeRoomIdentifier(m) \notin TakenUids(m)
<1> DEFINE T == TakenUids(m)
           n == Cardinality(T)
           Gaps == (0 .. n) \ T
<1>1. IsFiniteSet(T) /\ T \subseteq Nat /\ n \in Nat BY TakenFinite
<1>2. Gaps # {}
  <2>1. SUFFICES ASSUME Gaps = {} PROVE FALSE OBVIOUS
  <2>2. (0 .. n) \in SUBSET T BY <2>1
  <2>3. Cardinality(0 .. n) <= n BY <2>2, <1>1, FS_Subset
  <2>4. Cardinality(0 .. n) = n + 1 BY <1>1, FS_Interval
  <2>5. n + 1 <= n BY <2>3, <2>4
  <2> HIDE DEF n
  <2> QED BY <2>5, <1>1
<1>3. \E x \in Gaps : \A y \in Gaps : ~(<<y, x>> \in OpToRel(<, Nat))
  <2>1. Gaps \subseteq Nat OBVIOUS
  <2> QED BY <2>1, <1>2, NatLessThanWellFounded, WFMin
<1>4. PICK x \in Gaps : \A y \in Gaps : ~(<<y, x>> \in OpToRel(<, Nat)) BY <1>3
<1> HIDE DEF n, T
<1>5. \A y \in Gaps : ~(y < x)
  <2>1. \A a, b \in Nat : a < b => <<a, b>> \in OpToRel(<, Nat)
    BY Z3 DEF OpToRel
  <2>2. Gaps \subseteq Nat BY <1>1
  <2> QED BY <1>4, <2>1, <2>2
<1>6. x \in 0 .. n /\ x \notin T /\ \A k \in 0 .. (x - 1) : k \in T
  BY <1>5, <1>1
<1>7. FreeRoomIdentifier(m) =
        CHOOSE i \in 0 .. n : i \notin T /\ \A k \in 0 .. (i - 1) : k \in T
  BY DEF FreeRoomIdentifier, n, T
<1>8. FreeRoomIdentifier(m) \in 0 .. n /\ FreeRoomIdentifier(m) \notin T
  BY <1>6, <1>7
<1> QED BY <1>8 DEF T

\* Taking users out of a copy keeps it right.
LEMMA WithoutGood ==
  ASSUME NEW m \in Copy, Distinct(m), NEW G
  PROVE  Without(m, G) \in Copy /\ Distinct(Without(m, G))
BY DEF Without, Copy, Distinct, Present

LEMMA RemoveGood ==
  ASSUME NEW m \in Copy, Distinct(m), NEW i
  PROVE  RemoveRoomUser(m, i) \in Copy /\ Distinct(RemoveRoomUser(m, i))
BY WithoutGood DEF RemoveRoomUser

\* So does giving one user a free uid.
LEMMA EnterGood ==
  ASSUME NEW m \in Copy, Distinct(m), NEW t
  PROVE  /\ [m EXCEPT ![t] = FreeRoomIdentifier(m)] \in Copy
         /\ Distinct([m EXCEPT ![t] = FreeRoomIdentifier(m)])
<1> DEFINE i == FreeRoomIdentifier(m)
           e == [m EXCEPT ![t] = i]
<1>1. i \in Nat /\ i \notin TakenUids(m) BY FreeUid
<1>2. i \notin BotUid /\ \A u \in Present(m) : m[u] # i BY <1>1 DEF TakenUids
<1> HIDE DEF i
<1>3. e \in Copy BY <1>1 DEF Copy, Uid
<1>4. \A u \in User : e[u] = IF u = t THEN i ELSE m[u] BY DEF Copy
<1>5. Distinct(e) BY <1>2, <1>3, <1>4 DEF Distinct, Present
<1> QED BY <1>3, <1>5 DEF i

LEMMA EmptyGood == Empty \in Copy /\ Distinct(Empty)
BY DEF Empty, Copy, Distinct, Present

LEMMA AtRestGood ==
  ASSUME NEW p \in Resting \cup Busy, p \notin NamesRoom
  PROVE  GoodTask(AtRest(p)) /\ AtRest(p).pc = p
BY EmptyGood DEF GoodTask, AtRest, TaskState, Op

\* Whatever the operation, what it makes of a right copy is right.
LEMMA WithCopyGood ==
  ASSUME NEW t \in Task, GoodTask(task[t]), task[t].pc \in {"fetch", "load"},
         NEW m \in Copy, Distinct(m)
  PROVE  GoodTask(WithCopy(t, m))
         /\ (WithCopy(t, m).op = task[t].op \/ WithCopy(t, m).pc \in Resting)
<1> DEFINE o == task[t].op
           out == task[t].targets \cap Present(m)
           edited == CASE o = "enter" -> [m EXCEPT ![t] = FreeRoomIdentifier(m)]
                       [] o \in {"leave", "cleanup"} -> RemoveRoomUser(m, uid[t])
                       [] o = "kick" -> Without(m, out)
                       [] OTHER -> m
           next == CASE o = "touch" -> "save"
                     [] Present(edited) = {} -> "remove"
                     [] OTHER -> "count"
           new == [task[t] EXCEPT !.pc = next, !.copy = edited, !.targets = out]
<1>1. edited \in Copy /\ Distinct(edited)
  BY EnterGood, RemoveGood, WithoutGood
<1>2. next \in {"save", "remove", "count"} OBVIOUS
<1>3. GoodTask(new) /\ new.op = o
  <2>1. out \in SUBSET User BY DEF Present
  <2> HIDE DEF edited, next, out
  <2> QED BY <1>1, <1>2, <2>1 DEF GoodTask, TaskState, NamesRoom, Busy
<1>4. GoodTask(AtRest("ready")) /\ GoodTask(AtRest("idle"))
  BY AtRestGood DEF Resting, NamesRoom
<1>5. AtRest("ready").pc \in Resting /\ AtRest("idle").pc \in Resting
  BY DEF AtRest, Resting
<1>6. \/ WithCopy(t, m) = AtRest("ready") \/ WithCopy(t, m) = AtRest("idle")
      \/ WithCopy(t, m) = new
  BY DEF WithCopy
<1> HIDE DEF new
<1> QED BY <1>3, <1>4, <1>5, <1>6
-----------------------------------------------------------------------------
(* How a step changes the tasks                                            *)

\* One task gets another right state.
LEMMA TaskReplaced ==
  ASSUME Tasks, NEW t \in Task, NEW x, GoodTask(x),
         task' = [task EXCEPT ![t] = x]
  PROVE  Tasks' /\ task'[t] = x /\ \A y \in Task \ {t} : task'[y] = task[y]
<1>1. x \in TaskState BY DEF GoodTask
<1>2. task' \in [Task -> TaskState] BY <1>1 DEF Tasks
<1>3. task'[t] = x /\ \A y \in Task \ {t} : task'[y] = task[y] BY DEF Tasks
<1>4. \A y \in Task : GoodTask(task'[y]) BY <1>3 DEF Tasks
<1> QED BY <1>2, <1>3, <1>4 DEF Tasks, GoodTask, TaskState, Distinct, Present, Copy, Uid

\* It rests.
LEMMA TaskRests ==
  ASSUME Tasks, NEW t \in Task, NEW p \in Resting, Rest(t, p)
  PROVE  Tasks' /\ task'[t].pc = p /\ \A y \in Task \ {t} : task'[y] = task[y]
<1>1. p \notin NamesRoom BY DEF Resting, NamesRoom
<1>2. GoodTask(AtRest(p)) /\ AtRest(p).pc = p BY <1>1, AtRestGood
<1> QED BY <1>2, TaskReplaced DEF Rest

\* It goes on with its operation.
LEMMA TaskGoes ==
  ASSUME Tasks, NEW t \in Task, NEW p \in Busy, Goto(t, p),
         p \in NamesRoom => task[t].at \in Room
  PROVE  /\ Tasks' /\ task'[t].pc = p /\ task'[t].op = task[t].op
         /\ \A y \in Task \ {t} : task'[y] = task[y]
<1> DEFINE x == [task[t] EXCEPT !.pc = p]
<1>1. task' = [task EXCEPT ![t] = x] BY DEF Goto, Tasks
<1>2. GoodTask(x) /\ x.pc = p /\ x.op = task[t].op BY DEF Tasks, GoodTask, TaskState
<1> HIDE DEF x
<1> QED BY <1>1, <1>2, TaskReplaced

\* It begins an operation on a room.
LEMMA TaskBegins ==
  ASSUME Tasks, NEW t \in Task, NEW o \in Op, NEW r \in Room, Begin(t, o, r)
  PROVE  /\ Tasks' /\ task'[t].op = o
         /\ \A y \in Task \ {t} : task'[y] = task[y]
<1> DEFINE x == [task[t] EXCEPT !.pc = "fetch", !.op = o, !.at = r]
<1>1. task' = [task EXCEPT ![t] = x] BY DEF Begin, Tasks
<1>2. GoodTask(x) /\ x.op = o BY DEF Tasks, GoodTask, TaskState, Busy
<1> HIDE DEF x
<1> QED BY <1>1, <1>2, TaskReplaced

\* A room gets another right copy.
LEMMA RoomReplaced ==
  ASSUME Rooms, NEW r \in Room, NEW m \in Copy \cup {NotLoaded},
         m # NotLoaded => Distinct(m), loaded' = [loaded EXCEPT ![r] = m]
  PROVE  Rooms'
<1>1. loaded' \in [Room -> Copy \cup {NotLoaded}] BY DEF Rooms
<1>2. loaded'[r] = m /\ \A y \in Room \ {r} : loaded'[y] = loaded[y] BY DEF Rooms
<1>3. \A y \in Room : loaded'[y] # NotLoaded => Distinct(loaded'[y])
  BY <1>2 DEF Rooms
<1> QED BY <1>1, <1>3 DEF Rooms, Distinct, Present, Copy, Uid

\* The histories stay what they are.
LEMMA WritesTyped ==
  ASSUME OtherTypes, NEW t \in Task, NEW r, WritesRoom(t, r) \/ WritesRow(t, r)
  PROVE  stale' \subseteq Task /\ overtaken' \in BOOLEAN
BY DEF OtherTypes, WritesRoom, WritesRow
-----------------------------------------------------------------------------
(* The steps all operations share                                          *)

\* Only users enter a room's table of places, so a room or a kicker is no user.
LEMMA TasksApart == \A r \in Room \cup Kicker : r \notin User
BY RoomRegistryAssumption DEF RoomRegistryAssumption

LEMMA RoomIsNone == NotLoaded \notin Copy /\ NoRoom \notin Room
BY RoomRegistryAssumption DEF RoomRegistryAssumption, Copy, Uid

LEMMA FetchLoadedStep ==
  ASSUME RegistryInv, NEW t \in Task, FetchLoaded(t)
  PROVE  RegistryInv'
<1> DEFINE m == loaded[task[t].at]
           x == WithCopy(t, m)
<1> USE DEF RegistryInv
<1>1. task[t].at \in Room BY DEF FetchLoaded, Pc, Tasks, GoodTask, NamesRoom
<1>2. m \in Copy /\ Distinct(m) BY <1>1 DEF FetchLoaded, Rooms
<1>3. GoodTask(task[t]) /\ task[t].pc \in {"fetch", "load"}
  BY DEF FetchLoaded, Pc, Tasks
<1>4. GoodTask(x) /\ (x.op = task[t].op \/ x.pc \in Resting)
  BY <1>2, <1>3, WithCopyGood
<1>5. task' = [task EXCEPT ![t] = x] BY DEF FetchLoaded
<1>6. uid' = IF task[t].op = "enter" /\ t \in Present(m) THEN [uid EXCEPT ![t] = m[t]] ELSE uid
  BY DEF FetchLoaded
<1>7. task[t].pc \in Busy BY <1>3 DEF Busy
<1> HIDE DEF x
<1>8. Tasks' /\ task'[t] = x /\ \A y \in Task \ {t} : task'[y] = task[y]
  BY <1>4, <1>5, TaskReplaced
<1>9. Rooms' BY DEF FetchLoaded, roomVars, Rooms, Distinct, Present
<1>10. OtherTypes'
  <2>1. t \in Present(m) => m[t] \in Uid BY <1>2 DEF Present, Copy
  <2>2. uid' \in [User -> Uid \cup {NoUid}] BY <2>1, <1>6 DEF OtherTypes
  <2> QED BY <2>2 DEF OtherTypes, FetchLoaded, roomVars, historyVars, raceVars
<1>11. Placed'
  <2>1. cur' = cur BY DEF FetchLoaded
  <2>2. \A u \in User : uid'[u] = uid[u] \/ (u = t /\ task[t].op = "enter")
    BY <1>6 DEF OtherTypes
  <2>3. ASSUME NEW u \in User PROVE uid'[u] # NoUid => cur[u] # NoRoom
    BY <2>2, <1>7 DEF Placed
  <2>4. ASSUME NEW u \in User, task'[u].pc \in Busy, task'[u].op = "enter"
        PROVE  cur[u] # NoRoom
    <3>1. Resting \cap Busy = {} BY DEF Resting, Busy
    <3>2. CASE u = t BY <3>1, <3>2, <2>4, <1>4, <1>7, <1>8 DEF Placed
    <3>3. CASE u # t BY <3>3, <2>4, <1>8 DEF Placed, Task
    <3> QED BY <3>2, <3>3
  <2> QED BY <2>1, <2>3, <2>4 DEF Placed
<1> QED BY <1>8, <1>9, <1>10, <1>11

\* A task that stays with its operation, or drops it, changes no placement.
LEMMA StillPlaced ==
  ASSUME RegistryInv, UNCHANGED <<cur, uid>>,
         \A u \in User : \/ task'[u].pc \notin Busy
                         \/ task'[u].op # "enter"
                         \/ task[u].pc \in Busy /\ task[u].op = "enter"
  PROVE  Placed'
BY DEF RegistryInv, Placed

LEMMA FetchAbsentStep ==
  ASSUME RegistryInv, NEW t \in Task, FetchAbsent(t)
  PROVE  RegistryInv'
<1> USE DEF RegistryInv
<1>1. task[t].pc = "fetch" /\ task[t].pc \in Busy /\ task[t].at \in Room
  BY DEF FetchAbsent, Pc, Tasks, GoodTask, NamesRoom, Busy
<1>2. "ready" \in Resting /\ "load" \in Busy /\ Resting \cap Busy = {} BY DEF Resting, Busy
<1>3. \/ Rest(t, "ready") \/ Goto(t, "load") BY DEF FetchAbsent
<1>4. /\ Tasks' /\ \A y \in Task \ {t} : task'[y] = task[y]
      /\ task'[t].pc \notin Busy \/ task'[t].op = task[t].op
  BY <1>1, <1>2, <1>3, TaskRests, TaskGoes
<1>5. Rooms' /\ OtherTypes'
  BY DEF FetchAbsent, roomVars, sessionVars, historyVars, raceVars, Rooms, OtherTypes, Distinct, Present
<1>6. Placed' BY <1>1, <1>4, StillPlaced DEF FetchAbsent, sessionVars, Task
<1> QED BY <1>4, <1>5, <1>6

LEMMA AddRoomStep ==
  ASSUME RegistryInv, NEW t \in Task, AddRoom(t) \/ AddRoomTooLate(t)
  PROVE  RegistryInv'
<1> USE DEF RegistryInv
<1> DEFINE r == task[t].at
           x == WithCopy(t, Empty)
<1>1. r \in Room /\ task[t].pc = "load" /\ task[t].pc \in Busy
  BY DEF AddRoom, AddRoomTooLate, Pc, Tasks, GoodTask, NamesRoom, Busy
<1>2. GoodTask(x) /\ (x.op = task[t].op \/ x.pc \in Resting)
  BY <1>1, EmptyGood, WithCopyGood DEF Tasks
<1>3. UNCHANGED <<visitors, cur, uid, goal, where, broken>>
  BY DEF AddRoom, AddRoomTooLate, roomVars, sessionVars, historyVars
<1>4. Resting \cap Busy = {} /\ "sleep" \in Resting \ NamesRoom BY DEF Resting, Busy, NamesRoom
<1>5. CASE AddRoomTooLate(t)
  <2>1. task' = [task EXCEPT ![t] = x] BY <1>5 DEF AddRoomTooLate
  <2> HIDE DEF x
  <2>2. Tasks' /\ task'[t] = x /\ \A y \in Task \ {t} : task'[y] = task[y]
    BY <2>1, <1>2, TaskReplaced
  <2>3. Rooms' BY <1>5 DEF AddRoomTooLate, roomVars, Rooms, Distinct, Present
  <2>4. OtherTypes' BY <1>3, <1>5 DEF AddRoomTooLate, OtherTypes, historyVars
  <2>5. Placed' BY <1>1, <1>2, <1>3, <1>4, <2>2, StillPlaced DEF Task
  <2> QED BY <2>2, <2>3, <2>4, <2>5
<1>6. CASE AddRoom(t)
  <2> DEFINE half == [task EXCEPT ![t] = x]
             y == [half[r] EXCEPT !.pc = "sleep"]
  <2>1. task' = half \/ task' = [half EXCEPT ![r] = y]
    BY <1>6 DEF AddRoom, SpawnCycle
  <2> HIDE DEF x
  <2>2. r \in Task /\ r \notin User BY <1>1, TasksApart DEF Task
  <2>3. GoodTask(half[r])
    BY <1>2, <2>2 DEF Tasks
  <2>4. GoodTask(y)
    BY <2>3, <1>4 DEF GoodTask, TaskState
  <2>5. /\ task' \in [Task -> TaskState]
        /\ \A z \in Task : GoodTask(task'[z])
        /\ \A z \in User : task'[z] = IF z = t THEN x ELSE task[z]
    <3>1. half \in [Task -> TaskState] /\ \A z \in Task : GoodTask(half[z])
      BY <1>2 DEF Tasks, GoodTask
    <3>2. \A z \in User : half[z] = IF z = t THEN x ELSE task[z] BY DEF Tasks, Task
    <3> HIDE DEF half, y
    <3> QED BY <2>1, <2>2, <2>4, <3>1, <3>2 DEF GoodTask, Task
  <2>6. Tasks' BY <2>5 DEF Tasks, GoodTask, TaskState, Distinct, Present, Copy, Uid
  <2>7. Rooms' BY <1>1, <1>6, EmptyGood, RoomReplaced DEF AddRoom
  <2>8. OtherTypes'
    <3>1. stale' \subseteq Task /\ overtaken' \in BOOLEAN
      BY <1>6, WritesTyped DEF AddRoom
    <3>2. unspawned' \subseteq Room BY <1>1, <1>6 DEF AddRoom, OtherTypes
    <3> QED BY <1>3, <3>1, <3>2 DEF OtherTypes
  <2>9. Placed' BY <1>1, <1>2, <1>3, <1>4, <2>5, StillPlaced
  <2> QED BY <2>6, <2>7, <2>8, <2>9
<1> QED BY <1>5, <1>6

LEMMA PcsApart ==
  /\ Resting \cap Busy = {} /\ NamesRoom \subseteq Busy
  /\ {"ready", "offline", "idle", "none", "sleep", "gone"} = Resting
  /\ "row" \in Busy /\ "row" \notin NamesRoom
BY DEF Resting, Busy, NamesRoom

\* A task at a step that uses its copy has a room, and the copy is right.
LEMMA CopyInHand ==
  ASSUME RegistryInv, NEW t \in Task, task[t].pc \in NamesRoom
  PROVE  /\ task[t].at \in Room /\ task[t].pc \in Busy
         /\ task[t].copy \in Copy /\ Distinct(task[t].copy)
BY PcsApart DEF RegistryInv, Tasks, GoodTask, TaskState

\* Steps that rest or go on with an operation, and leave the sessions alone.
LEMMA GoingOn ==
  ASSUME RegistryInv, NEW t \in Task, task[t].pc \in Busy, UNCHANGED <<cur, uid>>,
         \/ \E p \in Resting : Rest(t, p)
         \/ \E p \in Busy : Goto(t, p) /\ (p \in NamesRoom => task[t].at \in Room)
  PROVE  Tasks' /\ Placed'
<1> USE DEF RegistryInv
<1>1. /\ Tasks' /\ \A y \in Task \ {t} : task'[y] = task[y]
      /\ task'[t].pc \notin Busy \/ task'[t].op = task[t].op
  BY PcsApart, TaskRests, TaskGoes
<1>2. \A u \in User : u \in Task BY DEF Task
<1> QED BY <1>1, <1>2, StillPlaced

LEMMA CountStep ==
  ASSUME RegistryInv, NEW t \in Task, Count(t) \/ UpdateIgnored(t)
  PROVE  RegistryInv'
<1> USE DEF RegistryInv
<1>1. task[t].pc \in {"count", "zero"} /\ task[t].pc \in NamesRoom
  BY DEF Count, UpdateIgnored, Pc, NamesRoom
<1>2. /\ task[t].at \in Room /\ task[t].pc \in Busy
      /\ task[t].copy \in Copy /\ Distinct(task[t].copy)
  BY <1>1, CopyInHand
<1>3. UNCHANGED <<loaded, cur, goal, uid, where, unspawned, stale, overtaken>>
  BY DEF Count, UpdateIgnored, roomVars, sessionVars, historyVars, raceVars
<1>4. Tasks' /\ Placed'
  <2>1. {"save", "row"} \subseteq Busy /\ "gone" \in Resting BY DEF Busy, Resting
  <2>2. Goto(t, "save") \/ Goto(t, "row") \/ Rest(t, "gone")
    BY DEF Count, UpdateIgnored, AfterRemoval
  <2> QED BY <1>2, <1>3, <2>1, <2>2, GoingOn
<1>5. Rooms' BY <1>3 DEF Rooms, Distinct, Present
<1>6. OtherTypes'
  <2>1. CASE Count(t)
    <3>1. Cardinality(Present(task[t].copy)) \in Nat BY <1>2, TakenFinite
    <3>2. visitors' \in [Room -> Nat] /\ broken' = broken
      BY <1>2, <2>1, <3>1 DEF Count, OtherTypes, historyVars
    <3> QED BY <1>3, <3>2 DEF OtherTypes
  <2>2. CASE UpdateIgnored(t)
    <3>1. Miscounted(t) \subseteq Task BY <1>2 DEF Miscounted, Task
    <3> QED BY <1>3, <2>2, <3>1 DEF UpdateIgnored, OtherTypes, roomVars
  <2> QED BY <2>1, <2>2
<1> QED BY <1>4, <1>5, <1>6

LEMMA SaveRoomStep ==
  ASSUME RegistryInv, NEW t \in Task, SaveRoom(t)
  PROVE  RegistryInv'
<1> USE DEF RegistryInv
<1>1. task[t].pc = "save" /\ task[t].pc \in NamesRoom BY DEF SaveRoom, Pc, NamesRoom
<1>2. /\ task[t].at \in Room /\ task[t].pc \in Busy
      /\ task[t].copy \in Copy /\ Distinct(task[t].copy)
  BY <1>1, CopyInHand
<1>3. UNCHANGED <<visitors, cur, goal, uid, where, unspawned, broken>>
  BY DEF SaveRoom, sessionVars, historyVars
<1>4. Tasks' /\ Placed'
  <2>1. Goto(t, "row") \/ Rest(t, "ready") BY DEF SaveRoom
  <2> QED BY <1>2, <1>3, <2>1, GoingOn, PcsApart
<1>5. Rooms' BY <1>2, RoomReplaced DEF SaveRoom
<1>6. stale' \subseteq Task /\ overtaken' \in BOOLEAN BY WritesTyped DEF SaveRoom
<1> QED BY <1>3, <1>4, <1>5, <1>6 DEF OtherTypes

LEMMA RemoveRoomStep ==
  ASSUME RegistryInv, NEW t \in Task, RemoveRoom(t) \/ ZeroVisitors(t)
  PROVE  RegistryInv'
<1> USE DEF RegistryInv
<1>1. task[t].pc \in {"remove", "zero"} /\ task[t].pc \in NamesRoom
  BY DEF RemoveRoom, ZeroVisitors, Pc, NamesRoom
<1>2. task[t].at \in Room /\ task[t].pc \in Busy BY <1>1, CopyInHand
<1>3. UNCHANGED <<cur, goal, uid, where, unspawned, broken>>
  BY DEF RemoveRoom, ZeroVisitors, sessionVars, historyVars
<1>4. Tasks' /\ Placed'
  <2>1. {"zero", "row"} \subseteq Busy /\ "gone" \in Resting BY DEF Busy, Resting
  <2>2. Goto(t, "zero") \/ Goto(t, "row") \/ Rest(t, "gone")
    BY DEF RemoveRoom, ZeroVisitors, AfterRemoval
  <2> QED BY <1>2, <1>3, <2>1, <2>2, GoingOn
<1>5. Rooms'
  <2>1. CASE RemoveRoom(t) BY <1>2, <2>1, RoomReplaced DEF RemoveRoom
  <2>2. CASE ZeroVisitors(t) BY <2>2 DEF ZeroVisitors, Rooms, Distinct, Present
  <2> QED BY <2>1, <2>2
<1>6. OtherTypes'
  <2>1. CASE RemoveRoom(t)
    <3>1. stale' \subseteq Task /\ overtaken' \in BOOLEAN
      BY <2>1, WritesTyped DEF RemoveRoom
    <3> QED BY <1>3, <2>1, <3>1 DEF RemoveRoom, OtherTypes
  <2>2. CASE ZeroVisitors(t)
    BY <1>2, <1>3, <2>2 DEF ZeroVisitors, OtherTypes
  <2> QED BY <2>1, <2>2
<1> QED BY <1>4, <1>5, <1>6

LEMMA ClearRowStep ==
  ASSUME RegistryInv, NEW t \in Task, NEW u \in User, ClearRow(t, u)
  PROVE  RegistryInv'
<1> USE DEF RegistryInv
<1> DEFINE x == [task[t] EXCEPT !.targets = @ \ {u}]
<1>1. task' = [task EXCEPT ![t] = x] /\ task[t].pc = "row" /\ task[t].pc \in Busy
  BY PcsApart DEF ClearRow, Pc
<1>2. GoodTask(x) /\ x.op = task[t].op BY DEF Tasks, GoodTask, TaskState
<1>3. UNCHANGED <<loaded, visitors, cur, goal, uid, unspawned, broken>>
  BY DEF ClearRow, roomVars, sessionVars, historyVars
<1> HIDE DEF x
<1>4. Tasks' /\ task'[t] = x /\ \A y \in Task \ {t} : task'[y] = task[y]
  BY <1>1, <1>2, TaskReplaced
<1>5. Placed' BY <1>1, <1>2, <1>3, <1>4, StillPlaced DEF Task
<1>6. stale' \subseteq Task /\ overtaken' \in BOOLEAN BY WritesTyped DEF ClearRow
<1>7. where' \in [User -> Room \cup {NoRoom}] BY DEF ClearRow, OtherTypes
<1>8. Rooms' BY <1>3 DEF Rooms, Distinct, Present
<1> QED BY <1>3, <1>4, <1>5, <1>6, <1>7, <1>8 DEF OtherTypes

LEMMA RowsDoneStep ==
  ASSUME RegistryInv, NEW t \in Task, RowsDone(t)
  PROVE  RegistryInv'
<1> USE DEF RegistryInv
<1>1. task[t].pc \in Busy BY PcsApart DEF RowsDone, Pc
<1>2. UNCHANGED <<loaded, visitors, cur, goal, uid, where, unspawned, broken, overtaken>>
  BY DEF RowsDone, roomVars, sessionVars, historyVars
<1>3. Rest(t, "sleep") \/ Rest(t, "idle") BY DEF RowsDone
<1>4. Tasks' /\ Placed' BY <1>1, <1>2, <1>3, GoingOn, PcsApart
<1>5. stale' \subseteq Task BY DEF RowsDone, OtherTypes
<1>6. Rooms' BY <1>2 DEF Rooms, Distinct, Present
<1> QED BY <1>2, <1>4, <1>5, <1>6 DEF OtherTypes
-----------------------------------------------------------------------------
(* The sessions                                                            *)

\* Of the types, what a step that leaves the rooms alone can disturb.
LEMMA RoomsUnchanged ==
  ASSUME Rooms, UNCHANGED loaded
  PROVE  Rooms'
BY DEF Rooms, Distinct, Present

LEMMA TasksUnchanged ==
  ASSUME Tasks, UNCHANGED task
  PROVE  Tasks'
BY DEF Tasks, GoodTask, TaskState, Distinct, Present, Copy, Uid

\* A packet that needs no room: the local fields change, not the tasks.
LEMMA LocalStep ==
  ASSUME RegistryInv, NEW u \in User,
         Reconcile(u) \/ \E r \in Room : EnterRoomDetermine(u, r)
  PROVE  RegistryInv'
<1> USE DEF RegistryInv
<1>1. task[u].pc \notin Busy BY PcsApart DEF Reconcile, EnterRoomDetermine, AtPacket, Pc
<1>2. UNCHANGED <<loaded, visitors, task, goal, where, unspawned, broken, stale, overtaken>>
  BY DEF Reconcile, EnterRoomDetermine, roomVars, historyVars, raceVars
<1>3. Rooms' /\ Tasks' BY <1>2, RoomsUnchanged, TasksUnchanged
<1>4. OtherTypes'
  BY <1>2 DEF OtherTypes, Reconcile, EnterRoomDetermine, ResetLocal
<1>5. Placed'
  <2>1. CASE Reconcile(u)
    BY <1>1, <1>2, <2>1 DEF Reconcile, ResetLocal, Placed, OtherTypes
  <2>2. CASE \E r \in Room : EnterRoomDetermine(u, r)
    BY <1>1, <1>2, <2>2, RoomIsNone DEF EnterRoomDetermine, Placed, OtherTypes
  <2> QED BY <2>1, <2>2
<1> QED BY <1>3, <1>4, <1>5

\* TakeOut begins an operation or goes to its last step.
LEMMA TakeOutTasks ==
  ASSUME RegistryInv, NEW u \in User, NEW o \in Op, o # "enter", TakeOut(u, o)
  PROVE  /\ Tasks' /\ task'[u].op = o
         /\ \A y \in Task \ {u} : task'[y] = task[y]
<1> USE DEF RegistryInv
<1>1. u \in Task BY DEF Task
<1>2. CASE cur[u] # NoRoom /\ uid[u] # NoUid
  <2>1. cur[u] \in Room BY <1>2 DEF OtherTypes
  <2> QED BY <1>1, <1>2, <2>1, TaskBegins DEF TakeOut
<1>3. CASE ~(cur[u] # NoRoom /\ uid[u] # NoUid)
  <2> DEFINE x == [task[u] EXCEPT !.pc = "row", !.op = o]
  <2>1. task' = [task EXCEPT ![u] = x] BY <1>3 DEF TakeOut, Tasks
  <2>2. GoodTask(x) /\ x.op = o
    BY <1>1, PcsApart DEF Tasks, GoodTask, TaskState
  <2> HIDE DEF x
  <2> QED BY <1>1, <2>1, <2>2, TaskReplaced
<1> QED BY <1>2, <1>3

\* A packet, or the end of the session, that starts an operation.
LEMMA BeginStep ==
  ASSUME RegistryInv, NEW u \in User,
         \/ \E r \in Room : EnterFromInside(u, r)
         \/ UseRoom(u) \/ LeaveRoom(u) \/ Cleanup(u)
  PROVE  RegistryInv'
<1> USE DEF RegistryInv
<1>1. u \in Task /\ {"load", "enter", "leave", "cleanup", "touch"} \subseteq Op BY DEF Task, Op
<1>2. UNCHANGED <<loaded, visitors, cur, uid, where, unspawned, broken, stale, overtaken>>
  BY DEF EnterFromInside, UseRoom, LeaveRoom, Cleanup, roomVars, sessionVars, historyVars, raceVars
<1>3. /\ Tasks' /\ \A y \in Task \ {u} : task'[y] = task[y]
      /\ task'[u].op # "enter" \/ cur[u] # NoRoom
  <2>1. CASE \E r \in Room : EnterFromInside(u, r)
    <3>1. Begin(u, "leave", cur[u]) /\ cur[u] \in Room
      BY <2>1 DEF EnterFromInside, Placed, OtherTypes
    <3> QED BY <1>1, <3>1, TaskBegins
  <2>2. CASE UseRoom(u)
    <3>1. cur[u] \in Room /\ cur[u] # NoRoom BY <2>2 DEF UseRoom, OtherTypes
    <3>2. PICK o \in {"load", "enter", "touch"} : Begin(u, o, cur[u]) BY <2>2 DEF UseRoom
    <3> QED BY <1>1, <3>1, <3>2, TaskBegins
  <2>3. CASE LeaveRoom(u) BY <1>1, <2>3, TakeOutTasks DEF LeaveRoom
  <2>4. CASE Cleanup(u) BY <1>1, <2>4, TakeOutTasks DEF Cleanup
  <2> QED BY <2>1, <2>2, <2>3, <2>4
<1>4. Placed' BY <1>1, <1>2, <1>3 DEF Placed, Task
<1>5. goal' \in [User -> Room \cup {NoRoom}]
  BY DEF EnterFromInside, UseRoom, LeaveRoom, Cleanup, sessionVars, OtherTypes
<1>6. OtherTypes' BY <1>2, <1>5 DEF OtherTypes
<1> QED BY <1>2, <1>3, <1>4, <1>6, RoomsUnchanged

\* The last step of an operation of a session, its failure, and a new login.
LEMMA RowStep ==
  ASSUME RegistryInv, NEW u \in User,
         EnterRow(u) \/ LeaveRow(u) \/ CleanupRow(u) \/ Fail(u) \/ Login(u)
  PROVE  RegistryInv'
<1> USE DEF RegistryInv
<1>1. u \in Task BY DEF Task
<1>2. Rest(u, "ready") \/ Rest(u, "offline")
  BY DEF EnterRow, LeaveRow, CleanupRow, Fail, Login
<1>3. /\ Tasks' /\ task'[u].pc \notin Busy
      /\ \A y \in Task \ {u} : task'[y] = task[y]
  BY <1>1, <1>2, TaskRests, PcsApart
<1>4. UNCHANGED <<loaded, visitors, unspawned>>
  BY DEF EnterRow, LeaveRow, CleanupRow, Fail, Login, roomVars, historyVars
<1>5. /\ cur' \in [User -> Room \cup {NoRoom}] /\ goal' \in [User -> Room \cup {NoRoom}]
      /\ uid' \in [User -> Uid \cup {NoUid}]
      /\ where' \in [User -> Room \cup {NoRoom}]
  <2>1. task[u].at \in Room \cup {NoRoom} /\ task[u].copy[u] \in Uid \cup {NoUid}
    BY <1>1 DEF Tasks, TaskState, Copy
  <2>2. CASE EnterRow(u) BY <2>1, <2>2 DEF EnterRow, OtherTypes
  <2>3. CASE LeaveRow(u) BY <2>3 DEF LeaveRow, OtherTypes
  <2>4. CASE CleanupRow(u) BY <2>4 DEF CleanupRow, ResetLocal, OtherTypes
  <2>5. CASE Fail(u) BY <2>5 DEF Fail, ResetLocal, OtherTypes
  <2>6. CASE Login(u) BY <2>6 DEF Login, sessionVars, OtherTypes
  <2> QED BY <2>2, <2>3, <2>4, <2>5, <2>6
<1>6. stale' \subseteq Task /\ overtaken' \in BOOLEAN /\ broken' \subseteq Task
  <2>1. CASE Fail(u)
    <3>1. Miscounted(u) \subseteq Task
      BY <1>1, CopyInHand DEF Miscounted, Pc, NamesRoom, Task
    <3> QED BY <1>1, <2>1, <3>1 DEF Fail, OtherTypes
  <2>2. CASE ~Fail(u)
    <3>1. WritesRow(u, u) BY <2>2 DEF EnterRow, LeaveRow, CleanupRow, Login
    <3>2. broken' = broken BY <2>2 DEF EnterRow, LeaveRow, CleanupRow, Login, historyVars
    <3> QED BY <1>1, <3>1, <3>2, WritesTyped DEF OtherTypes
  <2> QED BY <2>1, <2>2
<1>7. Placed'
  <2>1. ASSUME NEW v \in User, v # u
        PROVE  cur'[v] = cur[v] /\ uid'[v] = uid[v] /\ task'[v] = task[v]
    <3>1. task'[v] = task[v] BY <2>1, <1>3 DEF Task
    <3>2. cur'[v] = cur[v] /\ uid'[v] = uid[v]
      BY <2>1 DEF EnterRow, LeaveRow, CleanupRow, Fail, Login, ResetLocal, sessionVars, OtherTypes
    <3> QED BY <3>1, <3>2
  <2>2. uid'[u] # NoUid => cur'[u] # NoRoom
    <3>1. CASE EnterRow(u)
      <4>1. task[u].pc \in Busy /\ task[u].op = "enter" BY <3>1, PcsApart DEF EnterRow, Pc
      <4> QED BY <3>1, <4>1 DEF EnterRow, Placed
    <3>2. CASE LeaveRow(u) \/ CleanupRow(u) \/ Fail(u)
      BY <3>2 DEF LeaveRow, CleanupRow, Fail, ResetLocal, OtherTypes
    <3>3. CASE Login(u) BY <3>3 DEF Login, sessionVars, Placed
    <3> QED BY <3>1, <3>2, <3>3
  <2> QED BY <1>3, <2>1, <2>2 DEF Placed
<1>8. OtherTypes' BY <1>4, <1>5, <1>6 DEF OtherTypes
<1> QED BY <1>3, <1>4, <1>7, <1>8, RoomsUnchanged
-----------------------------------------------------------------------------
(* Kicks, and the cycle of a room                                          *)

\* A task that is no user's gets a right state: the sessions see nothing.
LEMMA OthersStep ==
  ASSUME RegistryInv, NEW t \in Kicker \cup Room, NEW x, GoodTask(x),
         task' = [task EXCEPT ![t] = x],
         UNCHANGED <<loaded, visitors, cur, goal, uid, where, unspawned, overtaken>>,
         stale' \subseteq Task, broken' \subseteq Task
  PROVE  RegistryInv'
<1> USE DEF RegistryInv
<1>1. t \in Task /\ t \notin User BY TasksApart DEF Task
<1>2. Tasks' /\ \A y \in Task \ {t} : task'[y] = task[y] BY <1>1, TaskReplaced
<1>3. Placed' BY <1>1, <1>2 DEF Placed, Task
<1>4. OtherTypes' BY DEF OtherTypes
<1> QED BY <1>2, <1>3, <1>4, RoomsUnchanged

LEMMA KickerStep ==
  ASSUME RegistryInv, NEW k \in Kicker,
         \/ \E u \in User : KickUser(k, u)
         \/ \E r \in Room : KickLowerRanks(k, r)
         \/ KickFails(k)
  PROVE  RegistryInv'
<1> USE DEF RegistryInv
<1>1. k \in Task BY DEF Task
<1>2. ASSUME NEW r \in Room, NEW us \in SUBSET User,
             task' = [task EXCEPT ![k] = [AtRest("fetch") EXCEPT
                        !.op = "kick", !.at = r, !.targets = us]],
             UNCHANGED <<roomVars, sessionVars, where, historyVars, raceVars>>
      PROVE  RegistryInv'
  <2> DEFINE x == [AtRest("fetch") EXCEPT !.op = "kick", !.at = r, !.targets = us]
  <2>1. GoodTask(x) BY EmptyGood DEF GoodTask, AtRest, TaskState, Op, Busy
  <2> HIDE DEF x
  <2> QED
    BY <1>2, <2>1, OthersStep
    DEF OtherTypes, roomVars, sessionVars, historyVars, raceVars, x
<1>3. CASE \E u \in User : KickUser(k, u)
  <2>1. PICK u \in User : KickUser(k, u) BY <1>3
  <2>2. where[u] \in Room /\ {u} \in SUBSET User BY <2>1 DEF KickUser, OtherTypes
  <2> QED BY <1>2, <2>1, <2>2 DEF KickUser
<1>4. CASE \E r \in Room : KickLowerRanks(k, r)
  BY <1>2, <1>4 DEF KickLowerRanks
<1>5. CASE KickFails(k)
  <2>1. GoodTask(AtRest("idle")) BY AtRestGood, PcsApart
  <2>2. Miscounted(k) \subseteq Task
    BY <1>1, CopyInHand DEF Miscounted, Pc, NamesRoom, Task
  <2>3. stale' \subseteq Task /\ broken' \subseteq Task
    BY <1>5, <2>2 DEF KickFails, OtherTypes
  <2> QED
    BY <1>5, <2>1, <2>3, OthersStep DEF KickFails, Rest, roomVars, sessionVars
<1> QED BY <1>3, <1>4, <1>5

LEMMA CycleStep ==
  ASSUME RegistryInv, NEW r \in Room,
         CycleTick(r) \/ CycleFindsNoRoom(r) \/ CycleEnds(r)
  PROVE  RegistryInv'
<1> USE DEF RegistryInv
<1>1. UNCHANGED <<loaded, visitors, cur, goal, uid, where, unspawned, broken, stale, overtaken>>
  BY DEF CycleTick, CycleFindsNoRoom, CycleEnds, roomVars, sessionVars, historyVars, raceVars
<1>2. stale' \subseteq Task /\ broken' \subseteq Task BY <1>1 DEF OtherTypes
<1>3. CASE CycleTick(r)
  <2> DEFINE m == loaded[r]
  <2>1. m \in Copy /\ Distinct(m) BY <1>3 DEF CycleTick, Rooms
  <2>2. PICK out \in SUBSET Present(m) :
          task' = [task EXCEPT ![r] =
            [pc |-> IF out = Present(m) THEN "remove" ELSE "count", op |-> "cycle",
             at |-> r, copy |-> Without(m, out), targets |-> out]]
    BY <1>3 DEF CycleTick
  <2> DEFINE x == [pc |-> IF out = Present(m) THEN "remove" ELSE "count", op |-> "cycle",
                   at |-> r, copy |-> Without(m, out), targets |-> out]
  <2>3. out \in SUBSET User BY DEF Present
  <2>4. Without(m, out) \in Copy /\ Distinct(Without(m, out)) BY <2>1, WithoutGood
  <2> HIDE DEF m
  <2>5. GoodTask(x) BY <2>3, <2>4 DEF GoodTask, TaskState, Busy, Op
  <2>6. task' = [task EXCEPT ![r] = x] BY <2>2
  <2> HIDE DEF x
  <2> QED BY <1>1, <1>2, <2>5, <2>6, OthersStep
<1>4. CASE CycleFindsNoRoom(r) \/ CycleEnds(r)
  <2>1. GoodTask(AtRest("gone")) /\ GoodTask(AtRest("none")) BY AtRestGood, PcsApart
  <2> QED BY <1>1, <1>2, <1>4, <2>1, OthersStep DEF CycleFindsNoRoom, CycleEnds, Rest
<1> QED BY <1>3, <1>4

-----------------------------------------------------------------------------
(* The invariant                                                           *)

LEMMA RegistryInit == Init => RegistryInv
<1> SUFFICES ASSUME Init PROVE RegistryInv OBVIOUS
<1> USE DEF Init
<1>1. Rooms BY RoomIsNone DEF Rooms
<1>2. Tasks
  <2>1. \A p \in {"ready", "idle", "none"} : GoodTask(AtRest(p)) BY AtRestGood, PcsApart
  <2>2. \A t \in Task : \E p \in {"ready", "idle", "none"} : task[t] = AtRest(p) OBVIOUS
  <2>3. \A t \in Task : GoodTask(task[t]) BY <2>1, <2>2
  <2> QED BY <2>3 DEF Tasks, GoodTask
<1>3. OtherTypes BY DEF OtherTypes
<1>4. Placed
  <2>1. \A u \in User : task[u].pc = "ready" BY DEF Task, AtRest
  <2> QED BY <2>1, PcsApart DEF Placed
<1> QED BY <1>1, <1>2, <1>3, <1>4 DEF RegistryInv

LEMMA RegistryStep == RegistryInv /\ [Next]_vars => RegistryInv'
<1> SUFFICES ASSUME RegistryInv, [Next]_vars PROVE RegistryInv' OBVIOUS
<1>1. CASE \E t \in Task : TaskStep(t)
  BY <1>1, FetchLoadedStep, FetchAbsentStep, AddRoomStep, CountStep, SaveRoomStep,
     RemoveRoomStep, RowsDoneStep, ClearRowStep DEF TaskStep
<1>2. CASE \E u \in User : SessionStep(u)
  BY <1>2, LocalStep, BeginStep, RowStep DEF SessionStep
<1>3. CASE \E k \in Kicker : \/ \E u \in User : KickUser(k, u)
                             \/ \E r \in Room : KickLowerRanks(k, r)
                             \/ KickFails(k)
  BY <1>3, KickerStep
<1>4. CASE \E r \in Room : CycleTick(r) \/ CycleFindsNoRoom(r) \/ CycleEnds(r)
  BY <1>4, CycleStep
<1>5. CASE UNCHANGED vars
  <2>1. Rooms' /\ Tasks'
    BY <1>5, RoomsUnchanged, TasksUnchanged DEF RegistryInv, vars, roomVars
  <2>2. OtherTypes' /\ Placed'
    BY <1>5 DEF RegistryInv, vars, roomVars, sessionVars, historyVars, raceVars, OtherTypes, Placed
  <2> QED BY <2>1, <2>2 DEF RegistryInv
<1> QED BY <1>1, <1>2, <1>3, <1>4, <1>5 DEF Next

LEMMA RegistryHolds == Spec => []RegistryInv
BY RegistryInit, RegistryStep, PTL DEF Spec

\* Every reachable state is well typed: a task never works on room 0, and a free
\* uid is always found.
THEOREM TypeCorrect == Spec => []TypeOK
<1>1. RegistryInv => TypeOK BY DEF RegistryInv, Rooms, Tasks, OtherTypes, TypeOK
<1> QED BY <1>1, RegistryHolds, PTL

\* In every loaded room the uids are distinct and none is a bot's, for any number
\* of users, rooms, kicks and bots, and whatever saves overtake each other.
THEOREM UidsAreDistinct == Spec => []UidsDistinct
<1>1. RegistryInv => UidsDistinct
  BY DEF RegistryInv, Rooms, Distinct, UidsDistinct
<1> QED BY <1>1, RegistryHolds, PTL

-----------------------------------------------------------------------------
(* What the tasks are                                                      *)

\* The session of a user works on the room it is in, and moves nobody else out; a kick
\* is one; a cycle works on its own room, which it does not have to fetch.
KindOf(t) ==
  LET x == task[t] IN
  /\ t \in User =>
       /\ x.targets = {}
       /\ x.pc \in NamesRoom \/ (x.pc = "row" /\ x.op = "enter") => x.at = cur[t]
  /\ t \in Kicker => x.pc \in {"idle"} \cup Busy /\ (x.pc \in Busy => x.op = "kick")
  /\ t \in Room =>
       /\ x.pc \in {"none", "sleep", "gone", "count", "save", "remove", "zero", "row"}
       /\ x.pc \in Busy => x.at = t /\ x.op = "cycle"
Kinds == \A t \in Task : KindOf(t)

\* The fields of a task that rests, goes on, or begins.
LEMMA RestIs ==
  ASSUME Tasks, NEW t \in Task, NEW p, Rest(t, p)
  PROVE  /\ task'[t].pc = p /\ task'[t].op = "none" /\ task'[t].at = NoRoom
         /\ task'[t].copy = Empty /\ task'[t].targets = {}
         /\ \A y \in Task \ {t} : task'[y] = task[y]
BY DEF Rest, AtRest, Tasks

LEMMA GotoIs ==
  ASSUME Tasks, NEW t \in Task, NEW p, Goto(t, p)
  PROVE  /\ task'[t].pc = p /\ task'[t].op = task[t].op /\ task'[t].at = task[t].at
         /\ task'[t].copy = task[t].copy /\ task'[t].targets = task[t].targets
         /\ \A y \in Task \ {t} : task'[y] = task[y]
BY DEF Goto, Tasks, TaskState

LEMMA BeginIs ==
  ASSUME Tasks, NEW t \in Task, NEW o, NEW r, Begin(t, o, r)
  PROVE  /\ task'[t].pc = "fetch" /\ task'[t].op = o /\ task'[t].at = r
         /\ task'[t].copy = task[t].copy /\ task'[t].targets = task[t].targets
         /\ \A y \in Task \ {t} : task'[y] = task[y]
BY DEF Begin, Tasks, TaskState

\* What a task becomes with copy m in hand.
LEMMA WithCopyIs ==
  ASSUME RegistryInv, NEW t \in Task, KindOf(t), task[t].pc \in {"fetch", "load"}, NEW m \in Copy
  PROVE  LET x == WithCopy(t, m)
             o == task[t].op
         IN \/ /\ x = AtRest("ready") \/ x = AtRest("idle")
               /\ t \in Kicker => x.pc = "idle"
            \/ /\ x.pc \in {"count", "save", "remove"}
               /\ x.op = o /\ x.at = task[t].at
               /\ x.targets \subseteq task[t].targets
               /\ \A u \in User : \/ x.copy[u] \in {NoUid, m[u]}
                                  \/ u = t /\ o = "enter" /\ m[u] = NoUid
               /\ \A u \in x.targets : m[u] # NoUid /\ x.copy[u] = NoUid
               /\ o = "touch" => x.copy = m
               /\ o \in {"leave", "cleanup"} => \A u \in User : m[u] = uid[t] => x.copy[u] = NoUid
               /\ o # "touch" => x.pc # "save"
<1> DEFINE o == task[t].op
           out == task[t].targets \cap Present(m)
           edited == CASE o = "enter" -> [m EXCEPT ![t] = FreeRoomIdentifier(m)]
                       [] o \in {"leave", "cleanup"} -> RemoveRoomUser(m, uid[t])
                       [] o = "kick" -> Without(m, out)
                       [] OTHER -> m
           next == CASE o = "touch" -> "save"
                     [] Present(edited) = {} -> "remove"
                     [] OTHER -> "count"
           new == [task[t] EXCEPT !.pc = next, !.copy = edited, !.targets = out]
<1>0. task[t] \in TaskState /\ task[t].pc \in Busy BY DEF RegistryInv, Tasks, Busy
<1>4. new.pc = next /\ new.copy = edited /\ new.targets = out /\ new.op = o /\ new.at = task[t].at
  <2> HIDE DEF next, edited, out
  <2> QED BY <1>0 DEF TaskState
<1>1. CASE WithCopy(t, m) \in {AtRest("ready"), AtRest("idle")}
  <2>1. AtRest("ready").pc = "ready" /\ AtRest("idle").pc = "idle" BY DEF AtRest
  <2>2. t \in Kicker => o = "kick" BY <1>0 DEF KindOf
  <2>3. ASSUME o = "kick" PROVE WithCopy(t, m) \in {AtRest("idle"), new}
    BY <2>3 DEF WithCopy
  <2>4. new.pc # "ready" BY <1>4
  <2> HIDE DEF new
  <2> QED BY <1>1, <2>1, <2>2, <2>3, <2>4
<1>2. CASE WithCopy(t, m) = new /\ ~(o = "enter" /\ t \in Present(m))
  <2>2. next \in {"count", "save", "remove"} /\ (o # "touch" => next # "save") OBVIOUS
  <2>3. \A u \in User : edited[u] \in {NoUid, m[u]} \/ (u = t /\ o = "enter" /\ m[u] = NoUid)
    BY <1>2 DEF RemoveRoomUser, Without, Copy, Present
  <2>4. o = "touch" => edited = m OBVIOUS
  <2>5. \A u \in out : m[u] # NoUid /\ edited[u] = NoUid
    <3>1. out # {} => o = "kick" BY <1>0 DEF KindOf, Task
    <3>2. o = "kick" => edited = Without(m, out) OBVIOUS
    <3> QED BY <3>1, <3>2 DEF Without, Present
  <2>6. o \in {"leave", "cleanup"} => \A u \in User : m[u] = uid[t] => edited[u] = NoUid
    BY DEF RemoveRoomUser, Without, Present
  <2>7. out \subseteq task[t].targets OBVIOUS
  <2> HIDE DEF new, next, edited, out
  <2> QED BY <1>2, <1>4, <2>2, <2>3, <2>4, <2>5, <2>6, <2>7
<1>3. \/ WithCopy(t, m) \in {AtRest("ready"), AtRest("idle")}
      \/ WithCopy(t, m) = new /\ ~(o = "enter" /\ t \in Present(m))
  BY DEF WithCopy
<1> QED BY <1>1, <1>2, <1>3
\* One task moves; at most a cycle starts.
LEMMA OneKind ==
  ASSUME Kinds, NEW t \in Task, KindOf(t)',
         \A y \in User \ {t} : cur'[y] = cur[y],
         \A y \in Task \ {t} : task'[y] = task[y] \/ (y \in Room /\ task'[y].pc = "sleep")
  PROVE  Kinds'
<1> SUFFICES ASSUME NEW y \in Task PROVE KindOf(y)' BY DEF Kinds
<1>1. CASE y = t BY <1>1
<1>2. CASE y # t /\ task'[y] = task[y]
  BY <1>2 DEF Kinds, KindOf
<1>3. CASE y # t /\ y \in Room /\ task'[y].pc = "sleep"
  BY <1>3, TasksApart, RoomRegistryAssumption DEF RoomRegistryAssumption, KindOf, Busy
<1> QED BY <1>1, <1>2, <1>3

\* Adding a room leaves the task of the loader as WithCopy makes it, and may start the cycle.
LEMMA AddRoomIs ==
  ASSUME RegistryInv, Kinds, NEW t \in Task, AddRoom(t)
  PROVE  LET r == task[t].at IN
         /\ r \in Room /\ r # t /\ task'[t] = WithCopy(t, Empty)
         /\ task'[r] = IF task[r].pc = "none" THEN [task[r] EXCEPT !.pc = "sleep"] ELSE task[r]
         /\ \A y \in Task \ {t, r} : task'[y] = task[y]
<1> DEFINE r == task[t].at
           x == WithCopy(t, Empty)
           half == [task EXCEPT ![t] = x]
<1>1. r \in Room /\ task[t].pc = "load"
  BY DEF AddRoom, Pc, RegistryInv, Tasks, GoodTask, NamesRoom
<1>2. r # t BY <1>1 DEF Kinds, KindOf
<1>3. task' = SpawnCycle(half, r) BY DEF AddRoom
<1>4. r \in Task /\ task \in [Task -> TaskState] BY <1>1 DEF Task, RegistryInv, Tasks
<1> HIDE DEF x, r
<1>5. /\ half[t] = x /\ half[r] = task[r]
      /\ half \in [Task -> TaskState \cup {x}] /\ \A y \in Task \ {t, r} : half[y] = task[y]
  BY <1>2, <1>4
<1> HIDE DEF half
<1> QED BY <1>1, <1>2, <1>3, <1>4, <1>5 DEF SpawnCycle, r, x

LEMMA SharedKinds ==
  ASSUME RegistryInv, Kinds, NEW t \in Task, TaskStep(t)
  PROVE  Kinds'
<1> USE DEF RegistryInv
<1> DEFINE r == task[t].at
<1>0. /\ KindOf(t) /\ task[t] \in TaskState /\ cur' = cur
      /\ t \in Room => t \notin User /\ t \notin Kicker
      /\ t \in Kicker => t \notin User /\ t \notin Room
      /\ t \in User => t \notin Kicker /\ t \notin Room
  BY RoomRegistryAssumption
  DEF Kinds, Tasks, TaskStep, FetchLoaded, FetchAbsent, AddRoom, AddRoomTooLate, Count, SaveRoom,
      RemoveRoom, ZeroVisitors, UpdateIgnored, RowsDone, ClearRow, sessionVars,
      RoomRegistryAssumption
<1>1. ASSUME NEW m \in Copy, task[t].pc \in {"fetch", "load"}, task'[t] = WithCopy(t, m)
      PROVE  KindOf(t)'
  <2>1. \/ /\ WithCopy(t, m) = AtRest("ready") \/ WithCopy(t, m) = AtRest("idle")
           /\ t \in Kicker => WithCopy(t, m).pc = "idle"
        \/ /\ task'[t].pc \in {"count", "save", "remove"}
           /\ task'[t].op = task[t].op /\ task'[t].at = task[t].at
           /\ task'[t].targets \subseteq task[t].targets
    BY <1>0, <1>1, WithCopyIs
  <2>2. t \notin Room BY <1>0, <1>1 DEF KindOf
  <2>3. CASE \/ WithCopy(t, m) = AtRest("ready") \/ WithCopy(t, m) = AtRest("idle")
    <3>1. task'[t].targets = {} /\ task'[t].pc \in {"ready", "idle"} BY <1>1, <2>3 DEF AtRest
    <3>2. t \in Kicker => task'[t].pc = "idle"
      BY <1>1, <2>1, <2>3, <3>1
    <3> QED BY <2>2, <3>1, <3>2 DEF KindOf, NamesRoom, Busy
  <2>4. CASE /\ task'[t].pc \in {"count", "save", "remove"}
             /\ task'[t].op = task[t].op /\ task'[t].at = task[t].at
             /\ task'[t].targets \subseteq task[t].targets
    BY <1>0, <1>1, <2>2, <2>4 DEF KindOf, NamesRoom, Busy
  <2> QED BY <2>1, <2>3, <2>4
<1>2. CASE FetchLoaded(t)
  <2>1. r \in Room /\ loaded[r] \in Copy /\ task[t].pc = "fetch"
    BY <1>2 DEF FetchLoaded, Pc, Rooms, NamesRoom, Tasks, GoodTask
  <2>2. task'[t] = WithCopy(t, loaded[r]) /\ \A y \in Task \ {t} : task'[y] = task[y]
    BY <1>2 DEF FetchLoaded, Tasks
  <2> QED BY <1>0, <1>1, <2>1, <2>2, OneKind
<1>3. CASE AddRoom(t)
  <2>1. task[t].pc = "load" BY <1>3 DEF AddRoom, Pc
  <2>2. KindOf(t)' BY <1>1, <1>3, <2>1, AddRoomIs, EmptyGood
  <2>3. /\ r \in Room /\ r \in Task /\ r # t
        /\ task'[r] = IF task[r].pc = "none" THEN [task[r] EXCEPT !.pc = "sleep"] ELSE task[r]
        /\ \A y \in Task \ {t, r} : task'[y] = task[y]
    BY <1>3, AddRoomIs DEF Task
  <2>4. [task[r] EXCEPT !.pc = "sleep"].pc = "sleep" BY <2>3 DEF Tasks, TaskState
  <2>5. task'[r] = task[r] \/ task'[r].pc = "sleep" BY <2>3, <2>4
  <2> QED BY <1>0, <2>2, <2>3, <2>5, OneKind
<1>4. CASE AddRoomTooLate(t)
  <2>1. task[t].pc = "load" /\ task'[t] = WithCopy(t, Empty) /\ \A y \in Task \ {t} : task'[y] = task[y]
    BY <1>4 DEF AddRoomTooLate, Pc, Tasks
  <2> QED BY <1>0, <1>1, <2>1, EmptyGood, OneKind
<1>5. ASSUME NEW p, Goto(t, p),
             \/ p = "load" /\ task[t].pc = "fetch"
             \/ p \in {"zero", "save", "row"} /\ task[t].pc \in {"count", "save", "remove", "zero"}
      PROVE  Kinds'
  BY <1>0, <1>5, GotoIs, OneKind DEF KindOf, NamesRoom, Busy
<1>6. ASSUME NEW p, Rest(t, p), t \in Kicker => p = "idle",
             t \in Room => p \in {"gone", "sleep"},
             p \in {"ready", "idle", "gone", "sleep"}
      PROVE  Kinds'
  BY <1>0, <1>6, RestIs, OneKind DEF KindOf, NamesRoom, Busy
<1>7. CASE FetchAbsent(t)
  BY <1>0, <1>5, <1>6, <1>7 DEF FetchAbsent, Pc, KindOf, Busy
<1>8. CASE Count(t) \/ SaveRoom(t)
  BY <1>0, <1>5, <1>6, <1>8 DEF Count, SaveRoom, Pc, KindOf, Busy
<1>9. CASE RemoveRoom(t) \/ ZeroVisitors(t) \/ UpdateIgnored(t)
  BY <1>0, <1>5, <1>6, <1>9 DEF RemoveRoom, ZeroVisitors, UpdateIgnored, AfterRemoval, Pc
<1>10. CASE RowsDone(t)
  BY <1>0, <1>6, <1>10 DEF RowsDone
<1>11. CASE \E u \in User : ClearRow(t, u)
  <2>1. PICK u \in User : ClearRow(t, u) BY <1>11
  <2>2. /\ task'[t].pc = task[t].pc /\ task'[t].op = task[t].op /\ task'[t].at = task[t].at
        /\ t \notin User /\ \A y \in Task \ {t} : task'[y] = task[y]
    BY <1>0, <2>1 DEF ClearRow, Tasks, TaskState
  <2> QED BY <1>0, <2>2, OneKind DEF KindOf
<1> QED BY <1>2, <1>3, <1>4, <1>7, <1>8, <1>9, <1>10, <1>11 DEF TaskStep

LEMMA SessionKinds ==
  ASSUME RegistryInv, Kinds, NEW u \in User, SessionStep(u)
  PROVE  Kinds'
<1> USE DEF RegistryInv
<1>0. /\ u \in Task /\ KindOf(u) /\ task[u] \in TaskState /\ u \notin Room /\ u \notin Kicker
      /\ cur \in [User -> Room \cup {NoRoom}]
  BY RoomRegistryAssumption DEF Kinds, Tasks, Task, OtherTypes, RoomRegistryAssumption
<1>1. \A y \in User \ {u} : cur'[y] = cur[y]
  BY <1>0 DEF SessionStep, Reconcile, EnterRoomDetermine, EnterFromInside, UseRoom, LeaveRoom,
         EnterRow, LeaveRow, Cleanup, CleanupRow, Fail, Login, ResetLocal, sessionVars
<1>2. ASSUME NEW o, NEW q, Begin(u, o, q), q = cur[u], cur' = cur PROVE Kinds'
  BY <1>0, <1>1, <1>2, BeginIs, OneKind DEF KindOf
<1>3. ASSUME NEW p, Rest(u, p), p \in {"ready", "offline"} PROVE Kinds'
  BY <1>0, <1>1, <1>3, RestIs, OneKind DEF KindOf, NamesRoom
<1>4. ASSUME NEW o, TakeOut(u, o), o \in {"leave", "cleanup"}, cur' = cur PROVE Kinds'
  <2>1. CASE task' = [task EXCEPT ![u].pc = "row", ![u].op = o]
    <3>1. /\ task'[u].pc = "row" /\ task'[u].op = o /\ task'[u].targets = task[u].targets
          /\ \A y \in Task \ {u} : task'[y] = task[y]
      BY <1>0, <2>1 DEF Tasks, TaskState
    <3> QED BY <1>0, <1>1, <1>4, <3>1, OneKind DEF KindOf, NamesRoom
  <2> QED BY <1>2, <1>4, <2>1 DEF TakeOut
<1>5. CASE Reconcile(u) \/ \E r \in Room : EnterRoomDetermine(u, r)
  <2>1. task' = task /\ task[u].pc = "ready"
    BY <1>5 DEF Reconcile, EnterRoomDetermine, AtPacket, Pc
  <2> QED BY <1>0, <1>1, <2>1, OneKind DEF KindOf, NamesRoom
<1>6. CASE UseRoom(u) \/ \E r \in Room : EnterFromInside(u, r)
  BY <1>2, <1>6 DEF UseRoom, EnterFromInside, sessionVars
<1>7. CASE LeaveRoom(u) \/ Cleanup(u)
  BY <1>4, <1>7 DEF LeaveRoom, Cleanup, sessionVars
<1>8. CASE EnterRow(u) \/ LeaveRow(u) \/ CleanupRow(u) \/ Fail(u) \/ Login(u)
  BY <1>3, <1>8 DEF EnterRow, LeaveRow, CleanupRow, Fail, Login
<1> QED BY <1>5, <1>6, <1>7, <1>8 DEF SessionStep

\* A kick begins, or a cycle takes a copy of its own room.
LEMMA KickIs ==
  ASSUME RegistryInv, NEW k \in Kicker,
         (\E u \in User : KickUser(k, u)) \/ (\E r \in Room : KickLowerRanks(k, r))
  PROVE  /\ task[k].pc = "idle" /\ task'[k].pc = "fetch" /\ task'[k].op = "kick"
         /\ \A y \in Task \ {k} : task'[y] = task[y]
<1>1. k \in Task /\ task \in [Task -> TaskState] BY DEF Task, RegistryInv, Tasks
<1>2. PICK q, us : task' = [task EXCEPT ![k] = [AtRest("fetch") EXCEPT
                             !.op = "kick", !.at = q, !.targets = us]]
  BY DEF KickUser, KickLowerRanks
<1>3. task'[k] = [AtRest("fetch") EXCEPT !.op = "kick", !.at = q, !.targets = us]
  BY <1>1, <1>2
<1>4. task'[k].pc = "fetch" /\ task'[k].op = "kick" BY <1>3 DEF AtRest
<1>5. \A y \in Task \ {k} : task'[y] = task[y] BY <1>1, <1>2
<1> QED BY <1>4, <1>5 DEF KickUser, KickLowerRanks, Pc

LEMMA TickIs ==
  ASSUME RegistryInv, NEW r \in Room, CycleTick(r)
  PROVE  /\ task[r].pc = "sleep" /\ loaded[r] # NotLoaded /\ loaded[r] \in Copy
         /\ task'[r].pc \in {"remove", "count"} /\ task'[r].op = "cycle" /\ task'[r].at = r
         /\ task'[r].copy = Without(loaded[r], task'[r].targets)
         /\ task'[r].targets \subseteq Present(loaded[r])
         /\ \A y \in Task \ {r} : task'[y] = task[y]
<1>1. r \in Task /\ task \in [Task -> TaskState] BY DEF Task, RegistryInv, Tasks
<1>2. loaded[r] \in Copy BY DEF CycleTick, RegistryInv, Rooms
<1> DEFINE m == loaded[r]
<1>3. PICK out \in SUBSET Present(m) :
        task' = [task EXCEPT ![r] =
          [pc |-> IF out = Present(m) THEN "remove" ELSE "count", op |-> "cycle",
           at |-> r, copy |-> Without(m, out), targets |-> out]]
  BY DEF CycleTick
<1>4. task'[r] = [pc |-> IF out = Present(m) THEN "remove" ELSE "count", op |-> "cycle",
                  at |-> r, copy |-> Without(m, out), targets |-> out]
  BY <1>1, <1>3
<1>5. \A y \in Task \ {r} : task'[y] = task[y] BY <1>1, <1>3
<1> QED BY <1>2, <1>4, <1>5 DEF CycleTick, Pc

LEMMA KindsStep == RegistryInv /\ Kinds /\ [Next]_vars => Kinds'
<1> SUFFICES ASSUME RegistryInv, Kinds, [Next]_vars PROVE Kinds' OBVIOUS
<1>1. CASE \E t \in Task : TaskStep(t) BY <1>1, SharedKinds
<1>2. CASE \E u \in User : SessionStep(u) BY <1>2, SessionKinds
<1>3. ASSUME NEW k \in Kicker, \/ \E u \in User : KickUser(k, u)
                               \/ \E r \in Room : KickLowerRanks(k, r)
                               \/ KickFails(k)
      PROVE Kinds'
  <2>1. k \in Task /\ k \notin User /\ k \notin Room /\ cur' = cur /\ Tasks
    BY <1>3, RoomRegistryAssumption
    DEF RoomRegistryAssumption, Task, KickUser, KickLowerRanks, KickFails, sessionVars, RegistryInv
  <2>2. CASE KickFails(k)
    <3>1. Rest(k, "idle") BY <2>2 DEF KickFails
    <3> QED BY <2>1, <3>1, RestIs, OneKind DEF KindOf, Busy
  <2>3. CASE ~KickFails(k)
    <3>1. /\ task'[k].pc = "fetch" /\ task'[k].op = "kick"
          /\ \A y \in Task \ {k} : task'[y] = task[y]
      BY <1>3, <2>3, KickIs
    <3> QED BY <2>1, <3>1, OneKind DEF KindOf, Busy
  <2> QED BY <2>2, <2>3
<1>4. ASSUME NEW r \in Room, CycleTick(r) \/ CycleFindsNoRoom(r) \/ CycleEnds(r) PROVE Kinds'
  <2>1. r \in Task /\ r \notin User /\ r \notin Kicker /\ cur' = cur /\ Tasks
    BY <1>4, RoomRegistryAssumption
    DEF RoomRegistryAssumption, Task, CycleTick, CycleFindsNoRoom, CycleEnds, sessionVars, RegistryInv
  <2>2. CASE CycleTick(r)
    BY <2>1, <2>2, TickIs, OneKind DEF KindOf, Busy
  <2>3. CASE CycleFindsNoRoom(r) \/ CycleEnds(r)
    <3>1. Rest(r, "gone") \/ Rest(r, "none") BY <2>3 DEF CycleFindsNoRoom, CycleEnds
    <3> QED BY <2>1, <3>1, RestIs, OneKind DEF KindOf, Busy
  <2> QED BY <1>4, <2>2, <2>3
<1>5. CASE UNCHANGED vars
  BY <1>5 DEF vars, sessionVars, Kinds, KindOf
<1> QED BY <1>1, <1>2, <1>3, <1>4, <1>5 DEF Next
-----------------------------------------------------------------------------
(* What a task that has not been overtaken knows of its room               *)

\* Its copy is that of the table, less those it moves out, and with the one who enters.
Current(t) ==
  LET x == task[t]
      m == loaded[x.at]
  IN /\ x.pc \in {"count", "save", "remove"} =>
          /\ m # NotLoaded
          /\ \A u \in User : \/ x.copy[u] \in {NoUid, m[u]}
                             \/ u = t /\ x.op = "enter" /\ m[u] = NoUid
          /\ \A u \in x.targets : m[u] # NoUid /\ x.copy[u] = NoUid
          /\ x.op = "touch" => x.copy = m
     /\ x.pc = "zero" => m = NotLoaded
UpToDate == \A t \in Task \ stale : Current(t)

\* One task moves, and no room changes.
LEMMA OneStaysCurrent ==
  ASSUME UpToDate, NEW t \in Task, UNCHANGED loaded,
         \A y \in Task \ {t} : task'[y] = task[y] /\ (y \notin stale' => y \notin stale),
         t \notin stale' => Current(t)'
  PROVE  UpToDate'
<1> SUFFICES ASSUME NEW y \in Task, y \notin stale' PROVE Current(y)'
  BY DEF UpToDate
<1>1. CASE y = t BY <1>1
<1>2. CASE y # t BY <1>2 DEF UpToDate, Current
<1> QED BY <1>1, <1>2

\* One task writes its room: whoever holds a copy of that room is overtaken.
LEMMA OneOvertakes ==
  ASSUME UpToDate, NEW t \in Task, NEW r \in Room, WritesRoom(t, r),
         \A q \in Room \ {r} : loaded'[q] = loaded[q],
         \A y \in Task \ {t} : task'[y] = task[y] \/ task'[y].pc = "sleep",
         \A y \in Task : task[y].pc \in NamesRoom => task[y].at \in Room,
         t \notin stale' => Current(t)'
  PROVE  UpToDate'
<1> SUFFICES ASSUME NEW y \in Task, y \notin stale' PROVE Current(y)'
  BY DEF UpToDate
<1>1. CASE y = t BY <1>1
<1>2. CASE y # t /\ task'[y].pc = "sleep" BY <1>2 DEF Current
<1>3. CASE y # t /\ task'[y] = task[y]
  <2>1. y \notin stale BY <1>3 DEF WritesRoom
  <2>2. CASE task[y].pc \notin {"count", "save", "remove", "zero"} BY <1>3, <2>2 DEF Current
  <2>3. CASE task[y].pc \in {"count", "save", "remove", "zero"}
    <3>1. task[y].at \in Room \ {r}
      BY <1>3, <2>3 DEF WritesRoom, UsesCopy, Pc, NamesRoom
    <3>2. loaded'[task[y].at] = loaded[task[y].at] BY <3>1
    <3> QED BY <1>3, <2>1, <3>2 DEF UpToDate, Current
  <2> QED BY <2>2, <2>3
<1> QED BY <1>1, <1>2, <1>3

LEMMA SharedUpToDate ==
  ASSUME RegistryInv, Kinds, UpToDate, NEW t \in Task, TaskStep(t)
  PROVE  UpToDate'
<1> USE DEF RegistryInv
<1> DEFINE r == task[t].at
<1>0. KindOf(t) /\ \A y \in Task : task[y].pc \in NamesRoom => task[y].at \in Room
  BY DEF Tasks, GoodTask, Kinds
<1>1. ASSUME NEW m \in Copy, task[t].pc \in {"fetch", "load"}, task'[t] = WithCopy(t, m),
             t \notin stale' => loaded'[r] = m
      PROVE  t \notin stale' => Current(t)'
  <2>1. CASE task'[t] = AtRest("ready") \/ task'[t] = AtRest("idle")
    <3>1. task'[t].pc \notin {"count", "save", "remove", "zero"} BY <2>1 DEF AtRest
    <3> QED BY <3>1 DEF Current
  <2>2. CASE ~(task'[t] = AtRest("ready") \/ task'[t] = AtRest("idle"))
    <3>1. m # NotLoaded BY RoomIsNone
    <3> QED BY <1>0, <1>1, <2>2, <3>1, WithCopyIs DEF Current
  <2> QED BY <2>1, <2>2
<1>2. CASE FetchLoaded(t)
  <2>1. r \in Room /\ loaded[r] \in Copy /\ task[t].pc = "fetch"
    BY <1>0, <1>2 DEF FetchLoaded, Pc, Rooms, NamesRoom
  <2>2. task' = [task EXCEPT ![t] = WithCopy(t, loaded[r])] /\ UNCHANGED <<loaded, stale>>
    BY <1>2 DEF FetchLoaded, roomVars, raceVars
  <2>3. task'[t] = WithCopy(t, loaded[r]) /\ \A y \in Task \ {t} : task'[y] = task[y]
    BY <2>2 DEF Tasks
  <2> QED BY <1>1, <2>1, <2>2, <2>3, OneStaysCurrent
<1>3. CASE AddRoom(t)
  <2>1. task[t].pc = "load" /\ WritesRoom(t, r) /\ loaded' = [loaded EXCEPT ![r] = Empty]
    BY <1>3 DEF AddRoom, Pc
  <2>2. /\ r \in Room /\ r # t /\ task'[t] = WithCopy(t, Empty) /\ r \in Task
        /\ task'[r] = IF task[r].pc = "none" THEN [task[r] EXCEPT !.pc = "sleep"] ELSE task[r]
        /\ \A y \in Task \ {t, r} : task'[y] = task[y]
    BY <1>3, AddRoomIs DEF Task
  <2>3. loaded'[r] = Empty /\ \A q \in Room \ {r} : loaded'[q] = loaded[q]
    BY <2>1, <2>2 DEF Rooms
  <2>4. [task[r] EXCEPT !.pc = "sleep"].pc = "sleep" BY <2>2 DEF Tasks, TaskState
  <2>5. \A y \in Task \ {t} : task'[y] = task[y] \/ task'[y].pc = "sleep" BY <2>2, <2>4
  <2>6. t \notin stale' => Current(t)' BY <1>1, <2>1, <2>2, <2>3, EmptyGood
  <2> QED BY <1>0, <2>1, <2>2, <2>3, <2>5, <2>6, OneOvertakes
<1>4. CASE AddRoomTooLate(t)
  <2>1. task' = [task EXCEPT ![t] = WithCopy(t, Empty)] /\ UNCHANGED loaded /\ task[t].pc = "load"
        /\ stale' = IF task'[t].pc \in Busy THEN stale \cup {t} ELSE stale
    BY <1>4 DEF AddRoomTooLate, roomVars, Pc
  <2>2. task'[t] = WithCopy(t, Empty) /\ \A y \in Task \ {t} : task'[y] = task[y]
    BY <2>1 DEF Tasks
  <2>3. t \notin stale' => Current(t)' BY <2>1 DEF Current, Busy
  <2> QED BY <2>1, <2>2, <2>3, OneStaysCurrent
<1>5. CASE Count(t) \/ UpdateIgnored(t)
  <2>1. UNCHANGED <<loaded, stale>>
    BY <1>5 DEF Count, UpdateIgnored, roomVars, raceVars
  <2>2. CASE task[t].pc = "count" /\ Goto(t, "save")
    <3>1. /\ task'[t].pc = "save" /\ task'[t].op = task[t].op /\ task'[t].at = task[t].at
          /\ task'[t].copy = task[t].copy /\ task'[t].targets = task[t].targets
          /\ \A y \in Task \ {t} : task'[y] = task[y]
      BY <2>2, GotoIs
    <3>2. t \notin stale => Current(t)'
      BY <2>1, <2>2, <3>1 DEF Current, UpToDate
    <3> QED BY <2>1, <3>1, <3>2, OneStaysCurrent
  <2>3. CASE Goto(t, "row") \/ Rest(t, "gone")
    <3>1. task'[t].pc \in {"row", "gone"} /\ \A y \in Task \ {t} : task'[y] = task[y]
      BY <2>3, GotoIs, RestIs
    <3>2. Current(t)' BY <3>1 DEF Current
    <3> QED BY <2>1, <3>1, <3>2, OneStaysCurrent
  <2> QED BY <1>5, <2>2, <2>3 DEF Count, UpdateIgnored, AfterRemoval, Pc
<1>6. CASE SaveRoom(t) \/ RemoveRoom(t)
  <2>1. r \in Room BY <1>0, <1>6 DEF SaveRoom, RemoveRoom, Pc, NamesRoom
  <2>2. WritesRoom(t, r) /\ \A q \in Room \ {r} : loaded'[q] = loaded[q]
    BY <1>6 DEF SaveRoom, RemoveRoom, Rooms
  <2>3. \/ Rest(t, "ready") \/ Goto(t, "row") \/ Rest(t, "gone")
        \/ Goto(t, "zero") /\ loaded'[r] = NotLoaded
    BY <1>6, <2>1 DEF SaveRoom, RemoveRoom, AfterRemoval, Rooms
  <2>4. \/ task'[t].pc \in {"ready", "row", "gone"}
        \/ task'[t].pc = "zero" /\ task'[t].at = r /\ loaded'[r] = NotLoaded
    BY <2>3, GotoIs, RestIs
  <2>5. Current(t)' BY <2>4 DEF Current
  <2>6. \A y \in Task \ {t} : task'[y] = task[y] BY <2>3, GotoIs, RestIs
  <2> QED BY <1>0, <2>1, <2>2, <2>5, <2>6, OneOvertakes
<1>7. CASE \/ FetchAbsent(t) \/ ZeroVisitors(t) \/ RowsDone(t)
           \/ \E u \in User : ClearRow(t, u)
  <2>1. loaded' = loaded /\ \A y \in Task \ {t} : y \notin stale' => y \notin stale
    BY <1>7 DEF FetchAbsent, ZeroVisitors, RowsDone, ClearRow, roomVars, raceVars, WritesRow
  <2>2. \/ \E p \in {"ready", "gone", "sleep", "idle"} : Rest(t, p)
        \/ \E p \in {"load", "row"} : Goto(t, p)
        \/ task[t].pc = "row" /\ \E u \in User : task' = [task EXCEPT ![t].targets = @ \ {u}]
    BY <1>7 DEF FetchAbsent, ZeroVisitors, RowsDone, ClearRow, AfterRemoval, Pc
  <2>3. /\ task'[t].pc \notin {"count", "save", "remove", "zero"}
        /\ \A y \in Task \ {t} : task'[y] = task[y]
    BY <2>2 DEF Goto, Rest, AtRest, Tasks, TaskState
  <2>4. Current(t)' BY <2>3 DEF Current
  <2> QED BY <2>1, <2>3, <2>4, OneStaysCurrent
<1> QED BY <1>2, <1>3, <1>4, <1>5, <1>6, <1>7 DEF TaskStep

\* The packets of a session change no room, and leave it without a copy in hand.
LEMMA SessionIs ==
  ASSUME RegistryInv, NEW u \in User, SessionStep(u)
  PROVE  /\ u \in Task /\ UNCHANGED <<loaded, visitors, unspawned>>
         /\ \A y \in Task \ {u} : task'[y] = task[y] /\ (y \notin stale' => y \notin stale)
         /\ task'[u].pc \notin {"count", "save", "remove", "zero"}
         /\ task[u].pc \notin {"save", "remove"}
         /\ task[u].pc \in {"count", "zero"} => task[u].at \in broken'
<1> USE DEF RegistryInv
<1>1. u \in Task BY DEF Task
<1>2. /\ UNCHANGED <<loaded, visitors, unspawned>>
      /\ \A y \in Task \ {u} : y \notin stale' => y \notin stale
  BY DEF SessionStep, Reconcile, EnterRoomDetermine, EnterFromInside, UseRoom, LeaveRoom,
         EnterRow, LeaveRow, Cleanup, CleanupRow, Fail, Login, roomVars, raceVars, historyVars,
         WritesRow
<1>3. \/ task' = task /\ task[u].pc = "ready"
      \/ \E p \in {"ready", "offline"} : Rest(u, p)
      \/ \E o, q : Begin(u, o, q)
      \/ \E o : task' = [task EXCEPT ![u].pc = "row", ![u].op = o]
  <2>1. CASE Reconcile(u) \/ \E q \in Room : EnterRoomDetermine(u, q)
    BY <2>1 DEF Reconcile, EnterRoomDetermine, AtPacket, Pc
  <2>2. CASE UseRoom(u) \/ \E q \in Room : EnterFromInside(u, q)
    BY <2>2 DEF UseRoom, EnterFromInside
  <2>3. CASE LeaveRoom(u) \/ Cleanup(u)
    BY <2>3 DEF LeaveRoom, Cleanup, TakeOut
  <2>4. CASE EnterRow(u) \/ LeaveRow(u) \/ CleanupRow(u) \/ Fail(u) \/ Login(u)
    BY <2>4 DEF EnterRow, LeaveRow, CleanupRow, Fail, Login
  <2> QED BY <2>1, <2>2, <2>3, <2>4 DEF SessionStep
<1>4. /\ task'[u].pc \notin {"count", "save", "remove", "zero"}
      /\ \A y \in Task \ {u} : task'[y] = task[y]
  <2>1. CASE task' = task /\ task[u].pc = "ready" BY <2>1
  <2>2. CASE \E p \in {"ready", "offline"} : Rest(u, p) BY <1>1, <2>2, RestIs
  <2>3. CASE \E o, q : Begin(u, o, q) BY <1>1, <2>3, BeginIs
  <2>4. CASE \E o : task' = [task EXCEPT ![u].pc = "row", ![u].op = o]
    BY <1>1, <2>4 DEF Tasks, TaskState
  <2> QED BY <1>3, <2>1, <2>2, <2>3, <2>4
<1>5. /\ task[u].pc \notin {"save", "remove"}
      /\ task[u].pc \in {"count", "zero"} => task[u].at \in broken'
  BY DEF SessionStep, Reconcile, EnterRoomDetermine, EnterFromInside, UseRoom, LeaveRoom,
         EnterRow, LeaveRow, Cleanup, CleanupRow, Fail, Login, AtPacket, Pc, Miscounted
<1> QED BY <1>1, <1>2, <1>4, <1>5

\* Nor do the beginnings and ends of kicks and cycles, but that a cycle takes a copy.
LEMMA OthersIs ==
  ASSUME RegistryInv, NEW t \in Kicker \cup Room,
         \/ t \in Kicker /\ \/ \E u \in User : KickUser(t, u)
                            \/ \E r \in Room : KickLowerRanks(t, r)
                            \/ KickFails(t)
         \/ t \in Room /\ (CycleTick(t) \/ CycleFindsNoRoom(t) \/ CycleEnds(t))
  PROVE  /\ t \in Task /\ UNCHANGED <<loaded, visitors, unspawned, cur, uid, where>>
         /\ \A y \in Task \ {t} : task'[y] = task[y] /\ (y \notin stale' => y \notin stale)
         /\ task[t].pc \notin {"save", "remove"}
         /\ task[t].pc \in {"count", "zero"} => task[t].at \in broken'
         /\ \/ task'[t].pc \in {"fetch", "idle", "gone", "none"}
            \/ t \in Room /\ CycleTick(t)
<1>1. t \in Task /\ Tasks BY DEF Task, RegistryInv
<1>2. /\ UNCHANGED <<loaded, visitors, unspawned, cur, uid, where>>
      /\ \A y \in Task \ {t} : y \notin stale' => y \notin stale
      /\ task[t].pc \notin {"save", "remove"}
      /\ task[t].pc \in {"count", "zero"} => task[t].at \in broken'
  BY DEF KickUser, KickLowerRanks, KickFails, CycleTick, CycleFindsNoRoom, CycleEnds, roomVars,
         sessionVars, historyVars, raceVars, Miscounted, Pc
<1>3. CASE t \in Room /\ CycleTick(t)
  BY <1>1, <1>2, <1>3, TickIs
<1>4. CASE t \in Kicker /\ \/ \E u \in User : KickUser(t, u)
                           \/ \E r \in Room : KickLowerRanks(t, r)
  BY <1>1, <1>2, <1>4, KickIs
<1>5. CASE KickFails(t) \/ CycleFindsNoRoom(t) \/ CycleEnds(t)
  <2>1. \E p \in {"idle", "gone", "none"} : Rest(t, p)
    BY <1>5 DEF KickFails, CycleFindsNoRoom, CycleEnds
  <2>2. task'[t].pc \in {"idle", "gone", "none"} /\ \A y \in Task \ {t} : task'[y] = task[y]
    BY <1>1, <2>1, RestIs
  <2> QED BY <1>1, <1>2, <2>2
<1> QED BY <1>3, <1>4, <1>5

LEMMA SessionUpToDate ==
  ASSUME RegistryInv, UpToDate, NEW u \in User, SessionStep(u)
  PROVE  UpToDate'
<1>1. Current(u)' BY SessionIs DEF Current
<1> QED BY <1>1, SessionIs, OneStaysCurrent

LEMMA OthersUpToDate ==
  ASSUME RegistryInv, UpToDate, NEW t \in Kicker \cup Room,
         \/ t \in Kicker /\ \/ \E u \in User : KickUser(t, u)
                            \/ \E r \in Room : KickLowerRanks(t, r)
                            \/ KickFails(t)
         \/ t \in Room /\ (CycleTick(t) \/ CycleFindsNoRoom(t) \/ CycleEnds(t))
  PROVE  UpToDate'
<1>1. /\ t \in Task /\ UNCHANGED loaded
      /\ \A y \in Task \ {t} : task'[y] = task[y] /\ (y \notin stale' => y \notin stale)
      /\ task'[t].pc \in {"fetch", "idle", "gone", "none"} \/ (t \in Room /\ CycleTick(t))
  BY OthersIs
<1>2. CASE t \in Room /\ CycleTick(t)
  <2>1. /\ loaded'[task'[t].at] = loaded[t] /\ loaded[t] # NotLoaded /\ loaded[t] \in Copy
        /\ task'[t].pc \in {"remove", "count"} /\ task'[t].op = "cycle"
        /\ task'[t].targets \subseteq Present(loaded[t])
        /\ task'[t].copy = Without(loaded[t], task'[t].targets)
    BY <1>1, <1>2, TickIs
  <2>2. \A u \in User : task'[t].copy[u] = IF u \in task'[t].targets THEN NoUid ELSE loaded[t][u]
    BY <2>1 DEF Without
  <2>3. \A u \in task'[t].targets : u \in User /\ loaded[t][u] # NoUid BY <2>1 DEF Present
  <2>4. Current(t)' BY <2>1, <2>2, <2>3 DEF Current
  <2> QED BY <1>1, <2>4, OneStaysCurrent
<1>3. CASE task'[t].pc \in {"fetch", "idle", "gone", "none"}
  <2>1. Current(t)' BY <1>3 DEF Current
  <2> QED BY <1>1, <2>1, OneStaysCurrent
<1> QED BY <1>1, <1>2, <1>3

LEMMA UpToDateStep == RegistryInv /\ Kinds /\ UpToDate /\ [Next]_vars => UpToDate'
<1> SUFFICES ASSUME RegistryInv, Kinds, UpToDate, [Next]_vars PROVE UpToDate' OBVIOUS
<1>1. CASE \E t \in Task : TaskStep(t) BY <1>1, SharedUpToDate
<1>2. CASE \E u \in User : SessionStep(u) BY <1>2, SessionUpToDate
<1>3. CASE \E k \in Kicker : \/ \E u \in User : KickUser(k, u)
                             \/ \E r \in Room : KickLowerRanks(k, r)
                             \/ KickFails(k)
  BY <1>3, OthersUpToDate
<1>4. CASE \E r \in Room : CycleTick(r) \/ CycleFindsNoRoom(r) \/ CycleEnds(r)
  BY <1>4, OthersUpToDate
<1>5. CASE UNCHANGED vars
  BY <1>5 DEF vars, roomVars, raceVars, UpToDate, Current
<1> QED BY <1>1, <1>2, <1>3, <1>4, <1>5 DEF Next

-----------------------------------------------------------------------------
(* A loaded room has a cycle                                               *)

\* What has gone wrong stays so.
LEMMA Remembered ==
  ASSUME OtherTypes, [Next]_vars
  PROVE  (overtaken => overtaken') /\ broken \subseteq broken'
BY DEF OtherTypes, Next, TaskStep, SessionStep, FetchLoaded, FetchAbsent, AddRoom, AddRoomTooLate, Count,
       SaveRoom, RemoveRoom, ZeroVisitors, UpdateIgnored, RowsDone, ClearRow, Reconcile,
       EnterRoomDetermine, EnterFromInside, UseRoom, LeaveRoom, EnterRow, LeaveRow, Cleanup,
       CleanupRow, Fail, Login, KickUser, KickLowerRanks, KickFails, CycleTick,
       CycleFindsNoRoom, CycleEnds, vars, historyVars, raceVars, WritesRoom, WritesRow

Dead == {"none", "gone", "zero"}

LEMMA SharedLives ==
  ASSUME RegistryInv, Kinds, UpToDate, CycleRuns, NEW t \in Task, TaskStep(t), ~overtaken,
         NEW r \in Room, ~overtaken', loaded'[r] # NotLoaded, r \notin unspawned'
  PROVE  task'[r].pc \notin Dead
<1> USE DEF RegistryInv
<1>0. /\ r \in Task /\ KindOf(r) /\ KindOf(t)
      /\ loaded[r] # NotLoaded /\ r \notin unspawned => task[r].pc \notin Dead
  BY DEF Task, Kinds, CycleRuns, Dead, Pc
<1>1. CASE AddRoom(t)
  <2> DEFINE q == task[t].at
  <2>1. /\ q \in Room /\ q # t
        /\ task'[q] = IF task[q].pc = "none" THEN [task[q] EXCEPT !.pc = "sleep"] ELSE task[q]
        /\ \A y \in Task \ {t, q} : task'[y] = task[y]
    BY <1>1, AddRoomIs
  <2>2. /\ loaded' = [loaded EXCEPT ![q] = Empty] /\ task[t].pc = "load"
        /\ unspawned' = IF task[q].pc \in {"zero", "gone"} THEN unspawned \cup {q} ELSE unspawned \ {q}
    BY <1>1 DEF AddRoom, Pc
  <2>3. t \notin Room BY <1>0, <2>2 DEF KindOf
  <2>4. [task[r] EXCEPT !.pc = "sleep"].pc = "sleep" BY <1>0 DEF Tasks, TaskState
  <2>5. CASE r = q BY <2>1, <2>2, <2>4, <2>5 DEF Dead
  <2>6. CASE r # q
    <3>1. loaded'[r] = loaded[r] /\ (r \notin unspawned' => r \notin unspawned)
      BY <2>2, <2>6 DEF Rooms
    <3> QED BY <1>0, <2>1, <2>3, <2>6, <3>1
  <2> QED BY <2>5, <2>6
<1>2. CASE ~AddRoom(t)
  <2>1. unspawned' = unspawned
    BY <1>2 DEF TaskStep, FetchLoaded, FetchAbsent, AddRoomTooLate, Count, SaveRoom,
       RemoveRoom, ZeroVisitors, UpdateIgnored, RowsDone, ClearRow, historyVars
  <2>2. loaded[r] # NotLoaded
    <3>1. CASE SaveRoom(t)
      <4>1. t \notin stale /\ task[t].pc = "save" /\ loaded' = [loaded EXCEPT ![task[t].at] = task[t].copy]
        BY <3>1 DEF SaveRoom, WritesRoom, Pc
      <4>2. loaded[task[t].at] # NotLoaded BY <4>1 DEF UpToDate, Current
      <4> QED BY <4>1, <4>2 DEF Rooms
    <3>2. CASE RemoveRoom(t) BY <3>2 DEF RemoveRoom, Rooms
    <3>3. CASE ~SaveRoom(t) /\ ~RemoveRoom(t)
      BY <1>2, <3>3 DEF TaskStep, FetchLoaded, FetchAbsent, AddRoomTooLate, Count,
         ZeroVisitors, UpdateIgnored, RowsDone, ClearRow, roomVars
    <3> QED BY <3>1, <3>2, <3>3
  <2>3. task[r].pc \notin Dead BY <1>0, <2>1, <2>2
  <2>4. CASE t # r
    <3>1. \/ \E p : Rest(t, p) \/ Goto(t, p)
          \/ \E x : task' = [task EXCEPT ![t] = x]
          \/ \E u \in User : task' = [task EXCEPT ![t].targets = @ \ {u}]
      BY <1>2 DEF TaskStep, FetchLoaded, FetchAbsent, AddRoomTooLate, Count, SaveRoom,
         RemoveRoom, ZeroVisitors, UpdateIgnored, RowsDone, ClearRow, AfterRemoval
    <3>2. task'[r] = task[r]
      BY <1>0, <2>4, <3>1 DEF Rest, Goto, Tasks
    <3> QED BY <2>3, <3>2
  <2>5. CASE t = r
    <3>1. task[r].pc \notin {"fetch", "load", "zero"} BY <1>0, <2>3 DEF KindOf, Dead
    <3>2. ~RemoveRoom(r)
      BY <1>0 DEF RemoveRoom, KindOf, Busy, Pc, Rooms
    <3>3. \/ \E p \in {"save", "row"} : Goto(r, p)
          \/ \E p \in {"sleep", "ready", "idle"} : Rest(r, p)
          \/ \E u \in User : ClearRow(r, u)
      BY <1>2, <2>5, <3>1, <3>2 DEF TaskStep, FetchLoaded, FetchAbsent, AddRoomTooLate,
         Count, SaveRoom, ZeroVisitors, UpdateIgnored, RowsDone, Pc
    <3>4. CASE \E u \in User : ClearRow(r, u)
      <4>1. task'[r].pc = task[r].pc BY <1>0, <3>4 DEF ClearRow, Tasks, TaskState
      <4> QED BY <2>3, <4>1
    <3> QED BY <1>0, <3>3, <3>4, RestIs, GotoIs DEF Dead
  <2> QED BY <2>4, <2>5
<1> QED BY <1>1, <1>2

LEMMA CycleRunsStep == RegistryInv /\ Kinds /\ UpToDate /\ CycleRuns /\ [Next]_vars => CycleRuns'
<1> SUFFICES ASSUME RegistryInv, Kinds, UpToDate, CycleRuns, [Next]_vars, ~overtaken',
                    NEW r \in Room, loaded'[r] # NotLoaded, r \notin unspawned'
             PROVE  task'[r].pc \notin Dead
  BY DEF CycleRuns, Pc, Dead
<1>0. ~overtaken /\ r \in Task BY Remembered DEF RegistryInv, Task
<1>1. CASE \E t \in Task : TaskStep(t) BY <1>0, <1>1, SharedLives
<1>2. CASE \E u \in User : SessionStep(u)
  <2>1. task'[r] = task[r] /\ loaded' = loaded /\ unspawned' = unspawned
    BY <1>0, <1>2, SessionIs, RoomRegistryAssumption DEF RoomRegistryAssumption
  <2> QED BY <1>0, <2>1 DEF CycleRuns, Pc, Dead
<1>3. CASE \E k \in Kicker : \/ \E u \in User : KickUser(k, u)
                             \/ \E q \in Room : KickLowerRanks(k, q)
                             \/ KickFails(k)
  <2>1. task'[r] = task[r] /\ loaded' = loaded /\ unspawned' = unspawned
    BY <1>0, <1>3, OthersIs, RoomRegistryAssumption DEF RoomRegistryAssumption
  <2> QED BY <1>0, <2>1 DEF CycleRuns, Pc, Dead
<1>4. ASSUME NEW q \in Room, CycleTick(q) \/ CycleFindsNoRoom(q) \/ CycleEnds(q)
      PROVE  task'[r].pc \notin Dead
  <2>1. loaded' = loaded /\ unspawned' = unspawned /\ (q # r => task'[r] = task[r])
    BY <1>0, <1>4, OthersIs
  <2>2. task[r].pc \notin Dead BY <1>0, <2>1 DEF CycleRuns, Pc, Dead
  <2>3. CASE q = r
    <3>1. CycleTick(r) BY <1>4, <2>1, <2>2, <2>3 DEF CycleFindsNoRoom, CycleEnds, Pc, Dead
    <3> QED BY <3>1, TickIs DEF Dead
  <2> QED BY <2>1, <2>2, <2>3
<1>5. CASE UNCHANGED vars
  BY <1>0, <1>5 DEF vars, roomVars, historyVars, CycleRuns, Pc, Dead
<1> QED BY <1>1, <1>2, <1>3, <1>4, <1>5 DEF Next

\* The beginning.
LEMMA CycleRunsInit == Init => Kinds /\ UpToDate /\ CycleRuns
<1> SUFFICES ASSUME Init PROVE Kinds /\ UpToDate /\ CycleRuns OBVIOUS
<1>1. \A t \in Task : /\ task[t].pc \in {"ready", "idle", "none"} /\ task[t].targets = {}
                      /\ t \in Kicker => task[t].pc = "idle"
                      /\ t \in Room => task[t].pc = "none"
  BY TasksApart, RoomRegistryAssumption DEF Init, AtRest, RoomRegistryAssumption
<1>2. Kinds BY <1>1 DEF Kinds, KindOf, NamesRoom, Busy
<1>3. UpToDate BY <1>1 DEF UpToDate, Current
<1>4. CycleRuns BY DEF Init, CycleRuns
<1> QED BY <1>2, <1>3, <1>4

\* What every step keeps about the tasks.
TasksInv == RegistryInv /\ Kinds /\ UpToDate

LEMMA TasksInvHolds == Spec => []TasksInv
<1>1. Init => TasksInv BY RegistryInit, CycleRunsInit DEF TasksInv
<1>2. TasksInv /\ [Next]_vars => TasksInv'
  BY RegistryStep, KindsStep, UpToDateStep DEF TasksInv
<1> QED BY <1>1, <1>2, PTL DEF Spec

\* Unless a write has been overtaken, a loaded room has a live cycle: add_room starts
\* one, and the one that drops a room leaves the table without it.
THEOREM CyclesRun == Spec => []CycleRuns
<1>1. Init => CycleRuns BY CycleRunsInit
<1>2. TasksInv /\ CycleRuns /\ [Next]_vars => CycleRuns' BY CycleRunsStep DEF TasksInv
<1> QED BY <1>1, <1>2, TasksInvHolds, PTL DEF Spec

-----------------------------------------------------------------------------
(* The visitor count                                                       *)

\* The operations that are about to write room r.
AtEnd(t, r) == task[t].pc \in {"save", "remove", "zero"} /\ task[t].at = r
Saves(t, r) == task[t].pc = "save" /\ task[t].at = r
Zeroes(t, r) == task[t].pc = "zero" /\ task[t].at = r

\* One that was overtaken, and will be the next to overtake.
Doomed(r) == \E t \in Task : t \in stale /\ AtEnd(t, r)
Seen(r) == IF loaded[r] = NotLoaded THEN 0 ELSE Cardinality(Present(loaded[r]))
NoneSaves(r) == \A t \in Task : t \notin stale => ~Saves(t, r)
\* The count is that of the room, or a task that will make it so is under way: it
\* has counted its copy and will save it, or has dropped the room and will write 0.
CountedAt(r) ==
  \/ Doomed(r)
  \/ \E t \in Task : t \notin stale /\ Saves(t, r) /\ visitors[r] = Cardinality(Present(task[t].copy))
  \/ NoneSaves(r) /\ visitors[r] = Seen(r)
  \/ NoneSaves(r) /\ \E t \in Task : t \notin stale /\ Zeroes(t, r)
Counted == ~overtaken => \A r \in Room \ broken : CountedAt(r)

\* A step that touches neither the room nor its count.
LEMMA CountKept ==
  ASSUME NEW r \in Room, CountedAt(r), NEW t \in Task, ~AtEnd(t, r), ~Saves(t, r)' \/ t \in stale',
         loaded'[r] = loaded[r], visitors'[r] = visitors[r],
         \A y \in Task \ {t} : /\ \/ task'[y] = task[y]
                                  \/ task[y].pc = "none" /\ task'[y].pc = "sleep"
                               /\ y \in stale => y \in stale'
  PROVE  CountedAt(r)'
<1>1. CASE Doomed(r) BY <1>1 DEF Doomed, AtEnd, CountedAt
<1>2. CASE \E y \in Task : y \notin stale /\ Saves(y, r) /\ visitors[r] = Cardinality(Present(task[y].copy))
  BY <1>2 DEF CountedAt, Doomed, AtEnd, Saves
<1>3. CASE NoneSaves(r) /\ visitors[r] = Seen(r)
  BY <1>3 DEF CountedAt, NoneSaves, Saves, Seen
<1>4. CASE NoneSaves(r) /\ \E y \in Task : y \notin stale /\ Zeroes(y, r)
  BY <1>4 DEF CountedAt, NoneSaves, Saves, Zeroes, Doomed, AtEnd
<1> QED BY <1>1, <1>2, <1>3, <1>4 DEF CountedAt

\* A task that has not been overtaken writes the room: the others are overtaken.
LEMMA EndsOvertake ==
  ASSUME NEW t \in Task, NEW r \in Room, WritesRoom(t, r),
         NEW y \in Task \ {t}, AtEnd(y, r)
  PROVE  y \in stale'
BY DEF WritesRoom, AtEnd, UsesCopy, Pc

\* Whoever saves has counted; whoever drops a room will write 0; whoever is late is doomed.
LEMMA SharedCounted ==
  ASSUME TasksInv, Counted, NEW t \in Task, TaskStep(t), ~overtaken, ~overtaken',
         NEW r \in Room, r \notin broken, r \notin broken'
  PROVE  CountedAt(r)'
<1> USE DEF TasksInv, RegistryInv
<1> DEFINE q == task[t].at
           x == task[t]
<1>0. CountedAt(r) /\ KindOf(t) /\ x \in TaskState /\ (t \notin stale => Current(t))
  BY DEF Counted, Kinds, Tasks, UpToDate
<1>1. CASE FetchLoaded(t)
  <2>1. /\ x.pc = "fetch" /\ q \in Room /\ loaded[q] \in Copy
        /\ task'[t] = WithCopy(t, loaded[q]) /\ \A y \in Task \ {t} : task'[y] = task[y]
        /\ UNCHANGED <<loaded, visitors, stale>>
    BY <1>1 DEF FetchLoaded, Pc, Rooms, NamesRoom, Tasks, GoodTask, roomVars, raceVars
  <2>2. Saves(t, r)' => task'[t].copy = loaded[r] /\ q = r
    <3>1. ASSUME Saves(t, r)' PROVE task'[t] # AtRest("ready") /\ task'[t] # AtRest("idle")
      BY <3>1 DEF Saves, AtRest
    <3> QED BY <1>0, <2>1, <3>1, WithCopyIs DEF Saves
  <2>3. CASE ~Saves(t, r)'
    <3>1. ~AtEnd(t, r) BY <2>1 DEF AtEnd
    <3> QED BY <1>0, <2>1, <2>3, <3>1, CountKept
  <2>4. CASE Saves(t, r)'
    <3>1. CASE Doomed(r) BY <2>1, <3>1 DEF Doomed, AtEnd, CountedAt
    <3>2. CASE \E y \in Task : y \notin stale /\ Saves(y, r) /\ visitors[r] = Cardinality(Present(task[y].copy))
      BY <2>1, <3>2 DEF Saves, CountedAt
    <3>3. CASE NoneSaves(r) /\ visitors[r] = Seen(r)
      <4>1. loaded[r] # NotLoaded BY <2>1, <2>2, <2>4, RoomIsNone
      <4>2. t \notin stale \/ Doomed(r)' BY <2>1, <2>4 DEF Doomed, AtEnd, Saves
      <4> QED BY <2>1, <2>2, <2>4, <3>3, <4>1, <4>2 DEF CountedAt, Seen
    <3>4. CASE NoneSaves(r) /\ \E y \in Task : y \notin stale /\ Zeroes(y, r)
      BY <2>1, <2>2, <2>4, <3>4, RoomIsNone DEF UpToDate, Current, Zeroes
    <3> QED BY <1>0, <3>1, <3>2, <3>3, <3>4 DEF CountedAt
  <2> QED BY <2>3, <2>4
<1>2. CASE AddRoom(t)
  <2>1. /\ x.pc = "load" /\ WritesRoom(t, q) /\ loaded[q] = NotLoaded
        /\ q \in Room /\ q # t /\ task'[t] = WithCopy(t, Empty)
        /\ loaded'[q] = Empty /\ UNCHANGED visitors
        /\ \A p \in Room \ {q} : loaded'[p] = loaded[p]
    BY <1>2, AddRoomIs DEF AddRoom, Pc, Rooms
  <2>2. \A y \in Task \ {t} : /\ \/ task'[y] = task[y]
                                 \/ task[y].pc = "none" /\ task'[y].pc = "sleep"
                              /\ y \in stale => y \in stale'
    <3>1. /\ task'[q] = IF task[q].pc = "none" THEN [task[q] EXCEPT !.pc = "sleep"] ELSE task[q]
          /\ \A y \in Task \ {t, q} : task'[y] = task[y]
      BY <1>2, AddRoomIs
    <3>2. q \in Task /\ [task[q] EXCEPT !.pc = "sleep"].pc = "sleep"
      BY <2>1 DEF Tasks, TaskState, Task
    <3>3. \A y \in Task \ {t} : y \in stale => y \in stale' BY <2>1 DEF WritesRoom
    <3> QED BY <3>1, <3>2, <3>3
  <2>3. task'[t].pc = "save" => task'[t].copy = Empty /\ task'[t].at = q
    <3>1. ASSUME task'[t].pc = "save" PROVE task'[t] # AtRest("ready") /\ task'[t] # AtRest("idle")
      BY <3>1 DEF AtRest
    <3> QED BY <1>0, <2>1, <3>1, WithCopyIs, EmptyGood
  <2>4. CASE q # r \/ Doomed(r)
    <3>1. ~AtEnd(t, r) BY <2>1 DEF AtEnd
    <3>2. CASE q # r
      <4>1. ~Saves(t, r)' BY <2>3, <3>2 DEF Saves
      <4> QED BY <1>0, <2>1, <2>2, <3>1, <3>2, <4>1, CountKept
    <3>3. CASE Doomed(r) BY <2>2, <3>1, <3>3 DEF Doomed, AtEnd, CountedAt
    <3> QED BY <2>4, <3>2, <3>3
  <2>5. CASE q = r /\ ~Doomed(r)
    <3>1. NoneSaves(r) BY <2>1, <2>5 DEF UpToDate, Current, NoneSaves, Saves
    <3>2. CASE \E y \in Task : y \notin stale /\ Zeroes(y, r)
      <4>1. PICK y \in Task : y \notin stale /\ Zeroes(y, r) BY <3>2
      <4>2. y # t /\ AtEnd(y, r) BY <2>1, <4>1 DEF Zeroes, AtEnd
      <4>3. y \in stale' BY <2>1, <2>5, <4>2, EndsOvertake
      <4>4. task'[y] = task[y] BY <2>2, <4>1, <4>2 DEF Zeroes
      <4> QED BY <4>2, <4>3, <4>4 DEF CountedAt, Doomed, AtEnd
    <3>3. CASE visitors[r] = Seen(r)
      <4>1. Present(Empty) = {} BY DEF Present, Empty
      <4>2. Cardinality(Present(Empty)) = 0 BY <4>1, FS_EmptySet
      <4>3. visitors'[r] = 0 BY <2>1, <2>5, <3>3 DEF Seen
      <4>4. Empty # NotLoaded BY EmptyGood, RoomIsNone
      <4>5. Seen(r)' = 0 BY <2>1, <2>5, <4>2, <4>4 DEF Seen
      <4>6. t \notin stale' BY <2>1 DEF WritesRoom
      <4>7. CASE Saves(t, r)'
        <5>1. task'[t].copy = Empty BY <2>3, <4>7 DEF Saves
        <5> QED BY <4>2, <4>3, <4>6, <4>7, <5>1 DEF CountedAt
      <4>8. CASE ~Saves(t, r)'
        <5>1. NoneSaves(r)' BY <2>2, <3>1, <4>8 DEF NoneSaves, Saves
        <5> QED BY <4>3, <4>5, <5>1 DEF CountedAt
      <4> QED BY <4>7, <4>8
    <3> QED BY <1>0, <2>5, <3>1, <3>2, <3>3 DEF CountedAt, NoneSaves
  <2> QED BY <2>4, <2>5
<1>3. CASE AddRoomTooLate(t)
  <2>1. /\ x.pc = "load" /\ UNCHANGED <<loaded, visitors>>
        /\ task'[t].pc \in Busy => t \in stale'
        /\ \A y \in Task \ {t} : task'[y] = task[y] /\ (y \in stale => y \in stale')
    BY <1>3 DEF AddRoomTooLate, Pc, roomVars, Tasks
  <2>2. ~AtEnd(t, r) /\ (~Saves(t, r)' \/ t \in stale') BY <2>1 DEF AtEnd, Saves, Busy
  <2> QED BY <1>0, <2>1, <2>2, CountKept
<1>4. CASE Count(t)
  <2>1. /\ x.pc = "count" /\ UNCHANGED <<loaded, stale>>
        /\ visitors' = [visitors EXCEPT ![q] = Cardinality(Present(x.copy))]
        /\ Goto(t, "save") /\ q \in Room
    BY <1>4 DEF Count, Pc, roomVars, raceVars, Tasks, GoodTask, NamesRoom
  <2>2. /\ task'[t].pc = "save" /\ task'[t].at = q /\ task'[t].copy = x.copy
        /\ \A y \in Task \ {t} : task'[y] = task[y]
    BY <2>1, GotoIs
  <2>3. CASE q # r
    <3>1. visitors'[r] = visitors[r] BY <2>1, <2>3 DEF OtherTypes
    <3>2. ~AtEnd(t, r) /\ ~Saves(t, r)' BY <2>2, <2>3 DEF AtEnd, Saves
    <3> QED BY <1>0, <2>1, <2>2, <3>1, <3>2, CountKept
  <2>4. CASE q = r
    <3>1. visitors'[r] = Cardinality(Present(x.copy)) BY <2>1, <2>4 DEF OtherTypes
    <3>2. CASE t \in stale BY <2>1, <2>2, <2>4, <3>2 DEF CountedAt, Doomed, AtEnd
    <3>3. CASE t \notin stale BY <2>1, <2>2, <2>4, <3>1, <3>3 DEF CountedAt, Saves
    <3> QED BY <3>2, <3>3
  <2> QED BY <2>3, <2>4
<1>5. CASE SaveRoom(t) \/ RemoveRoom(t)
  <2>1. /\ x.pc \in {"save", "remove"} /\ WritesRoom(t, q) /\ q \in Room /\ UNCHANGED visitors
        /\ t \notin stale /\ t \notin stale'
        /\ \A p \in Room \ {q} : loaded'[p] = loaded[p]
    BY <1>0, <1>5 DEF SaveRoom, RemoveRoom, Pc, Tasks, GoodTask, NamesRoom, WritesRoom, Rooms
  <2>2. loaded[q] # NotLoaded BY <1>0, <2>1 DEF Current
  <2>3. \/ SaveRoom(t) /\ loaded'[q] = x.copy /\ (Rest(t, "ready") \/ Goto(t, "row"))
        \/ RemoveRoom(t) /\ loaded'[q] = NotLoaded /\ Goto(t, "zero")
    BY <1>5, <2>1, <2>2 DEF SaveRoom, RemoveRoom, Rooms
  <2>4. /\ \/ SaveRoom(t) /\ loaded'[q] = x.copy /\ task'[t].pc \in {"ready", "row"}
           \/ RemoveRoom(t) /\ loaded'[q] = NotLoaded /\ task'[t].pc = "zero" /\ task'[t].at = q
        /\ \A y \in Task \ {t} : task'[y] = task[y]
    BY <2>3, RestIs, GotoIs
  <2>5. \A y \in Task \ {t} : y \in stale => y \in stale' BY <2>1 DEF WritesRoom
  <2>6. ~Saves(t, r)' BY <2>4 DEF Saves
  <2>7. CASE q # r
    <3>1. ~AtEnd(t, r) BY <2>7 DEF AtEnd
    <3> QED BY <1>0, <2>1, <2>4, <2>5, <2>6, <2>7, <3>1, CountKept
  <2>8. CASE q = r
    <3>1. CASE Doomed(r) BY <2>1, <2>4, <2>5, <3>1 DEF Doomed, AtEnd, CountedAt
    <3>2. CASE \E y \in Task \ {t} : AtEnd(y, r)
      BY <2>1, <2>4, <2>8, <3>2, EndsOvertake DEF CountedAt, Doomed, AtEnd
    <3>3. CASE ~Doomed(r) /\ ~\E y \in Task \ {t} : AtEnd(y, r)
      <4>1. NoneSaves(r)' BY <2>4, <2>6, <3>3 DEF NoneSaves, Saves, AtEnd
      <4>2. CASE RemoveRoom(t)
        <5>1. task[t].pc = "remove" BY <4>2 DEF RemoveRoom, Pc
        <5>2. task'[t].pc = "zero" /\ task'[t].at = q BY <2>4, <5>1 DEF SaveRoom, Pc
        <5> QED BY <2>1, <2>8, <4>1, <5>2 DEF CountedAt, Zeroes
      <4>3. CASE SaveRoom(t)
        <5>1. task[t].pc = "save" /\ loaded'[q] = x.copy
          BY <2>4, <4>3 DEF SaveRoom, RemoveRoom, Pc
        <5>2. visitors[r] = Cardinality(Present(x.copy))
          BY <1>0, <2>1, <2>8, <3>3, <5>1 DEF CountedAt, NoneSaves, Saves, AtEnd
        <5>3. x.copy # NotLoaded BY <1>0, RoomIsNone DEF TaskState
        <5> QED BY <2>1, <2>8, <4>1, <5>1, <5>2, <5>3 DEF CountedAt, Seen
      <4> QED BY <1>5, <4>2, <4>3
    <3> QED BY <3>1, <3>2, <3>3
  <2> QED BY <2>7, <2>8
<1>6. CASE ZeroVisitors(t)
  <2>1. /\ x.pc = "zero" /\ t \notin stale /\ UNCHANGED loaded /\ q \in Room
        /\ visitors' = [visitors EXCEPT ![q] = 0] /\ stale' = stale \ {t}
        /\ Rest(t, "gone") \/ Goto(t, "row")
    BY <1>6 DEF ZeroVisitors, AfterRemoval, Pc, Tasks, GoodTask, NamesRoom
  <2>2. task'[t].pc \in {"row", "gone"} /\ \A y \in Task \ {t} : task'[y] = task[y]
    BY <2>1, RestIs, GotoIs
  <2>3. CASE q # r
    <3>1. ~AtEnd(t, r) /\ ~Saves(t, r)' /\ visitors'[r] = visitors[r]
      BY <2>1, <2>2, <2>3 DEF AtEnd, Saves, OtherTypes
    <3> QED BY <1>0, <2>1, <2>2, <3>1, CountKept
  <2>4. CASE q = r
    <3>1. loaded[r] = NotLoaded BY <1>0, <2>1, <2>4 DEF Current
    <3>2. visitors'[r] = 0 /\ Seen(r)' = 0 BY <2>1, <2>4, <3>1 DEF OtherTypes, Seen
    <3>3. NoneSaves(r)' BY <2>1, <2>2, <3>1 DEF UpToDate, Current, NoneSaves, Saves
    <3> QED BY <3>2, <3>3 DEF CountedAt
  <2> QED BY <2>3, <2>4
<1>7. CASE UpdateIgnored(t)
  <2>1. /\ x.pc \in {"count", "zero"} /\ q \in broken' /\ UNCHANGED <<loaded, visitors, stale>>
        /\ Goto(t, "save") \/ Rest(t, "gone") \/ Goto(t, "row")
    BY <1>7 DEF UpdateIgnored, AfterRemoval, Pc, Miscounted, roomVars, raceVars
  <2>2. /\ task'[t].pc = "save" => task'[t].at = q
        /\ \A y \in Task \ {t} : task'[y] = task[y]
    BY <2>1, RestIs, GotoIs
  <2>3. ~AtEnd(t, r) /\ ~Saves(t, r)' BY <2>1, <2>2 DEF AtEnd, Saves
  <2> QED BY <1>0, <2>1, <2>2, <2>3, CountKept
<1>8. CASE FetchAbsent(t) \/ RowsDone(t) \/ \E u \in User : ClearRow(t, u)
  <2>1. /\ x.pc \in {"fetch", "row"} /\ UNCHANGED <<loaded, visitors>>
        /\ \A y \in Task \ {t} : y \in stale => y \in stale'
    BY <1>8 DEF FetchAbsent, RowsDone, ClearRow, roomVars, raceVars, Pc, WritesRow
  <2>2. \/ \E p \in {"ready", "sleep", "idle"} : Rest(t, p)
        \/ Goto(t, "load")
        \/ task[t].pc = "row" /\ \E u \in User : task' = [task EXCEPT ![t].targets = @ \ {u}]
    BY <1>8 DEF FetchAbsent, RowsDone, ClearRow, Pc
  <2>3. task'[t].pc # "save" /\ \A y \in Task \ {t} : task'[y] = task[y]
    BY <2>2 DEF Goto, Rest, AtRest, Tasks, TaskState
  <2>4. ~AtEnd(t, r) /\ ~Saves(t, r)' BY <2>1, <2>3 DEF AtEnd, Saves
  <2> QED BY <1>0, <2>1, <2>3, <2>4, CountKept
<1> QED BY <1>1, <1>2, <1>3, <1>4, <1>5, <1>6, <1>7, <1>8 DEF TaskStep

LEMMA CountedStep == TasksInv /\ Counted /\ [Next]_vars => Counted'
<1> SUFFICES ASSUME TasksInv, Counted, [Next]_vars, ~overtaken', NEW r \in Room, r \notin broken'
             PROVE  CountedAt(r)'
  BY DEF Counted
<1> USE DEF TasksInv, RegistryInv
<1>0. ~overtaken /\ r \notin broken BY Remembered
<1>1. CASE \E t \in Task : TaskStep(t) BY <1>0, <1>1, SharedCounted
<1>2. CASE \E u \in User : SessionStep(u)
  <2>1. PICK u \in User : SessionStep(u) BY <1>2
  <2>2. ~AtEnd(u, r) /\ ~Saves(u, r)' BY <2>1, SessionIs DEF AtEnd, Saves
  <2> QED BY <1>0, <2>1, <2>2, SessionIs, CountKept DEF Counted
<1>3. ASSUME NEW t \in Kicker \cup Room,
             \/ t \in Kicker /\ \/ \E u \in User : KickUser(t, u)
                                \/ \E q \in Room : KickLowerRanks(t, q)
                                \/ KickFails(t)
             \/ t \in Room /\ (CycleTick(t) \/ CycleFindsNoRoom(t) \/ CycleEnds(t))
      PROVE  CountedAt(r)'
  <2>1. ~AtEnd(t, r) BY <1>3, OthersIs DEF AtEnd
  <2>2. ~Saves(t, r)' BY <1>3, OthersIs, TickIs DEF Saves
  <2>3. t \in Task /\ UNCHANGED <<loaded, visitors>> /\ CountedAt(r)
    BY <1>0, <1>3, OthersIs DEF Counted
  <2>4. \A y \in Task \ {t} : task'[y] = task[y] /\ (y \in stale => y \in stale')
    BY <1>3, OthersIs
  <2> QED BY <2>1, <2>2, <2>3, <2>4, CountKept
<1>4. CASE UNCHANGED vars
  BY <1>0, <1>4 DEF Counted, CountedAt, Doomed, NoneSaves, Saves, Zeroes, AtEnd, Seen, vars, roomVars,
                    raceVars
<1> QED BY <1>1, <1>2, <1>3, <1>4 DEF Next

LEMMA CountedInit == Init => Counted
<1> SUFFICES ASSUME Init, NEW r \in Room PROVE CountedAt(r) BY DEF Counted
<1>1. visitors[r] = 0 /\ Seen(r) = 0 BY DEF Init, Seen
<1>2. NoneSaves(r) BY DEF Init, AtRest, NoneSaves, Saves
<1> QED BY <1>1, <1>2 DEF CountedAt

\* The visitor count of a room is right whenever nobody is between its two writes, for
\* any number of tasks, until one of them is overtaken or an update fails.
THEOREM VisitorsInAgreement == Spec => []VisitorsAgree
<1>1. Init => Counted BY CountedInit
<1>2. TasksInv /\ Counted /\ [Next]_vars => Counted' BY CountedStep
<1>3. Counted => VisitorsAgree
  BY DEF Counted, CountedAt, VisitorsAgree, Doomed, AtEnd, Saves, Zeroes, Seen, UsesCopy, Pc
<1> QED BY <1>1, <1>2, <1>3, TasksInvHolds, PTL DEF Spec

-----------------------------------------------------------------------------
(* Avatars and their sessions                                              *)

Out(u) == \A r \in Room : ~IsIn(u, r)
Enters(u) == task[u].pc = "row" /\ task[u].op = "enter"

\* The session of u knows where its avatar is, or is about to.
KnowsPlace(u) ==
  \A r \in Room : IsIn(u, r) =>
    /\ cur[u] = r
    /\ IF Enters(u) THEN task[u].copy[u] = loaded[r][u]
                    ELSE uid[u] = loaded[r][u] /\ where[u] = r
\* When the session ends a leave or is over, there is no avatar.
HasLeft(u) ==
  /\ task[u].pc \in {"offline", "zero"} => Out(u)
  /\ task[u].op \in {"leave", "cleanup"} /\ task[u].pc = "row" => Out(u)
  /\ task[u].op \in {"leave", "cleanup"} /\ task[u].pc \in {"count", "save"} /\ u \notin stale =>
       task[u].copy[u] = NoUid
\* Nor when a kick or a cycle is about to clear the row of u, unless u is back already.
Clears(t, u) == t \notin stale /\ task[t].pc \in {"zero", "row"} /\ u \in task[t].targets
IsCleared(u) == \A t \in Task \ User : Clears(t, u) => Out(u) \/ Enters(u)

Owned(u) == KnowsPlace(u) /\ HasLeft(u) /\ IsCleared(u)
Own == ~overtaken => \A u \in User \ broken : Owned(u)

\* Until something is overtaken, whoever is in a room after a step was there, or enters it.
LEMMA RoomsMove ==
  ASSUME TasksInv, NEW t \in Task, TaskStep(t), ~overtaken', NEW u \in User, NEW r \in Room, IsIn(u, r)'
  PROVE  \/ IsIn(u, r) /\ loaded'[r][u] = loaded[r][u]
         \/ /\ t = u /\ task[u].pc = "save" /\ task[u].op = "enter" /\ task[u].at = r
            /\ loaded'[r][u] = task[u].copy[u]
<1> USE DEF TasksInv, RegistryInv
<1> DEFINE q == task[t].at
<1>1. CASE AddRoom(t)
  <2>1. loaded' = [loaded EXCEPT ![q] = Empty] BY <1>1 DEF AddRoom
  <2> QED BY <2>1 DEF IsIn, Rooms, Empty
<1>2. CASE RemoveRoom(t)
  <2>1. loaded' = [loaded EXCEPT ![q] = NotLoaded] BY <1>2 DEF RemoveRoom
  <2> QED BY <2>1 DEF IsIn, Rooms
<1>3. CASE SaveRoom(t)
  <2>1. /\ loaded' = [loaded EXCEPT ![q] = task[t].copy] /\ task[t].pc = "save" /\ t \notin stale
    BY <1>3 DEF SaveRoom, WritesRoom, Pc
  <2>2. CASE r # q BY <2>1, <2>2 DEF IsIn, Rooms
  <2>3. CASE r = q
    <3>1. loaded'[r] = task[t].copy BY <2>1, <2>3 DEF Rooms
    <3>2. loaded[r] # NotLoaded /\ \/ task[t].copy[u] \in {NoUid, loaded[r][u]}
                                   \/ u = t /\ task[t].op = "enter"
      BY <2>1, <2>3 DEF UpToDate, Current
    <3> QED BY <2>1, <2>3, <3>1, <3>2 DEF IsIn
  <2> QED BY <2>2, <2>3
<1>4. CASE ~AddRoom(t) /\ ~RemoveRoom(t) /\ ~SaveRoom(t)
  <2>1. loaded' = loaded
    BY <1>4 DEF TaskStep, FetchLoaded, FetchAbsent, AddRoomTooLate, Count, ZeroVisitors,
       UpdateIgnored, RowsDone, ClearRow, roomVars
  <2> QED BY <2>1 DEF IsIn
<1> QED BY <1>1, <1>2, <1>3, <1>4

\* Nobody comes into a room but by its own "A@", for any number of users, rooms
\* and tasks, as long as no save has been overtaken by another.
THEOREM OnlyOwnEntrances == Spec => OnlyOwnEntrance
<1>1. ASSUME TasksInv, [Next]_vars, NEW r \in Room, NEW u \in User,
             ~IsIn(u, r), IsIn(u, r)', ~overtaken'
      PROVE  task[u].op = "enter" /\ Pc(u) = "save"
  <2>1. CASE \E t \in Task : TaskStep(t) BY <1>1, <2>1, RoomsMove DEF Pc
  <2>2. CASE \E v \in User : SessionStep(v)
    <3>1. loaded' = loaded BY <1>1, <2>2, SessionIs DEF TasksInv
    <3> QED BY <1>1, <3>1 DEF IsIn
  <2>3. CASE \/ \E k \in Kicker : \/ \E v \in User : KickUser(k, v)
                                  \/ \E q \in Room : KickLowerRanks(k, q)
                                  \/ KickFails(k)
             \/ \E q \in Room : CycleTick(q) \/ CycleFindsNoRoom(q) \/ CycleEnds(q)
    <3>1. loaded' = loaded BY <1>1, <2>3, OthersIs DEF TasksInv
    <3> QED BY <1>1, <3>1 DEF IsIn
  <2>4. CASE UNCHANGED vars BY <1>1, <2>4 DEF vars, roomVars, IsIn
  <2> QED BY <1>1, <2>1, <2>2, <2>3, <2>4 DEF Next
<1>2. ASSUME TasksInv, [Next]_vars
      PROVE  [\A r \in Room, u \in User :
                ~IsIn(u, r) /\ IsIn(u, r)'
                  => (task[u].op = "enter" /\ Pc(u) = "save") \/ overtaken']_vars
  BY <1>1, <1>2
<1> QED BY <1>2, TasksInvHolds, PTL DEF Spec, OnlyOwnEntrance

\* Somebody else moves.
LEMMA OwnedKept ==
  ASSUME NEW u \in User, Owned(u), task'[u] = task[u], cur'[u] = cur[u], uid'[u] = uid[u],
         u \in stale => u \in stale', where'[u] = where[u] \/ Out(u) \/ Enters(u),
         \A r \in Room : IsIn(u, r)' => IsIn(u, r) /\ loaded'[r][u] = loaded[r][u],
         \A y \in Task \ User : Clears(y, u)' => Clears(y, u) \/ Out(u)' \/ Enters(u)
  PROVE  Owned(u)'
<1>1. Out(u) => Out(u)' BY DEF Out
<1>2. Enters(u)' <=> Enters(u) BY DEF Enters
<1>3. KnowsPlace(u)' BY <1>2 DEF KnowsPlace, Owned, Out
<1>4. HasLeft(u)' BY <1>1 DEF HasLeft, Owned
<1>5. IsCleared(u)' BY <1>1, <1>2 DEF IsCleared, Owned
<1> QED BY <1>3, <1>4, <1>5 DEF Owned

\* u itself moves.
LEMMA ClearedKept ==
  ASSUME NEW u \in User, Owned(u),
         (\A r \in Room : IsIn(u, r)' => IsIn(u, r)) \/ Enters(u)',
         Enters(u) => \A y \in Task \ User : ~Clears(y, u)',
         \A y \in Task \ User : Clears(y, u)' => Clears(y, u)
  PROVE  IsCleared(u)'
BY DEF Owned, IsCleared, Out

\* A kick or a cycle that goes on to its rows has moved its targets out.
LEMMA MovesOut ==
  ASSUME TasksInv, NEW t \in Task \ User, TaskStep(t), ~overtaken', NEW u \in User, Owned(u),
         Clears(t, u)'
  PROVE  Clears(t, u) \/ Out(u)'
<1> USE DEF TasksInv, RegistryInv
<1> DEFINE q == task[t].at
<1>0. KindOf(t) /\ task[t] \in TaskState BY DEF Kinds, Tasks
<1>1. CASE SaveRoom(t) \/ RemoveRoom(t)
  <2>1. /\ t \notin stale /\ task[t].pc \in {"save", "remove"} /\ q \in Room
        /\ \/ loaded' = [loaded EXCEPT ![q] = task[t].copy]
           \/ loaded' = [loaded EXCEPT ![q] = NotLoaded]
        /\ Rest(t, "ready") \/ Rest(t, "gone") \/ Goto(t, "row") \/ Goto(t, "zero")
    BY <1>1 DEF SaveRoom, RemoveRoom, AfterRemoval, WritesRoom, Pc, Tasks, GoodTask, NamesRoom
  <2>2. u \in task[t].targets BY <2>1, RestIs, GotoIs DEF Clears
  <2>3. loaded[q] # NotLoaded /\ loaded[q][u] # NoUid /\ task[t].copy[u] = NoUid
    BY <2>1, <2>2 DEF UpToDate, Current
  <2>4. cur[u] = q BY <2>1, <2>3 DEF Owned, KnowsPlace, IsIn
  <2>5. ASSUME NEW r \in Room, IsIn(u, r)' PROVE FALSE
    <3>1. IsIn(u, r) BY <2>5, RoomsMove
    <3>2. r = q BY <2>4, <3>1 DEF Owned, KnowsPlace
    <3> QED BY <2>1, <2>3, <2>5, <3>2 DEF IsIn, Rooms
  <2> QED BY <2>5 DEF Out
<1>2. CASE ZeroVisitors(t)
  <2>1. task[t].pc = "zero" /\ t \notin stale /\ (Rest(t, "gone") \/ Goto(t, "row"))
    BY <1>2 DEF ZeroVisitors, AfterRemoval, Pc
  <2> QED BY <2>1, RestIs, GotoIs DEF Clears
<1>3. CASE \E v \in User : ClearRow(t, v)
  <2>1. PICK v \in User : ClearRow(t, v) BY <1>3
  <2>2. /\ task[t].pc = "row" /\ t \notin stale
        /\ task' = [task EXCEPT ![t].targets = @ \ {v}]
    BY <2>1 DEF ClearRow, WritesRow, Pc
  <2>3. task'[t].targets = task[t].targets \ {v} BY <2>2 DEF Tasks, TaskState
  <2> QED BY <2>2, <2>3 DEF Clears
<1>4. CASE UpdateIgnored(t)
  <2>1. (Goto(t, "save") \/ Rest(t, "gone"))
    BY <1>0, <1>4 DEF UpdateIgnored, AfterRemoval, KindOf, Task, Busy, Pc
  <2> QED BY <2>1, RestIs, GotoIs DEF Clears
<1>5. CASE FetchLoaded(t) \/ AddRoom(t) \/ AddRoomTooLate(t)
  <2>1. PICK m \in Copy : task'[t] = WithCopy(t, m) /\ task[t].pc \in {"fetch", "load"}
    <3>1. CASE FetchLoaded(t)
      <4>1. loaded[q] \in Copy
        BY <3>1 DEF FetchLoaded, Rooms, Tasks, GoodTask, NamesRoom, Pc
      <4> QED BY <3>1, <4>1 DEF FetchLoaded, Pc, Tasks
    <3>2. CASE AddRoom(t) BY <3>2, AddRoomIs, EmptyGood DEF AddRoom, Pc
    <3>3. CASE AddRoomTooLate(t) BY <3>3, EmptyGood DEF AddRoomTooLate, Pc, Tasks
    <3> QED BY <1>5, <3>1, <3>2, <3>3
  <2>2. AtRest("ready").pc = "ready" /\ AtRest("idle").pc = "idle" BY DEF AtRest
  <2>3. task'[t].pc \notin {"zero", "row"}
    <3>1. \/ WithCopy(t, m) = AtRest("ready") \/ WithCopy(t, m) = AtRest("idle")
          \/ WithCopy(t, m).pc \in {"count", "save", "remove"}
      BY <1>0, <2>1, WithCopyIs
    <3> QED BY <2>1, <2>2, <3>1
  <2> QED BY <2>3 DEF Clears
<1>6. CASE FetchAbsent(t) \/ Count(t) \/ RowsDone(t)
  <2>1. \/ \E p \in {"load", "save"} : Goto(t, p)
        \/ \E p \in {"ready", "sleep", "idle"} : Rest(t, p)
    BY <1>6 DEF FetchAbsent, Count, RowsDone
  <2> QED BY <2>1, RestIs, GotoIs DEF Clears
<1> QED BY <1>1, <1>2, <1>3, <1>4, <1>5, <1>6 DEF TaskStep

\* The rows of others change only by a ClearRow, and nobody else's task or uid moves.
LEMMA TaskStepIs ==
  ASSUME TasksInv, NEW t \in Task, TaskStep(t)
  PROVE  /\ cur' = cur
         /\ \A u \in User \ {t} : task'[u] = task[u] /\ uid'[u] = uid[u]
         /\ \A y \in Task \ {t} : /\ task'[y] = task[y] \/ task'[y].pc = "sleep"
                                  /\ y \in stale => y \in stale'
         /\ \A u \in User : \/ where'[u] = where[u]
                            \/ ClearRow(t, u) /\ where'[u] = NoRoom
<1> USE DEF TasksInv, RegistryInv
<1>1. /\ cur' = cur
      /\ \A u \in User \ {t} : uid'[u] = uid[u]
      /\ \A y \in Task \ {t} : y \in stale => y \in stale'
  BY DEF TaskStep, FetchLoaded, FetchAbsent, AddRoom, AddRoomTooLate, Count, SaveRoom, RemoveRoom,
         ZeroVisitors, UpdateIgnored, RowsDone, ClearRow, sessionVars, raceVars, WritesRoom,
         WritesRow, OtherTypes
<1>2. \A u \in User : where'[u] = where[u] \/ (ClearRow(t, u) /\ where'[u] = NoRoom)
  <2>1. CASE \E v \in User : ClearRow(t, v)
    BY <2>1 DEF ClearRow, OtherTypes
  <2>2. CASE ~\E v \in User : ClearRow(t, v)
    BY <2>2 DEF TaskStep, FetchLoaded, FetchAbsent, AddRoom, AddRoomTooLate, Count, SaveRoom,
         RemoveRoom, ZeroVisitors, UpdateIgnored, RowsDone
  <2> QED BY <2>1, <2>2
<1>3. CASE AddRoom(t)
  <2>1. /\ task[t].at \in Room
        /\ task'[task[t].at] = IF task[task[t].at].pc = "none"
                               THEN [task[task[t].at] EXCEPT !.pc = "sleep"] ELSE task[task[t].at]
        /\ \A y \in Task \ {t, task[t].at} : task'[y] = task[y]
    BY <1>3, AddRoomIs
  <2>2. task[t].at \in Task /\ task[t].at \notin User BY <2>1, TasksApart DEF Task
  <2>3. [task[task[t].at] EXCEPT !.pc = "sleep"].pc = "sleep" BY <2>2 DEF Tasks, TaskState
  <2>4. \A y \in Task \ {t} : task'[y] = task[y] \/ task'[y].pc = "sleep"
    BY <2>1, <2>3
  <2>5. \A u \in User \ {t} : task'[u] = task[u] BY <2>1, <2>2 DEF Task
  <2> QED BY <1>1, <1>2, <2>4, <2>5
<1>4. CASE ~AddRoom(t)
  <2>1. \/ \E p : Rest(t, p) \/ Goto(t, p)
        \/ \E x : task' = [task EXCEPT ![t] = x]
        \/ \E u \in User : task' = [task EXCEPT ![t].targets = @ \ {u}]
    BY <1>4 DEF TaskStep, FetchLoaded, FetchAbsent, AddRoomTooLate, Count, SaveRoom,
         RemoveRoom, ZeroVisitors, UpdateIgnored, RowsDone, ClearRow, AfterRemoval
  <2>2. \A y \in Task \ {t} : task'[y] = task[y]
    BY <2>1 DEF Rest, Goto, Tasks
  <2> QED BY <1>1, <1>2, <2>2 DEF Task
<1> QED BY <1>3, <1>4

\* The shared steps of another task.
LEMMA SharedOwned ==
  ASSUME TasksInv, NEW t \in Task, TaskStep(t), ~overtaken', NEW u \in User \ {t}, Owned(u)
  PROVE  Owned(u)'
<1>1. /\ task'[u] = task[u] /\ cur'[u] = cur[u] /\ uid'[u] = uid[u] /\ (u \in stale => u \in stale')
  BY TaskStepIs DEF Task
<1>2. \A r \in Room : IsIn(u, r)' => IsIn(u, r) /\ loaded'[r][u] = loaded[r][u]
  BY RoomsMove
<1>3. where'[u] = where[u] \/ Out(u) \/ Enters(u)
  <2>1. CASE ClearRow(t, u)
    <3>1. t \notin User /\ Clears(t, u) BY <2>1 DEF ClearRow, WritesRow, Clears, Pc
    <3> QED BY <3>1 DEF Owned, IsCleared
  <2> QED BY <2>1, TaskStepIs
<1>4. ASSUME NEW y \in Task \ User, Clears(y, u)' PROVE Clears(y, u) \/ Out(u)'
  <2>1. CASE y = t BY <1>4, <2>1, MovesOut
  <2>2. CASE y # t
    <3>1. task'[y] = task[y] \/ task'[y].pc = "sleep" BY <2>2, TaskStepIs
    <3>2. y \in stale => y \in stale' BY <2>2, TaskStepIs
    <3> QED BY <1>4, <3>1, <3>2 DEF Clears
  <2> QED BY <2>1, <2>2
<1> QED BY <1>1, <1>2, <1>3, <1>4, OwnedKept

\* The packets of another session.
LEMMA SessionLeavesOthers ==
  ASSUME TasksInv, NEW v \in User, SessionStep(v), NEW u \in User \ {v}, Owned(u)
  PROVE  Owned(u)'
<1> USE DEF TasksInv, RegistryInv
<1>1. /\ cur'[u] = cur[u] /\ uid'[u] = uid[u] /\ where'[u] = where[u]
  BY DEF SessionStep, Reconcile, EnterRoomDetermine, EnterFromInside, UseRoom, LeaveRoom,
         EnterRow, LeaveRow, Cleanup, CleanupRow, Fail, Login, ResetLocal, sessionVars, OtherTypes
<1>2. /\ loaded' = loaded /\ u \in Task
      /\ \A y \in Task \ {v} : task'[y] = task[y] /\ (y \in stale => y \in stale')
  BY SessionIs DEF Task
<1>3. \A r \in Room : IsIn(u, r)' => IsIn(u, r) /\ loaded'[r][u] = loaded[r][u]
  BY <1>2 DEF IsIn
<1>4. \A y \in Task \ User : Clears(y, u)' => Clears(y, u) BY <1>2 DEF Clears
<1> QED BY <1>1, <1>2, <1>3, <1>4, OwnedKept

\* The beginnings and ends of kicks and cycles.
LEMMA OthersLeaveOwned ==
  ASSUME TasksInv, NEW u \in User, Owned(u), NEW t \in Kicker \cup Room,
         \/ t \in Kicker /\ \/ \E v \in User : KickUser(t, v)
                            \/ \E q \in Room : KickLowerRanks(t, q)
                            \/ KickFails(t)
         \/ t \in Room /\ (CycleTick(t) \/ CycleFindsNoRoom(t) \/ CycleEnds(t))
  PROVE  Owned(u)'
<1> USE DEF TasksInv
<1>1. /\ UNCHANGED <<loaded, cur, uid, where>> /\ t \in Task
      /\ \A y \in Task \ {t} : task'[y] = task[y] /\ (y \in stale => y \in stale')
  BY OthersIs
<1>2. u \in Task /\ u # t BY TasksApart DEF Task
<1>3. \A r \in Room : IsIn(u, r)' => IsIn(u, r) /\ loaded'[r][u] = loaded[r][u]
  BY <1>1 DEF IsIn
<1>4. task'[t].pc \notin {"zero", "row"} BY OthersIs, TickIs
<1>5. \A y \in Task \ User : Clears(y, u)' => Clears(y, u) BY <1>1, <1>4 DEF Clears
<1> QED BY <1>1, <1>2, <1>3, <1>5, OwnedKept

\* The packets of the user itself: it enters, leaves, ends and logs in with its avatar.
LEMMA OwnPackets ==
  ASSUME TasksInv, NEW u \in User, SessionStep(u), Owned(u), u \notin broken'
  PROVE  Owned(u)'
<1> USE DEF TasksInv, RegistryInv
<1>0. /\ loaded' = loaded /\ u \in Task /\ task[u] \in TaskState /\ KindOf(u)
      /\ \A y \in Task \ {u} : task'[y] = task[y] /\ (y \in stale => y \in stale')
      /\ cur \in [User -> Room \cup {NoRoom}] /\ uid \in [User -> Uid \cup {NoUid}]
      /\ where \in [User -> Room \cup {NoRoom}]
  BY SessionIs DEF Tasks, Kinds, OtherTypes
<1>1. (Out(u)' <=> Out(u)) /\ \A r \in Room : IsIn(u, r)' <=> IsIn(u, r)
  BY <1>0 DEF IsIn, Out
<1>2. IsCleared(u)'
  <2>1. Enters(u) => \A y \in Task \ User : ~Clears(y, u)'
    <3>1. Enters(u) => EnterRow(u)
      BY DEF Enters, SessionStep, Reconcile, EnterRoomDetermine, EnterFromInside, UseRoom, LeaveRoom,
             LeaveRow, Cleanup, CleanupRow, Fail, Login, AtPacket, Pc
    <3>2. EnterRow(u) => WritesRow(u, u) BY DEF EnterRow
    <3>3. ASSUME WritesRow(u, u), NEW y \in Task \ User, Clears(y, u)' PROVE FALSE
      BY <1>0, <3>3 DEF WritesRow, Clears, UsesCopy, RowsOf, Pc
    <3> QED BY <3>1, <3>2, <3>3
  <2>2. \A y \in Task \ User : Clears(y, u)' => Clears(y, u) BY <1>0 DEF Clears
  <2> QED BY <1>1, <2>1, <2>2, ClearedKept
<1>3. ASSUME Out(u), task'[u].pc \in {"ready", "offline", "row", "fetch"} PROVE Owned(u)'
  BY <1>1, <1>2, <1>3 DEF Owned, KnowsPlace, HasLeft, Out
<1>4. ASSUME task[u].pc = "ready" PROVE \A r \in Room : IsIn(u, r) =>
        cur[u] = r /\ uid[u] = loaded[r][u] /\ where[u] = r /\ uid[u] # NoUid
  BY <1>4 DEF Owned, KnowsPlace, Enters, IsIn
<1>5. CASE Reconcile(u) \/ \E q \in Room : EnterRoomDetermine(u, q)
  <2>1. task[u].pc = "ready" /\ task'[u].pc = "ready" /\ (where[u] = NoRoom \/ uid[u] = NoUid)
    BY <1>5 DEF Reconcile, Detached, EnterRoomDetermine, AtPacket, Pc
  <2>2. Out(u) BY <1>4, <2>1, RoomIsNone DEF Out
  <2> QED BY <1>3, <2>1, <2>2
<1>6. ASSUME NEW o, NEW q, Begin(u, o, q), UNCHANGED <<cur, uid, where>>, task[u].pc = "ready"
      PROVE  Owned(u)'
  <2>1. task'[u].pc = "fetch" BY <1>0, <1>6, BeginIs
  <2>2. KnowsPlace(u)' BY <1>0, <1>1, <1>4, <1>6, <2>1 DEF KnowsPlace, Enters
  <2> QED BY <1>2, <2>1, <2>2 DEF Owned, HasLeft
<1>7. ASSUME NEW o \in {"leave", "cleanup"}, TakeOut(u, o), UNCHANGED <<cur, uid, where>>,
             task[u].pc = "ready"
      PROVE  Owned(u)'
  <2>1. CASE cur[u] # NoRoom /\ uid[u] # NoUid BY <1>6, <1>7, <2>1 DEF TakeOut
  <2>2. CASE ~(cur[u] # NoRoom /\ uid[u] # NoUid)
    <3>1. Out(u) BY <1>4, <1>7, <2>2, RoomIsNone DEF Out
    <3>2. task'[u].pc = "row" BY <1>0, <1>7, <2>2 DEF TakeOut, Tasks, TaskState
    <3> QED BY <1>3, <3>1, <3>2
  <2> QED BY <2>1, <2>2
<1>8. CASE UseRoom(u) \/ \E q \in Room : EnterFromInside(u, q)
  BY <1>6, <1>8 DEF UseRoom, EnterFromInside, AtPacket, Pc, sessionVars
<1>9. CASE LeaveRoom(u) \/ Cleanup(u)
  BY <1>7, <1>9 DEF LeaveRoom, Cleanup, AtPacket, Pc, sessionVars
<1>10. CASE EnterRow(u)
  <2>1. /\ Enters(u) /\ Rest(u, "ready") /\ cur' = cur
        /\ uid'[u] = task[u].copy[u] /\ where'[u] = task[u].at
    BY <1>0, <1>10 DEF EnterRow, Enters, Pc
  <2>2. task'[u].pc = "ready" BY <1>0, <2>1, RestIs
  <2>3. task[u].at = cur[u] BY <1>0, <2>1 DEF KindOf, Enters
  <2>4. KnowsPlace(u)' BY <1>0, <1>1, <2>1, <2>2, <2>3 DEF Owned, KnowsPlace, Enters
  <2> QED BY <1>2, <2>2, <2>4 DEF Owned, HasLeft
<1>11. CASE LeaveRow(u) \/ CleanupRow(u) \/ Login(u)
  <2>1. Out(u) BY <1>11 DEF LeaveRow, CleanupRow, Login, Owned, HasLeft, Pc
  <2>2. Rest(u, "ready") \/ Rest(u, "offline") BY <1>11 DEF LeaveRow, CleanupRow, Login
  <2>3. task'[u].pc \in {"ready", "offline"} BY <1>0, <2>2, RestIs
  <2> QED BY <1>3, <2>1, <2>3
<1>12. CASE Fail(u) BY <1>12 DEF Fail
<1> QED BY <1>5, <1>8, <1>9, <1>10, <1>11, <1>12 DEF SessionStep

\* The user's own operation on its room.
LEMMA OwnTask ==
  ASSUME TasksInv, NEW u \in User, TaskStep(u), Owned(u), ~overtaken'
  PROVE  Owned(u)'
<1> USE DEF TasksInv, RegistryInv
<1> DEFINE q == task[u].at
           o == task[u].op
<1>0. /\ u \in Task /\ task[u] \in TaskState /\ KindOf(u) /\ u \notin Room /\ u \notin Kicker
      /\ UNCHANGED <<cur, where>>
  BY RoomRegistryAssumption, TaskStepIs
  DEF Tasks, Kinds, Task, RoomRegistryAssumption, TaskStep, ClearRow, FetchLoaded, FetchAbsent,
      AddRoom, AddRoomTooLate, Count, SaveRoom, RemoveRoom, ZeroVisitors, UpdateIgnored, RowsDone
<1>1. /\ task[u].pc \in {"fetch", "load", "count", "save", "remove", "zero"}
      /\ q \in Room /\ cur[u] = q
  BY <1>0 DEF TaskStep, FetchLoaded, FetchAbsent, AddRoom, AddRoomTooLate, Count, SaveRoom,
         RemoveRoom, ZeroVisitors, UpdateIgnored, RowsDone, ClearRow, Pc, KindOf, NamesRoom,
         Tasks, GoodTask
<1>2. \A r \in Room : IsIn(u, r) =>
        r = q /\ cur[u] = r /\ uid[u] = loaded[r][u] /\ where[u] = r
  BY <1>1 DEF Owned, KnowsPlace, Enters
<1>3. \A r \in Room : IsIn(u, r)' =>
        \/ IsIn(u, r) /\ loaded'[r][u] = loaded[r][u]
        \/ task[u].pc = "save" /\ o = "enter" /\ q = r /\ loaded'[r][u] = task[u].copy[u]
  BY <1>0, RoomsMove
<1>4. ASSUME task[u].pc = "save" /\ o = "enter" => Enters(u)'
      PROVE  IsCleared(u)'
  <2>1. ~Enters(u) BY <1>1 DEF Enters
  <2>2. \A y \in Task \ User : Clears(y, u)' => Clears(y, u) BY <1>0, TaskStepIs DEF Clears
  <2>3. (\A r \in Room : IsIn(u, r)' => IsIn(u, r)) \/ Enters(u)' BY <1>3, <1>4
  <2> QED BY <2>1, <2>2, <2>3, ClearedKept
<1>5. ASSUME \A r \in Room : ~IsIn(u, r)', task[u].pc # "save", task'[u].pc \notin {"count", "save"}
      PROVE  Owned(u)'
  BY <1>4, <1>5 DEF Owned, KnowsPlace, HasLeft, Out
<1>6. ASSUME UNCHANGED uid, task[u].pc # "save",
             task'[u].pc \in {"ready", "idle", "load", "count", "save", "remove"},
             task'[u].op \in {"leave", "cleanup"} /\ task'[u].pc \in {"count", "save"} /\ u \notin stale' =>
               task'[u].copy[u] = NoUid
      PROVE  Owned(u)'
  <2>1. KnowsPlace(u)' BY <1>0, <1>2, <1>3, <1>6 DEF KnowsPlace, Enters
  <2>2. HasLeft(u)' BY <1>6 DEF HasLeft
  <2> QED BY <1>4, <1>6, <2>1, <2>2 DEF Owned
<1>7. CASE FetchLoaded(u) \/ AddRoom(u) \/ AddRoomTooLate(u)
  <2>1. PICK m \in Copy : task'[u] = WithCopy(u, m) /\ task[u].pc \in {"fetch", "load"} /\ uid' = uid
                          /\ (u \notin stale' => m[u] \in {NoUid, uid[u]})
    <3>1. CASE FetchLoaded(u)
      <4>1. loaded[q] \in Copy /\ task[u].pc = "fetch" /\ loaded[q] # NotLoaded
        BY <1>1, <3>1 DEF FetchLoaded, Rooms, Pc
      <4>2. loaded[q][u] \in {NoUid, uid[u]} BY <1>1, <1>2, <4>1 DEF IsIn
      <4>3. uid' = uid
        <5>1. CASE u \in Present(loaded[q])
          <6>1. loaded[q][u] = uid[u] BY <4>2, <5>1 DEF Present
          <6> QED BY <3>1, <6>1 DEF FetchLoaded, OtherTypes
        <5> QED BY <3>1, <5>1 DEF FetchLoaded
      <4>4. task'[u] = WithCopy(u, loaded[q]) BY <1>0, <3>1 DEF FetchLoaded, Tasks
      <4> QED BY <4>1, <4>2, <4>3, <4>4
    <3>2. CASE AddRoom(u) \/ AddRoomTooLate(u)
      <4>1. task[u].pc = "load" /\ uid' = uid
        BY <3>2 DEF AddRoom, AddRoomTooLate, Pc, sessionVars
      <4>2. AddRoom(u) => task'[u] = WithCopy(u, Empty) BY <1>0, AddRoomIs
      <4>3. task'[u] = WithCopy(u, Empty)
        BY <1>0, <3>2, <4>2 DEF AddRoomTooLate, Tasks
      <4>4. Empty \in Copy /\ Empty[u] = NoUid BY EmptyGood DEF Empty
      <4> QED BY <4>1, <4>3, <4>4
    <3> QED BY <1>7, <3>1, <3>2
  <2>2. CASE WithCopy(u, m) \in {AtRest("ready"), AtRest("idle")}
    <3>1. task'[u].pc \in {"ready", "idle"} /\ task'[u].op = "none"
      BY <2>1, <2>2 DEF AtRest
    <3> QED BY <1>6, <2>1, <3>1
  <2>3. CASE WithCopy(u, m) \notin {AtRest("ready"), AtRest("idle")}
    <3>1. LET x == WithCopy(u, m) IN
               /\ x.pc \in {"count", "save", "remove"} /\ x.op = o
               /\ \A v \in User : \/ x.copy[v] \in {NoUid, m[v]}
                                  \/ v = u /\ o = "enter" /\ m[v] = NoUid
               /\ o \in {"leave", "cleanup"} => \A v \in User : m[v] = uid[u] => x.copy[v] = NoUid
      BY <1>0, <2>1, <2>3, WithCopyIs
    <3>2. o \in {"leave", "cleanup"} /\ u \notin stale' => task'[u].copy[u] = NoUid
      BY <2>1, <3>1
    <3> QED BY <1>6, <2>1, <3>1, <3>2
  <2> QED BY <2>2, <2>3
<1>8. CASE FetchAbsent(u)
  <2>1. /\ task[u].pc = "fetch" /\ uid' = uid /\ (Rest(u, "ready") \/ Goto(u, "load"))
    BY <1>8 DEF FetchAbsent, Pc, sessionVars
  <2>2. task'[u].pc \in {"ready", "load"} BY <1>0, <2>1, RestIs, GotoIs
  <2> QED BY <1>6, <2>1, <2>2
<1>9. ASSUME task[u].pc = "count", Goto(u, "save"), uid' = uid, stale' = stale PROVE Owned(u)'
  BY <1>0, <1>6, <1>9, GotoIs DEF Owned, HasLeft
<1>10. CASE Count(u) BY <1>9, <1>10 DEF Count, sessionVars, raceVars, Pc
<1>11. CASE SaveRoom(u)
  <2>1. /\ task[u].pc = "save" /\ uid' = uid /\ u \notin stale
        /\ IF o = "touch" THEN Rest(u, "ready") ELSE Goto(u, "row")
        /\ loaded' = [loaded EXCEPT ![q] = task[u].copy]
    BY <1>11 DEF SaveRoom, Pc, sessionVars, WritesRoom
  <2>2. loaded'[q] = task[u].copy BY <1>1, <2>1 DEF Rooms
  <2>3. CASE o = "touch"
    <3>1. task'[u].pc = "ready" BY <1>0, <2>1, <2>3, RestIs
    <3>2. KnowsPlace(u)' BY <1>0, <1>2, <1>3, <2>1, <2>3, <3>1 DEF KnowsPlace, Enters
    <3>3. HasLeft(u)' BY <3>1 DEF HasLeft
    <3> QED BY <1>4, <2>3, <3>2, <3>3 DEF Owned
  <2>4. CASE o # "touch"
    <3>1. task'[u].pc = "row" /\ task'[u].op = o /\ task'[u].copy = task[u].copy
      BY <1>0, <2>1, <2>4, GotoIs
    <3>2. \A r \in Room : IsIn(u, r)' => r = q /\ loaded'[r][u] = task[u].copy[u]
      BY <1>2, <1>3, <2>2
    <3>3. KnowsPlace(u)'
      BY <1>0, <1>1, <1>2, <1>3, <2>1, <3>1, <3>2 DEF KnowsPlace, Enters
    <3>4. HasLeft(u)'
      <4>1. o \in {"leave", "cleanup"} => Out(u)'
        BY <2>1, <2>2, <3>2 DEF Owned, HasLeft, Out, IsIn
      <4> QED BY <3>1, <4>1 DEF HasLeft
    <3> QED BY <1>4, <3>1, <3>3, <3>4 DEF Owned, Enters
  <2> QED BY <2>3, <2>4
<1>12. CASE RemoveRoom(u)
  <2>1. /\ task[u].pc = "remove" /\ loaded' = [loaded EXCEPT ![q] = NotLoaded]
        /\ Rest(u, "gone") \/ Goto(u, "row") \/ Goto(u, "zero")
    BY <1>12 DEF RemoveRoom, AfterRemoval, Pc
  <2>2. task'[u].pc \in {"gone", "row", "zero"} BY <1>0, <2>1, RestIs, GotoIs
  <2>3. \A r \in Room : ~IsIn(u, r)'
    BY <1>1, <1>2, <1>3, <2>1 DEF IsIn, Rooms
  <2> QED BY <1>5, <2>1, <2>2, <2>3
<1>13. CASE ZeroVisitors(u) \/ UpdateIgnored(u)
  <2>1. UNCHANGED <<uid, loaded>>
        /\ \/ task[u].pc = "zero" /\ Goto(u, "row")
           \/ task[u].pc = "count" /\ Goto(u, "save") /\ stale' = stale
    BY <1>0, <1>13 DEF ZeroVisitors, UpdateIgnored, AfterRemoval, Pc, sessionVars, roomVars, raceVars
  <2>2. CASE task[u].pc = "zero" /\ Goto(u, "row")
    <3>1. task'[u].pc = "row" BY <1>0, <2>2, GotoIs
    <3>2. \A r \in Room : ~IsIn(u, r)' BY <2>1, <2>2 DEF Owned, HasLeft, Out, IsIn
    <3> QED BY <1>5, <2>2, <3>1, <3>2
  <2> QED BY <1>9, <2>1, <2>2
<1> QED BY <1>0, <1>1, <1>7, <1>8, <1>10, <1>11, <1>12, <1>13 DEF TaskStep, RowsDone, ClearRow

LEMMA OwnStep == TasksInv /\ Own /\ [Next]_vars => Own'
<1> SUFFICES ASSUME TasksInv, Own, [Next]_vars, ~overtaken', NEW u \in User, u \notin broken'
             PROVE  Owned(u)'
  BY DEF Own
<1>0. Owned(u) BY Remembered DEF Own, TasksInv, RegistryInv
<1>1. CASE \E t \in Task : TaskStep(t)
  BY <1>0, <1>1, SharedOwned, OwnTask
<1>2. CASE \E v \in User : SessionStep(v)
  BY <1>0, <1>2, OwnPackets, SessionLeavesOthers
<1>3. CASE \/ \E k \in Kicker : \/ \E v \in User : KickUser(k, v)
                                \/ \E r \in Room : KickLowerRanks(k, r)
                                \/ KickFails(k)
           \/ \E r \in Room : CycleTick(r) \/ CycleFindsNoRoom(r) \/ CycleEnds(r)
  BY <1>0, <1>3, OthersLeaveOwned
<1>4. CASE UNCHANGED vars
  BY <1>0, <1>4 DEF Owned, KnowsPlace, HasLeft, IsCleared, Clears, Enters, Out, IsIn, vars, roomVars,
                    sessionVars, raceVars
<1> QED BY <1>1, <1>2, <1>3, <1>4 DEF Next

LEMMA OwnInit == Init => Own
<1> SUFFICES ASSUME Init, NEW u \in User PROVE Owned(u) BY DEF Own
<1>1. Out(u) BY DEF Init, Out, IsIn
<1>2. task[u].pc = "ready" /\ task[u].op = "none" BY DEF Init, AtRest, Task
<1> QED BY <1>1, <1>2 DEF Owned, KnowsPlace, HasLeft, IsCleared, Out

\* Every avatar is that of a session which knows it is there, so nobody is in two rooms
\* and there are no ghosts, until a write is overtaken or the session ends without cleanup.
THEOREM AvatarsOwned == Spec => []AvatarOwned
<1>1. Init => Own BY OwnInit
<1>2. TasksInv /\ Own /\ [Next]_vars => Own' BY OwnStep
<1>3. Own => AvatarOwned BY DEF Own, Owned, KnowsPlace, Enters, AvatarOwned, Pc
<1> QED BY <1>1, <1>2, <1>3, TasksInvHolds, PTL DEF Spec
=============================================================================
