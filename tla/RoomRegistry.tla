----------------------------- MODULE RoomRegistry -----------------------------
(***************************************************************************)
(* The table of loaded rooms and who stands in them.                       *)
(*                                                                         *)
(* Nothing holds a room while it is being changed: every handler, and the  *)
(* cycle of the room itself, copies the whole room out of the table        *)
(* (get_room, load_room), edits its copy, waits for the database, and puts *)
(* the copy back (save_room) or drops the room (remove_room).  After that  *)
(* it writes what the online table says of the users it moved.  All these  *)
(* operations have one shape, so a task is a program counter, a copy and   *)
(* the operation it is for:                                                *)
(*                                                                         *)
(*   fetch -> (load ->) count -> save ----------> row -> done              *)
(*                      \----- remove -> zero --/                          *)
(*                                                                         *)
(* The tasks are the sessions (one for a user), the handlers of other      *)
(* people that kick users (Kicker), and the cycles of the rooms.           *)
(*                                                                         *)
(* Sources: managers/room_manager.rs, virtuals/rooms/virtual_room.rs,      *)
(* session_impl.rs (enter_room_*, leave_room, cleanup, the kicks).         *)
(***************************************************************************)
EXTENDS Integers, FiniteSets

CONSTANTS
  User,        \* accounts, each with one session at a time
  Kicker,      \* handlers of staff, room owners or the MUS socket that kick
  Room,        \* the rooms; a room also names its cycle task
  NoRoom,      \* room id 0
  NotLoaded,   \* a room that is not in loaded_rooms
  NoUid,       \* current_room_uid is None
  BotUid       \* the uids the bots of a room take when it is loaded

ASSUME RoomRegistryAssumption ==
  /\ IsFiniteSet(User) /\ IsFiniteSet(BotUid) /\ BotUid \subseteq Nat
  /\ User \cap Kicker = {} /\ User \cap Room = {} /\ Kicker \cap Room = {}
  /\ NoRoom \notin Room
  /\ NoUid \notin Nat
  /\ NotLoaded \notin [User -> Nat \cup {NoUid}]

Task == User \cup Kicker \cup Room

VARIABLES
  loaded,      \* loaded_rooms: room |-> uid of every user in it
  visitors,    \* rooms.visitors_now in the database
  task,        \* of each task: where it is and the locals of its operation
  cur,         \* Session.current_room_id
  uid,         \* Session.current_room_uid
  goal,        \* the room a "@B" asked for
  where,       \* OnlineUser.room_id, NoRoom when in_room is false
  unspawned,   \* history: rooms added while their old cycle was on its way out
  broken,      \* history: users whose session ended without cleanup, and
               \* rooms for which an update of visitors_now failed
  stale,       \* history: tasks whose copy or row is no longer the table's
  overtaken    \* history: one of those has written

roomVars == <<loaded, visitors>>
sessionVars == <<cur, uid, goal>>
historyVars == <<unspawned, broken>>
raceVars == <<stale, overtaken>>
vars == <<roomVars, task, sessionVars, where, historyVars, raceVars>>

Uid == Nat
Copy == [User -> Uid \cup {NoUid}]
\* Between two operations, and inside one.
Resting == {"ready", "offline", "idle", "none", "sleep", "gone"}
Busy == {"fetch", "load", "count", "save", "remove", "zero", "row"}
Op == {"none", "load", "enter", "leave", "cleanup", "touch", "kick", "cycle"}

\* A task and the locals of its operation.
TaskState ==
  [pc : Resting \cup Busy, op : Op,
   at : Room \cup {NoRoom},  \* the room of the copy
   copy : Copy,              \* the private copy
   targets : SUBSET User]    \* whom it moves out

TypeOK ==
  /\ loaded \in [Room -> Copy \cup {NotLoaded}]
  /\ visitors \in [Room -> Nat]
  /\ task \in [Task -> TaskState]
  /\ cur \in [User -> Room \cup {NoRoom}] /\ goal \in [User -> Room \cup {NoRoom}]
  /\ uid \in [User -> Uid \cup {NoUid}]
  /\ where \in [User -> Room \cup {NoRoom}]
  /\ unspawned \subseteq Room /\ broken \subseteq Task
  /\ stale \subseteq Task /\ overtaken \in BOOLEAN

Empty == [u \in User |-> NoUid]
AtRest(p) ==
  [pc |-> p, op |-> "none", at |-> NoRoom, copy |-> Empty, targets |-> {}]

Init ==
  /\ loaded = [r \in Room |-> NotLoaded]
  /\ visitors = [r \in Room |-> 0]
  /\ task = [t \in Task |-> AtRest(IF t \in User THEN "ready"
                                   ELSE IF t \in Kicker THEN "idle" ELSE "none")]
  /\ cur = [u \in User |-> NoRoom] /\ goal = [u \in User |-> NoRoom]
  /\ uid = [u \in User |-> NoUid]
  /\ where = [u \in User |-> NoRoom]
  /\ unspawned = {} /\ broken = {} /\ stale = {} /\ overtaken = FALSE

Pc(t) == task[t].pc
Rest(t, p) == task' = [task EXCEPT ![t] = AtRest(p)]
Goto(t, p) == task' = [task EXCEPT ![t].pc = p]

-----------------------------------------------------------------------------
(* VirtualRoom: the users of a copy                                        *)

Present(m) == {u \in User : m[u] # NoUid}
IsIn(u, r) == loaded[r] # NotLoaded /\ loaded[r][u] # NoUid
Without(m, gone) == [u \in User |-> IF u \in gone THEN NoUid ELSE m[u]]

\* get_free_room_identifier: the lowest uid that no user and no bot has.
TakenUids(m) == {m[u] : u \in Present(m)} \cup BotUid
\* Mutants: -1 when no unit has left a gap; the number of units.
GapOrNone(m) ==
  LET gaps == (0 .. (Cardinality(TakenUids(m)) - 1)) \ TakenUids(m)
  IN IF gaps = {} THEN -1 ELSE CHOOSE n \in gaps : \A k \in gaps : n <= k
UnitCount(m) == Cardinality(TakenUids(m))

FreeRoomIdentifier(m) ==
  CHOOSE n \in 0 .. Cardinality(TakenUids(m)) :
    n \notin TakenUids(m) /\ \A k \in 0 .. (n - 1) : k \in TakenUids(m)

\* remove_room_user takes whoever has the uid now.
RemoveRoomUser(m, i) == Without(m, {u \in Present(m) : m[u] = i})

-----------------------------------------------------------------------------
(* Who has been overtaken                                                  *)

UsesCopy(t) == Pc(t) \in {"count", "save", "remove", "zero"}
RowsOf(t) == IF t \in User THEN {t} ELSE task[t].targets

\* Task t writes room r, or the row of user u: what others hold is then old.
WritesRoom(t, r) ==
  /\ stale' = (stale \ {t})
       \cup {x \in Task \ {t} : UsesCopy(x) /\ task[x].at = r}
  /\ overtaken' = (overtaken \/ t \in stale)
WritesRow(t, u) ==
  /\ stale' = (IF t \in User THEN stale \ {t} ELSE stale)
       \cup {x \in Task \ {t} : (UsesCopy(x) \/ Pc(x) = "row") /\ u \in RowsOf(x)}
  /\ overtaken' = (overtaken \/ t \in stale)

-----------------------------------------------------------------------------
(* The steps all operations share                                          *)

Begin(t, o, r) ==
  task' = [task EXCEPT ![t].pc = "fetch", ![t].op = o, ![t].at = r]

\* What task t becomes with copy m of its room in hand: "@|" has what it wants,
\* "A@" adopts the place it finds, a kick stops when its target is not there; the
\* others edit the copy, and go on to save it or to drop the room.
WithCopy(t, m) ==
  LET o == task[t].op
      out == task[t].targets \cap Present(m)
      edited == CASE o = "enter" -> [m EXCEPT ![t] = FreeRoomIdentifier(m)]
                  [] o \in {"leave", "cleanup"} -> RemoveRoomUser(m, uid[t])
                  [] o = "kick" -> Without(m, out)
                  [] OTHER -> m
      next == CASE o = "touch" -> "save"
                [] Present(edited) = {} -> "remove"
                [] OTHER -> "count"
  IN CASE o = "load" \/ (o = "enter" /\ t \in Present(m)) -> AtRest("ready")
       [] o = "kick" /\ out = {} -> AtRest("idle")
       [] OTHER -> [task[t] EXCEPT !.pc = next, !.copy = edited, !.targets = out]

\* get_room finds the room.
FetchLoaded(t) ==
  LET m == loaded[task[t].at] IN
  /\ Pc(t) = "fetch" /\ m # NotLoaded
  /\ task' = [task EXCEPT ![t] = WithCopy(t, m)]
  /\ uid' = IF task[t].op = "enter" /\ t \in Present(m)
            THEN [uid EXCEPT ![t] = m[t]] ELSE uid
  /\ UNCHANGED <<roomVars, cur, goal, where, historyVars, raceVars>>

\* get_room finds nothing: "A@" gives up, load_room goes to the database.
FetchAbsent(t) ==
  /\ Pc(t) = "fetch" /\ loaded[task[t].at] = NotLoaded
  /\ IF task[t].op = "enter" THEN Rest(t, "ready") ELSE Goto(t, "load")
  /\ UNCHANGED <<roomVars, sessionVars, where, historyVars, raceVars>>

\* spawn_room_cycle_if_needed: a room has at most one cycle.
SpawnCycle(tasks, r) ==
  IF tasks[r].pc = "none" THEN [tasks EXCEPT ![r].pc = "sleep"] ELSE tasks

\* Mutants: a new room gets no cycle, or has the loading user in it.
AddRoomWithoutCycle(t) ==
  /\ Pc(t) = "load" /\ loaded[task[t].at] = NotLoaded
  /\ loaded' = [loaded EXCEPT ![task[t].at] = Empty]
  /\ task' = [task EXCEPT ![t] = WithCopy(t, Empty)]
  /\ WritesRoom(t, task[t].at)
  /\ UNCHANGED <<visitors, sessionVars, where, historyVars>>

AddRoomWithLoader(t) ==
  LET r == task[t].at IN
  /\ Pc(t) = "load" /\ loaded[r] = NotLoaded
  /\ loaded' = [loaded EXCEPT ![r] =
                  [u \in User |-> IF u = t THEN FreeRoomIdentifier(Empty) ELSE NoUid]]
  /\ task' = SpawnCycle([task EXCEPT ![t] = WithCopy(t, Empty)], r)
  /\ WritesRoom(t, r)
  /\ UNCHANGED <<visitors, sessionVars, where, historyVars>>

\* add_room, with the VirtualRoom just read.  A new room gets a cycle, unless
\* active_room_cycles still lists the old one.
AddRoom(t) ==
  LET r == task[t].at IN
  /\ Pc(t) = "load" /\ loaded[r] = NotLoaded
  /\ loaded' = [loaded EXCEPT ![r] = Empty]
  /\ task' = SpawnCycle([task EXCEPT ![t] = WithCopy(t, Empty)], r)
  /\ unspawned' = IF Pc(r) \in {"zero", "gone"}
                  THEN unspawned \cup {r} ELSE unspawned \ {r}
  /\ WritesRoom(t, r)
  /\ UNCHANGED <<visitors, sessionVars, where, broken>>

\* add_room does nothing when another task was faster, and load_room returns a
\* room that is not the table's.
AddRoomTooLate(t) ==
  /\ Pc(t) = "load" /\ loaded[task[t].at] # NotLoaded
  /\ task' = [task EXCEPT ![t] = WithCopy(t, Empty)]
  /\ stale' = IF task'[t].pc \in Busy THEN stale \cup {t} ELSE stale
  /\ UNCHANGED <<roomVars, sessionVars, where, historyVars, overtaken>>

\* Mutant: it counts the room in the table, which is not saved yet.
CountTable(t) ==
  /\ Pc(t) = "count" /\ loaded[task[t].at] # NotLoaded
  /\ visitors' =
       [visitors EXCEPT ![task[t].at] = Cardinality(Present(loaded[task[t].at]))]
  /\ Goto(t, "save")
  /\ UNCHANGED <<loaded, sessionVars, where, historyVars, raceVars>>

\* update_room_visitor_count, always before the save.
Count(t) ==
  /\ Pc(t) = "count"
  /\ visitors' =
       [visitors EXCEPT ![task[t].at] = Cardinality(Present(task[t].copy))]
  /\ Goto(t, "save")
  /\ UNCHANGED <<loaded, sessionVars, where, historyVars, raceVars>>

\* save_room inserts the copy, whatever the table has.
SaveRoom(t) ==
  /\ Pc(t) = "save"
  /\ loaded' = [loaded EXCEPT ![task[t].at] = task[t].copy]
  /\ IF task[t].op = "touch" THEN Rest(t, "ready") ELSE Goto(t, "row")
  /\ WritesRoom(t, task[t].at)
  /\ UNCHANGED <<visitors, sessionVars, where, historyVars>>

\* The cycle breaks when it has dropped its room.
AfterRemoval(t) ==
  IF t \in Room THEN Rest(t, "gone") ELSE Goto(t, "row")

\* remove_room: out of the table first ...
RemoveRoom(t) ==
  /\ Pc(t) = "remove"
  /\ loaded' = [loaded EXCEPT ![task[t].at] = NotLoaded]
  /\ IF loaded[task[t].at] = NotLoaded THEN AfterRemoval(t) ELSE Goto(t, "zero")
  /\ WritesRoom(t, task[t].at)
  /\ UNCHANGED <<visitors, sessionVars, where, historyVars>>

\* ... and then visitors_now = 0, if the room was there.
ZeroVisitors(t) ==
  /\ Pc(t) = "zero"
  /\ visitors' = [visitors EXCEPT ![task[t].at] = 0]
  /\ AfterRemoval(t)
  /\ overtaken' = (overtaken \/ t \in stale)
  /\ stale' = stale \ {t}
  /\ UNCHANGED <<loaded, sessionVars, where, historyVars>>

\* The room whose visitors_now is left wrong when task t meets an error.
Miscounted(t) == IF Pc(t) \in {"count", "zero"} THEN {task[t].at} ELSE {}

\* cleanup and the cycle ignore the error (let _ = ...) and go on.
UpdateIgnored(t) ==
  /\ task[t].op = "cleanup" \/ t \in Room
  /\ \/ Pc(t) = "count" /\ Goto(t, "save")
     \/ Pc(t) = "zero" /\ AfterRemoval(t)
  /\ broken' = broken \cup Miscounted(t)
  /\ UNCHANGED <<roomVars, sessionVars, where, unspawned, raceVars>>

-----------------------------------------------------------------------------
(* The packets of a session                                                *)

ResetLocal(u) ==
  /\ cur' = [cur EXCEPT ![u] = NoRoom]
  /\ uid' = [uid EXCEPT ![u] = NoUid]

\* reconcile_room_state_with_online_user, which begins every packet: no handler
\* below runs while the row says the user was taken out of the room.
Detached(u) == uid[u] # NoUid /\ where[u] = NoRoom

Reconcile(u) ==
  /\ Pc(u) = "ready" /\ Detached(u)
  /\ ResetLocal(u)
  /\ UNCHANGED <<roomVars, task, goal, where, historyVars, raceVars>>

AtPacket(u) == Pc(u) = "ready" /\ ~Detached(u)

\* "@B" from outside, admitted.  The checks of this packet and of "@y" (state,
\* club, number of visitors, password, bell) only delay or refuse: see RoomAccess
\* in the README.
EnterRoomDetermine(u, r) ==
  /\ AtPacket(u) /\ uid[u] = NoUid
  /\ cur' = [cur EXCEPT ![u] = r]
  /\ UNCHANGED <<roomVars, task, uid, goal, where, historyVars, raceVars>>

\* "@B" from inside a room: the avatar leaves it before r is looked at.
EnterFromInside(u, r) ==
  /\ AtPacket(u) /\ uid[u] # NoUid
  /\ Begin(u, "leave", cur[u])
  /\ goal' = [goal EXCEPT ![u] = r]
  /\ UNCHANGED <<roomVars, cur, uid, where, historyVars, raceVars>>

\* "@|" loads the room, "A@" puts the avatar in it, and a hundred others, such as
\* a walk, change something else in the room and save it.
UseRoom(u) ==
  /\ AtPacket(u) /\ cur[u] # NoRoom
  /\ \E o \in {"load", "enter", "touch"} : Begin(u, o, cur[u])
  /\ UNCHANGED <<roomVars, sessionVars, where, historyVars, raceVars>>

\* An operation of u that has no avatar to take out goes to its end at once.
TakeOut(u, o) ==
  IF cur[u] # NoRoom /\ uid[u] # NoUid
    THEN Begin(u, o, cur[u])
    ELSE task' = [task EXCEPT ![u].pc = "row", ![u].op = o]

\* "@u".
LeaveRoom(u) ==
  /\ AtPacket(u) /\ cur[u] # NoRoom
  /\ TakeOut(u, "leave")
  /\ UNCHANGED <<roomVars, sessionVars, where, historyVars, raceVars>>

\* The end of enter_room_add_user.
EnterRow(u) ==
  /\ Pc(u) = "row" /\ task[u].op = "enter" /\ Rest(u, "ready")
  /\ uid' = [uid EXCEPT ![u] = task[u].copy[u]]
  /\ where' = [where EXCEPT ![u] = task[u].at]
  /\ WritesRow(u, u)
  /\ UNCHANGED <<roomVars, cur, goal, historyVars>>

\* The end of leave_room; a "@B" that goes on is refused or admitted.
LeaveRow(u) ==
  /\ Pc(u) = "row" /\ task[u].op = "leave" /\ Rest(u, "ready")
  /\ \E r \in {NoRoom, goal[u]} : cur' = [cur EXCEPT ![u] = r]
  /\ uid' = [uid EXCEPT ![u] = NoUid]
  /\ goal' = [goal EXCEPT ![u] = NoRoom]
  /\ where' = [where EXCEPT ![u] = NoRoom]
  /\ WritesRow(u, u)
  /\ UNCHANGED <<roomVars, historyVars>>

-----------------------------------------------------------------------------
(* The end of a session                                                    *)

\* cleanup, which does not reconcile: the uid is the one the session remembers.
Cleanup(u) ==
  /\ Pc(u) = "ready"
  /\ TakeOut(u, "cleanup")
  /\ UNCHANGED <<roomVars, sessionVars, where, historyVars, raceVars>>

CleanupRow(u) ==
  /\ Pc(u) = "row" /\ task[u].op = "cleanup" /\ Rest(u, "offline")
  /\ ResetLocal(u)
  /\ where' = [where EXCEPT ![u] = NoRoom]
  /\ WritesRow(u, u)
  /\ UNCHANGED <<roomVars, goal, historyVars>>

\* A database or socket error: the session ends where it stands.
Fail(u) ==
  /\ Pc(u) \in {"ready", "load", "count", "zero"} /\ task[u].op # "cleanup"
  /\ Rest(u, "offline")
  /\ ResetLocal(u)
  /\ goal' = [goal EXCEPT ![u] = NoRoom]
  /\ broken' = broken \cup {u} \cup Miscounted(u)
  /\ stale' = stale \ {u}
  /\ UNCHANGED <<roomVars, where, unspawned, overtaken>>

\* The user logs in again, on a new session and a new online row.
Login(u) ==
  /\ Pc(u) = "offline" /\ Rest(u, "ready")
  /\ where' = [where EXCEPT ![u] = NoRoom]
  /\ WritesRow(u, u)
  /\ UNCHANGED <<roomVars, sessionVars, historyVars>>

-----------------------------------------------------------------------------
(* Kicks, and the cycle of a room                                          *)

\* kick_online_user_from_current_room: one user, from where the row says he is.
KickUser(k, u) ==
  /\ Pc(k) = "idle" /\ where[u] # NoRoom
  /\ task' = [task EXCEPT ![k] = [AtRest("fetch") EXCEPT
                !.op = "kick", !.at = where[u], !.targets = {u}]]
  /\ UNCHANGED <<roomVars, sessionVars, where, historyVars, raceVars>>

\* room_kick_lower_rank_users: all of them that are found in the kicker's room.
KickLowerRanks(k, r) ==
  /\ Pc(k) = "idle"
  /\ \E us \in SUBSET User :
       task' = [task EXCEPT ![k] = [AtRest("fetch") EXCEPT
                  !.op = "kick", !.at = r, !.targets = us]]
  /\ UNCHANGED <<roomVars, sessionVars, where, historyVars, raceVars>>

KickFails(k) ==
  /\ Pc(k) \in {"load", "count", "zero"} /\ Rest(k, "idle")
  /\ broken' = broken \cup Miscounted(k)
  /\ stale' = stale \ {k}
  /\ UNCHANGED <<roomVars, sessionVars, where, unspawned, overtaken>>

\* Every 410 ms, if something moved: process_status_cycle on a copy, in which
\* some users may have walked out of the door.
CycleTick(r) ==
  LET m == loaded[r] IN
  /\ Pc(r) = "sleep" /\ m # NotLoaded
  /\ \E out \in SUBSET Present(m) :
       task' = [task EXCEPT ![r] =
         [pc |-> IF out = Present(m) THEN "remove" ELSE "count", op |-> "cycle",
          at |-> r, copy |-> Without(m, out), targets |-> out]]
  /\ UNCHANGED <<roomVars, sessionVars, where, historyVars, raceVars>>

CycleFindsNoRoom(r) ==
  /\ Pc(r) = "sleep" /\ loaded[r] = NotLoaded /\ Rest(r, "gone")
  /\ UNCHANGED <<roomVars, sessionVars, where, historyVars, raceVars>>

\* After the loop: active_room_cycles forgets the room.
CycleEnds(r) ==
  /\ Pc(r) = "gone" /\ Rest(r, "none")
  /\ UNCHANGED <<roomVars, sessionVars, where, historyVars, raceVars>>

\* Mutant: the flags are cleared of whoever is still in the room.
ClearRowOfOthers(t, u) ==
  /\ Pc(t) = "row" /\ t \notin User /\ u \in task[t].targets
  /\ task' = [task EXCEPT ![t].targets = @ \ {u}]
  /\ where' = [v \in User |-> IF v \in Present(task[t].copy) THEN NoRoom ELSE where[v]]
  /\ WritesRow(t, u)
  /\ UNCHANGED <<roomVars, sessionVars, historyVars>>

\* A kick or a cycle clears the live room flags of one user it moved out.
ClearRow(t, u) ==
  /\ Pc(t) = "row" /\ t \notin User /\ u \in task[t].targets
  /\ task' = [task EXCEPT ![t].targets = @ \ {u}]
  /\ where' = [where EXCEPT ![u] = NoRoom]
  /\ WritesRow(t, u)
  /\ UNCHANGED <<roomVars, sessionVars, historyVars>>

RowsDone(t) ==
  /\ Pc(t) = "row" /\ t \notin User /\ task[t].targets = {}
  /\ Rest(t, IF t \in Room THEN "sleep" ELSE "idle")
  /\ stale' = stale \ {t}
  /\ UNCHANGED <<roomVars, sessionVars, where, historyVars, overtaken>>

-----------------------------------------------------------------------------
SessionStep(u) ==
  \/ Reconcile(u)
  \/ \E r \in Room : EnterRoomDetermine(u, r) \/ EnterFromInside(u, r)
  \/ UseRoom(u) \/ LeaveRoom(u) \/ EnterRow(u) \/ LeaveRow(u)
  \/ Cleanup(u) \/ CleanupRow(u) \/ Fail(u) \/ Login(u)

TaskStep(t) ==
  \/ FetchLoaded(t) \/ FetchAbsent(t) \/ AddRoom(t) \/ AddRoomTooLate(t)
  \/ Count(t) \/ SaveRoom(t) \/ RemoveRoom(t) \/ ZeroVisitors(t)
  \/ UpdateIgnored(t) \/ RowsDone(t) \/ \E u \in User : ClearRow(t, u)

Next ==
  \/ \E u \in User : SessionStep(u)
  \/ \E k \in Kicker : \/ \E u \in User : KickUser(k, u)
                       \/ \E r \in Room : KickLowerRanks(k, r)
                       \/ KickFails(k)
  \/ \E r \in Room : CycleTick(r) \/ CycleFindsNoRoom(r) \/ CycleEnds(r)
  \/ \E t \in Task : TaskStep(t)

Spec == Init /\ [][Next]_vars

-----------------------------------------------------------------------------
(* Properties                                                              *)

\* In every room, whatever saves raced, two avatars never share a uid and none
\* has a bot's: clients address units by it. (get_free_room_identifier on a
\* copy, and whole copies being saved.)
UidsDistinct ==
  \A r \in Room : loaded[r] # NotLoaded =>
    LET m == loaded[r] IN
    /\ \A u, v \in Present(m) : m[u] = m[v] => u = v
    /\ \A u \in Present(m) : m[u] \notin BotUid

\* If no save, removal or row write has been overtaken, every avatar in a loaded
\* room is that of a session which knows it is there, under the same uid, and
\* the online table says the same: no ghosts, and nobody is in two rooms.
\* (enter_room_add_user, leave_room, cleanup, kicks and the cycle together.)
AvatarOwned ==
  ~overtaken =>
    \A r \in Room, u \in User \ broken :
      IsIn(u, r) =>
        /\ cur[u] = r
        /\ \/ uid[u] = loaded[r][u] /\ where[u] = r
           \/ /\ Pc(u) = "row" /\ task[u].op = "enter"
              /\ task[u].copy[u] = loaded[r][u]

\* If nothing has been overtaken, the visitor count in the database is that of
\* the room, 0 when it is not loaded, as soon as no task is between the two
\* writes. (update_room_visitor_count before save_room, after remove_room.)
VisitorsAgree ==
  ~overtaken =>
    \A r \in Room \ broken :
      (\A t \in Task : UsesCopy(t) => task[t].at # r) =>
        visitors[r] = IF loaded[r] = NotLoaded THEN 0
                      ELSE Cardinality(Present(loaded[r]))

\* If nothing has been overtaken, a loaded room has a live cycle, except one
\* that was loaded between the end of its former cycle's loop and the removal
\* of that cycle from active_room_cycles.
CycleRuns ==
  ~overtaken =>
    \A r \in Room : loaded[r] # NotLoaded /\ r \notin unspawned =>
      Pc(r) \notin {"none", "gone", "zero"}

\* An avatar comes into a room only by its own "A@" or by a save that has been
\* overtaken: no other operation brings anybody in.
OnlyOwnEntrance ==
  [][\A r \in Room, u \in User :
       ~IsIn(u, r) /\ IsIn(u, r)'
         => (task[u].op = "enter" /\ Pc(u) = "save") \/ overtaken']_vars

-----------------------------------------------------------------------------
(* What the comments of the code say and the code does not do              *)

\* room_manager.rs: cycle-based removals clear the removed user's live room
\* flags.  The code does so only when somebody is left in the room.
CycleClearsFlags ==
  [][\A r \in Room :
       Pc(r) \in Busy /\ Pc(r)' \in Resting =>
         \A u \in task[r].targets : where'[u] = NoRoom]_vars

\* session_impl.rs: a session whose user was kicked reconciles its local fields
\* before it acts on the room again, so its cleanup takes out no other avatar.
\* cleanup does not reconcile, and the uid may be somebody else's by then.
CleanupSparesOthers ==
  [][\A u \in User, v \in User, r \in Room :
       /\ task[u].op = "cleanup" /\ Pc(u) \in {"save", "remove"}
       /\ Pc(u)' # Pc(u) /\ u \notin stale
       /\ v # u /\ IsIn(v, r)
       => IsIn(v, r)']_vars
=============================================================================
