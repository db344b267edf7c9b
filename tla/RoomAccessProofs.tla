--------------------------- MODULE RoomAccessProofs ---------------------------
(***************************************************************************)
(* Proofs about RoomAccess, for all sets of users, staff, guest rooms and  *)
(* public rooms, and any number of packets under way.                      *)
(***************************************************************************)
EXTENDS RoomAccess, TLAPS

USE RoomAccessAssumption

Task == User \cup {Cycle}

-----------------------------------------------------------------------------
\* The first state is well typed.
LEMMA TypeInit == Init => TypeOK
<1> SUFFICES ASSUME Init PROVE TypeOK
  OBVIOUS
<1>1. \A t \in Task : AtRest(t) \in TaskState
  BY DEF AtRest, TaskState, PC, Place, Door, Task
<1>2. task \in [User \cup {Cycle} -> TaskState]
  BY <1>1 DEF Init, Task
<1>3. Outside \in SessionState
  BY DEF Outside, SessionState, Place
<1> QED
  BY <1>2, <1>3 DEF Init, TypeOK, Place

\* The locals of a task: at rest, at another step, or with other values.
LEMMA TaskTyped ==
  ASSUME TypeOK, NEW t \in Task, NEW l \in TaskState, task' = [task EXCEPT ![t] = l]
  PROVE  task' \in [User \cup {Cycle} -> TaskState]
  BY DEF TypeOK, Task

LEMMA RestTyped ==
  ASSUME TypeOK, NEW t \in Task, Rest(t)
  PROVE  task' \in [User \cup {Cycle} -> TaskState]
<1>1. AtRest(t) \in TaskState
  BY DEF AtRest, TaskState, PC, Place, Door, Task
<1> QED
  BY <1>1, TaskTyped DEF Rest

LEMMA GotoTyped ==
  ASSUME TypeOK, NEW t \in Task, NEW p \in PC, NEW r \in Place, Goto(t, p, r)
  PROVE  task' \in [User \cup {Cycle} -> TaskState]
<1> DEFINE l == [task[t] EXCEPT !.pc = p, !.at = r]
<1>0. task[t] \in TaskState
  BY DEF TypeOK, Task
<1>1. l \in TaskState
  BY <1>0 DEF TaskState
<1>2. task' = [task EXCEPT ![t] = l]
  BY DEF Goto, TypeOK, Task
<1> QED
  BY <1>1, <1>2, TaskTyped

\* What a session remembers.
LEMMA SessTyped ==
  ASSUME TypeOK, NEW u \in User, NEW x \in SessionState, sess' = [sess EXCEPT ![u] = x]
  PROVE  sess' \in [User -> SessionState]
  BY DEF TypeOK

LEMMA SessionValues ==
  ASSUME TypeOK, NEW u \in User
  PROVE  /\ sess[u] \in SessionState /\ Cur(u) \in Place
         /\ Left(sess[u]) \in SessionState /\ Reset(sess[u]) \in SessionState
         /\ Synced(u) \in SessionState /\ Outside \in SessionState
<1>1. sess[u] \in SessionState /\ Cur(u) \in Place
  BY DEF TypeOK, SessionState, Cur
<1>2. Outside \in SessionState
  BY DEF Outside, SessionState, Place
<1>3. Left(sess[u]) \in SessionState /\ Reset(sess[u]) \in SessionState
  BY <1>1, <1>2 DEF Left, Reset, SessionState
<1>4. IsOwner(u, Cur(u)) \in BOOLEAN /\ HasRights(u, Cur(u)) \in BOOLEAN
  BY DEF IsOwner, HasRights
<1>5. Synced(u) \in SessionState
  BY <1>1, <1>4 DEF Synced, SessionState
<1> QED
  BY <1>1, <1>2, <1>3, <1>5

\* The parts of the state that are not locals of anybody.
World ==
  /\ exists \subseteq Room /\ super \subseteq Guest /\ door \in [Guest -> Door]
  /\ rights \subseteq Guest \X User /\ bans \subseteq Guest \X User
  /\ loaded \subseteq Room /\ avatars \in [Room -> SUBSET User]
  /\ \A r \in Room \ loaded : avatars[r] = {}
  /\ row \in [User -> Place] /\ allowed \in [User -> Place] /\ denied \in [User -> Place]
  /\ outlived \subseteq User

LEMMA TakeOutTyped ==
  ASSUME TypeOK, NEW u \in User, NEW r \in Room, TakeOut(u, r)
  PROVE  /\ loaded' \subseteq Room /\ avatars' \in [Room -> SUBSET User]
         /\ \A x \in Room \ loaded' : avatars'[x] = {}
  BY DEF TypeOK, TakeOut

LEMMA WriteTyped ==
  ASSUME NEW f \in [User -> Place], NEW S, NEW x \in Place
  PROVE  Write(f, S, x) \in [User -> Place]
  BY DEF Write

\* The locals keep their types in every step of a session, and only they change.
LEMMA EnterTask ==
  ASSUME TypeOK, NEW u \in User, EnterStep(u)
  PROVE  task' \in [User \cup {Cycle} -> TaskState]
<1>0. /\ u \in Task /\ NoRoom \in Place /\ Room \subseteq Place
      /\ task[u] \in TaskState /\ Cur(u) \in Place
      /\ {"gone", "admit", "sit", "decide"} \subseteq PC
  BY SessionValues DEF Task, Place, PC, TypeOK
<1>1. CASE UNCHANGED task
  BY <1>1 DEF TypeOK
<1>2. CASE Rest(u)
  BY <1>0, <1>2, RestTyped
<1>3. ASSUME NEW p \in {"gone", "admit", "sit"}, NEW r \in Place, Goto(u, p, r)
      PROVE  task' \in [User \cup {Cycle} -> TaskState]
  BY <1>0, <1>3, GotoTyped
<1>4. CASE CheckAccess(u)
  <2> DEFINE d == IF Cur(u) \in exists THEN door[Cur(u)] ELSE "open"
             l == [task[u] EXCEPT !.pc = "decide", !.door = d]
  <2>1. d \in Door
    BY <1>4 DEF CheckAccess, InGuestRoom, TypeOK, Door
  <2>2. task' = [task EXCEPT ![u] = l]
    BY <1>4 DEF CheckAccess, TypeOK
  <2> HIDE DEF d
  <2>3. l \in TaskState
    BY <1>0, <2>1 DEF TaskState
  <2> QED
    BY <1>0, <2>2, <2>3, TaskTyped
<1>5. CASE LeaveRow(u)
  <2>1. task[u].at \in Place
    BY <1>0 DEF TaskState
  <2> QED
    BY <1>2, <1>3, <1>5, <2>1 DEF LeaveRow
<1>6. ASSUME NEW r \in Place, Leave(u, r)
      PROVE  task' \in [User \cup {Cycle} -> TaskState]
  BY <1>3, <1>6 DEF Leave
<1>7. ASSUME NEW r \in Room, Determine(u, r)
      PROVE  task' \in [User \cup {Cycle} -> TaskState]
  BY <1>0, <1>3, <1>7 DEF Determine
<1>8. CASE LeaveUnseated(u) \/ AddUser(u)
  BY <1>0, <1>3, <1>8 DEF LeaveUnseated, AddUser
<1>9. CASE \/ Refuse(u) \/ Admit(u) \/ PassByTeleporter(u) \/ PassByBell(u) \/ PassFreely(u)
           \/ TurnAwayBanned(u) \/ PassAsked(u) \/ Wait(u) \/ SitDown(u) \/ Fail(u)
  BY <1>2, <1>9 DEF Refuse, Admit, PassByTeleporter, PassByBell, PassFreely,
                    TurnAwayBanned, PassAsked, Wait, SitDown, Fail
<1>10. CASE \/ Reconcile(u) \/ SyncPermissions(u) \/ ConsumeDenied(u) \/ GuestroomData(u)
            \/ LoadRoom(u) \/ AdoptAvatar(u) \/ CleanUp(u)
            \/ \E r \in Room : UseTeleporter(u, r)
  BY <1>1, <1>10 DEF Reconcile, SyncPermissions, ConsumeDenied, GuestroomData, LoadRoom,
                     AdoptAvatar, CleanUp, UseTeleporter
<1> QED
  BY <1>4, <1>5, <1>6, <1>7, <1>8, <1>9, <1>10 DEF EnterStep

LEMMA HostTask ==
  ASSUME TypeOK, NEW u \in User, HostStep(u)
  PROVE  task' \in [User \cup {Cycle} -> TaskState]
<1>0. /\ u \in Task /\ NoRoom \in Place /\ Room \subseteq Place /\ Guest \subseteq Room
      /\ task[u] \in TaskState /\ Cur(u) \in Place
      /\ {"answer", "oust", "ousted", "drop"} \subseteq PC
  BY SessionValues DEF Task, Place, PC, TypeOK, Guest
<1>1. ASSUME NEW v \in User, NEW yes \in BOOLEAN, AnswerDoorbell(u, v, yes)
      PROVE  task' \in [User \cup {Cycle} -> TaskState]
  <2> DEFINE l == [task[u] EXCEPT !.pc = "answer", !.at = Cur(u), !.with = v, !.yes = yes]
  <2>1. l \in TaskState
    BY <1>0 DEF TaskState
  <2>2. task' = [task EXCEPT ![u] = l]
    BY <1>1 DEF AnswerDoorbell, TypeOK
  <2> QED
    BY <1>0, <2>1, <2>2, TaskTyped
<1>2. ASSUME NEW v \in User, NEW ban \in BOOLEAN, Kick(u, v, ban)
      PROVE  task' \in [User \cup {Cycle} -> TaskState]
  <2> DEFINE l == [task[u] EXCEPT !.pc = "oust", !.with = v]
  <2>1. l \in TaskState
    BY <1>0 DEF TaskState
  <2>2. task' = [task EXCEPT ![u] = l]
    BY <1>2 DEF Kick, TypeOK
  <2> QED
    BY <1>0, <2>1, <2>2, TaskTyped
<1>3. CASE Oust(u)
  <2> DEFINE l == [task[u] EXCEPT !.pc = "ousted"]
  <2>1. l \in TaskState
    BY <1>0 DEF TaskState
  <2>2. task' = [task EXCEPT ![u] = l]
    BY <1>3 DEF Oust, TypeOK
  <2> QED
    BY <1>0, <2>1, <2>2, TaskTyped
<1>4. ASSUME NEW r \in Guest, DeleteRows(u, r)
      PROVE  task' \in [User \cup {Cycle} -> TaskState]
  BY <1>0, <1>4, GotoTyped DEF DeleteRows
<1>5. CASE MarkAnswer(u) \/ OustNobody(u) \/ OustRow(u) \/ \E r \in Guest : DropRoom(u, r)
  BY <1>0, <1>5, RestTyped DEF MarkAnswer, OustNobody, OustRow, DropRoom
<1>6. CASE \/ \E v \in User, give \in BOOLEAN : ChangeRights(u, v, give)
           \/ \E r \in Guest, d \in Door, all \in BOOLEAN : Modify(u, r, d, all)
  BY <1>6 DEF ChangeRights, Modify, TypeOK
<1> QED
  BY <1>1, <1>2, <1>3, <1>4, <1>5, <1>6 DEF HostStep

\* What a session remembers keeps its type; its own steps change nobody else's.
LEMMA EnterSess ==
  ASSUME TypeOK, NEW u \in User, EnterStep(u)
  PROVE  /\ sess' \in [User -> SessionState]
         /\ \A v \in User \ {u} : sess'[v] = sess[v]
<1> DEFINE Done(x) == x \in SessionState /\ sess' = [sess EXCEPT ![u] = x]
<1> SUFFICES ASSUME TRUE PROVE \E x : Done(x)
  BY SessTyped DEF TypeOK
<1>0. /\ sess[u] \in SessionState /\ sess = [sess EXCEPT ![u] = sess[u]]
      /\ Left(sess[u]) \in SessionState /\ Reset(sess[u]) \in SessionState
      /\ Synced(u) \in SessionState /\ Outside \in SessionState
      /\ task[u].at \in Place /\ Room \subseteq Place /\ NoRoom \in Place
  BY SessionValues DEF TypeOK, TaskState, Place
<1>1. CASE UNCHANGED sess
  <2>1. Done(sess[u])
    BY <1>0, <1>1
  <2> QED
    BY <2>1
<1>2. CASE Reconcile(u) \/ LeaveUnseated(u) \/ \E r \in Place : Leave(u, r)
  <2>1. Done(Left(sess[u]))
    BY <1>0, <1>2 DEF Reconcile, LeaveUnseated, Leave, TypeOK
  <2> QED
    BY <2>1
<1>3. CASE SyncPermissions(u) \/ CheckAccess(u)
  <2>1. Done(Synced(u))
    BY <1>0, <1>3 DEF SyncPermissions, CheckAccess
  <2> QED
    BY <2>1
<1>4. CASE TurnAwayBanned(u) \/ ConsumeDenied(u)
  <2>1. Done(Reset(sess[u]))
    BY <1>0, <1>4 DEF TurnAwayBanned, ConsumeDenied, TypeOK
  <2> QED
    BY <2>1
<1>5. CASE CleanUp(u) \/ Fail(u)
  <2>1. Done(Outside)
    BY <1>0, <1>5 DEF CleanUp, Fail
  <2> QED
    BY <2>1
<1>6. CASE Admit(u)
  <2> DEFINE b == task[u].at \in Public
             x == [sess[u] EXCEPT !.cur = task[u].at, !.secondary = b,
                                  !.owner = FALSE, !.rights = FALSE]
  <2>1. b \in BOOLEAN
    OBVIOUS
  <2>2. sess' = [sess EXCEPT ![u] = x]
    BY <1>6 DEF Admit, TypeOK
  <2> HIDE DEF b
  <2>3. x \in SessionState
    BY <1>0, <2>1 DEF SessionState
  <2>4. Done(x)
    BY <2>2, <2>3
  <2> QED
    BY <2>4
<1>7. CASE PassByTeleporter(u) \/ PassByBell(u) \/ PassFreely(u) \/ PassAsked(u)
  <2> DEFINE x == [sess[u] EXCEPT !.secondary = TRUE]
  <2>1. x \in SessionState
    BY <1>0 DEF SessionState
  <2>2. sess' = [sess EXCEPT ![u] = x]
    BY <1>7 DEF PassByTeleporter, PassByBell, PassFreely, PassAsked, Pass, TypeOK
  <2>3. Done(x)
    BY <2>1, <2>2
  <2> QED
    BY <2>3
<1>8. CASE GuestroomData(u)
  <2> DEFINE b == sess[u].owner \/ u \in Staff
             c == sess[u].rights \/ sess[u].owner \/ u \in Staff
             x == [sess[u] EXCEPT !.owner = b, !.rights = c]
  <2>1. b \in BOOLEAN /\ c \in BOOLEAN
    OBVIOUS
  <2>2. sess' = [sess EXCEPT ![u] = x]
    BY <1>8 DEF GuestroomData, TypeOK
  <2> HIDE DEF b, c
  <2>3. x \in SessionState
    BY <1>0, <2>1 DEF SessionState
  <2>4. Done(x)
    BY <2>2, <2>3
  <2> QED
    BY <2>4
<1>9. CASE AdoptAvatar(u)
  <2> DEFINE x == [sess[u] EXCEPT !.inside = TRUE]
  <2>1. x \in SessionState
    BY <1>0 DEF SessionState
  <2>2. sess' = [sess EXCEPT ![u] = x]
    BY <1>9 DEF AdoptAvatar, TypeOK
  <2>3. Done(x)
    BY <2>1, <2>2
  <2> QED
    BY <2>3
<1>10. CASE AddUser(u)
  <2> DEFINE to == IF ByTeleporter(u) THEN NoRoom ELSE sess[u].tele
             x == [sess[u] EXCEPT !.inside = TRUE, !.tele = to]
  <2>1. to \in Place
    BY <1>0 DEF SessionState
  <2>2. sess' = [sess EXCEPT ![u] = x]
    BY <1>10 DEF AddUser, TypeOK
  <2> HIDE DEF to
  <2>3. x \in SessionState
    BY <1>0, <2>1 DEF SessionState
  <2>4. Done(x)
    BY <2>2, <2>3
  <2> QED
    BY <2>4
<1>11. ASSUME NEW r \in Room, UseTeleporter(u, r)
       PROVE  \E x : Done(x)
  <2> DEFINE x == [sess[u] EXCEPT !.tele = r]
  <2>1. x \in SessionState
    BY <1>0 DEF SessionState
  <2>2. sess' = [sess EXCEPT ![u] = x]
    BY <1>11 DEF UseTeleporter, TypeOK
  <2>3. Done(x)
    BY <2>1, <2>2
  <2> QED
    BY <2>3
<1>12. CASE \/ LeaveRow(u) \/ Refuse(u) \/ Wait(u) \/ LoadRoom(u) \/ SitDown(u)
            \/ \E r \in Room : Determine(u, r)
  BY <1>1, <1>12 DEF LeaveRow, Refuse, Wait, LoadRoom, SitDown, Determine
<1> QED
  BY <1>2, <1>3, <1>4, <1>5, <1>6, <1>7, <1>8, <1>9, <1>10, <1>11, <1>12 DEF EnterStep

LEMMA HostSess ==
  ASSUME TypeOK, NEW u \in User, HostStep(u)
  PROVE  /\ sess' \in [User -> SessionState]
         /\ \A v \in User \ {u} : sess'[v] = sess[v]
<1>1. ASSUME NEW v \in User, NEW give \in BOOLEAN, ChangeRights(u, v, give)
      PROVE  sess' = [sess EXCEPT ![u] = Synced(u)]
  BY <1>1 DEF ChangeRights
<1>2. ASSUME ~ \E v \in User, give \in BOOLEAN : ChangeRights(u, v, give)
      PROVE  UNCHANGED sess
  BY <1>2 DEF HostStep, AnswerDoorbell, Kick, MarkAnswer, Oust, OustNobody, OustRow,
              DeleteRows, DropRoom, Modify
<1> QED
  BY <1>1, <1>2, SessionValues, SessTyped DEF TypeOK

-----------------------------------------------------------------------------
\* The rows, the rooms and the tables keep their types.
LEMMA EnterWorld ==
  ASSUME TypeOK, NEW u \in User, EnterStep(u)
  PROVE  World'
<1>0. /\ World /\ Cur(u) \in Place /\ NoRoom \in Place
      /\ Cur(u) # NoRoom => Cur(u) \in Room
  BY SessionValues DEF TypeOK, World, Place
<1>1. UNCHANGED dbVars
  BY DEF EnterStep, Reconcile, LeaveRow, LeaveUnseated, Leave, Determine, UseTeleporter,
         Refuse, Admit, SyncPermissions, CheckAccess, PassByTeleporter, PassByBell,
         PassFreely, TurnAwayBanned, PassAsked, Wait, ConsumeDenied, GuestroomData,
         LoadRoom, AdoptAvatar, AddUser, SitDown, CleanUp, Fail
<1>2. outlived' \subseteq User
  <2>1. \/ outlived' = outlived \/ outlived' = outlived \ {u}
        \/ outlived' = outlived \cup {u}
    BY DEF EnterStep, Reconcile, LeaveRow, LeaveUnseated, Leave, Determine,
         UseTeleporter, Refuse, Admit, SyncPermissions, CheckAccess, PassByTeleporter,
         PassByBell, PassFreely, TurnAwayBanned, PassAsked, Wait, ConsumeDenied,
         GuestroomData, LoadRoom, AdoptAvatar, AddUser, SitDown, CleanUp, Fail
  <2> QED
    BY <1>0, <2>1 DEF World
<1>3. row' \in [User -> Place]
  BY <1>0 DEF World, EnterStep, Reconcile, LeaveRow, LeaveUnseated, Leave, Determine,
         UseTeleporter, Refuse, Admit, SyncPermissions, CheckAccess, PassByTeleporter,
         PassByBell, PassFreely, TurnAwayBanned, PassAsked, Wait, ConsumeDenied,
         GuestroomData, LoadRoom, AdoptAvatar, AddUser, SitDown, CleanUp, Fail
<1>4. allowed' \in [User -> Place] /\ denied' \in [User -> Place]
  <2>1. /\ Write(allowed, {u}, NoRoom) \in [User -> Place]
        /\ Write(denied, {u}, NoRoom) \in [User -> Place]
    BY <1>0, WriteTyped DEF World
  <2> QED
    BY <1>0, <2>1 DEF World, markers, EnterStep, Reconcile, LeaveRow, LeaveUnseated,
         Leave, Determine, UseTeleporter, Refuse, Admit, SyncPermissions, CheckAccess,
         PassByTeleporter, PassByBell, PassFreely, TurnAwayBanned, PassAsked, Wait,
         ConsumeDenied, GuestroomData, LoadRoom, AdoptAvatar, AddUser, SitDown, CleanUp,
         Fail
<1>5. /\ loaded' \subseteq Room /\ avatars' \in [Room -> SUBSET User]
      /\ \A r \in Room \ loaded' : avatars'[r] = {}
  <2>1. CASE UNCHANGED roomVars
    BY <1>0, <2>1 DEF World, roomVars
  <2>2. CASE CleanUp(u) \/ \E r \in Place : Leave(u, r)
    BY <1>0, <2>1, <2>2, TakeOutTyped DEF CleanUp, Leave, Stands
  <2>3. CASE LoadRoom(u)
    BY <1>0, <2>3 DEF LoadRoom, Proceeds, World
  <2>4. CASE AddUser(u)
    BY <1>0, <2>4 DEF AddUser, Proceeds, World
  <2>5. ASSUME ~CleanUp(u), ~LoadRoom(u), ~AddUser(u), ~ \E r \in Place : Leave(u, r)
        PROVE  UNCHANGED roomVars
    BY <2>5 DEF EnterStep, Reconcile, LeaveRow, LeaveUnseated, Determine, UseTeleporter,
         Refuse, Admit, SyncPermissions, CheckAccess, PassByTeleporter, PassByBell,
         PassFreely, TurnAwayBanned, PassAsked, Wait, ConsumeDenied, GuestroomData,
         AdoptAvatar, SitDown, Fail
  <2> QED
    BY <2>1, <2>2, <2>3, <2>4, <2>5
<1> QED
  BY <1>0, <1>1, <1>2, <1>3, <1>4, <1>5 DEF World, dbVars

LEMMA HostWorld ==
  ASSUME TypeOK, NEW u \in User, HostStep(u)
  PROVE  World'
<1>0. /\ World /\ Cur(u) \in Place /\ NoRoom \in Place /\ Guest \subseteq Room
      /\ task[u] \in TaskState /\ task[u].with \in User /\ task[u].at \in Place
      /\ \A v \in User : row[v] \in Place
  BY SessionValues DEF TypeOK, World, Place, Guest, TaskState
<1>1. ASSUME NEW v \in User, NEW yes \in BOOLEAN, AnswerDoorbell(u, v, yes)
      PROVE  World'
  BY <1>0, <1>1 DEF AnswerDoorbell, World, dbVars, roomVars, markers
<1>2. CASE MarkAnswer(u)
  <2>1. allowed' \in [User -> Place] /\ denied' \in [User -> Place]
    BY <1>0, <1>2, WriteTyped DEF MarkAnswer, World
  <2>2. outlived' \subseteq User
    BY <1>0, <1>2 DEF MarkAnswer, World
  <2> QED
    BY <1>0, <1>2, <2>1, <2>2 DEF MarkAnswer, World, dbVars, roomVars
<1>3. ASSUME NEW v \in User, NEW ban \in BOOLEAN, Kick(u, v, ban)
      PROVE  World'
  BY <1>0, <1>3 DEF Kick, InGuestRoom, World, roomVars, markers
<1>4. CASE Oust(u)
  <2> DEFINE v == task[u].with
  <2>1. row[v] \in Room /\ TakeOut(v, row[v])
    BY <1>0, <1>4 DEF Oust, Place
  <2>2. allowed' \in [User -> Place] /\ denied' \in [User -> Place]
    BY <1>0, <1>4, WriteTyped DEF Oust, World
  <2> QED
    BY <1>0, <1>4, <2>1, <2>2, TakeOutTyped DEF Oust, World, dbVars
<1>5. CASE OustRow(u)
  BY <1>0, <1>5 DEF OustRow, World, dbVars, roomVars, markers
<1>6. CASE OustNobody(u)
  BY <1>0, <1>6 DEF OustNobody, World, dbVars, roomVars, markers
<1>7. ASSUME NEW v \in User, NEW give \in BOOLEAN, ChangeRights(u, v, give)
      PROVE  World'
  BY <1>0, <1>7 DEF ChangeRights, InGuestRoom, World, roomVars, markers
<1>8. ASSUME NEW r \in Guest, DeleteRows(u, r)
      PROVE  World'
  BY <1>0, <1>8 DEF DeleteRows, World, roomVars, markers
<1>9. ASSUME NEW r \in Guest, DropRoom(u, r)
      PROVE  World'
  BY <1>0, <1>9 DEF DropRoom, World, dbVars, markers
<1>10. ASSUME NEW r \in Guest, NEW d \in Door, NEW all \in BOOLEAN, Modify(u, r, d, all)
       PROVE  World'
  BY <1>0, <1>10 DEF Modify, World, roomVars, markers
<1> QED
  BY <1>1, <1>2, <1>3, <1>4, <1>5, <1>6, <1>7, <1>8, <1>9, <1>10 DEF HostStep

\* The steps that are nobody's packet.
LEMMA OtherStep ==
  ASSUME TypeOK,
         \/ \E v \in User, r \in Room : WalkOut(v, r)
         \/ OustRow(Cycle)
         \/ \E v \in User, r \in Guest : BanRunsOut(r, v)
  PROVE  World' /\ UNCHANGED sess /\ task' \in [User \cup {Cycle} -> TaskState]
<1>0. /\ World /\ NoRoom \in Place /\ Cycle \in Task
      /\ task[Cycle] \in TaskState /\ task[Cycle].with \in User
  BY DEF TypeOK, World, Place, TaskState, Task
<1>1. ASSUME NEW v \in User, NEW r \in Room, WalkOut(v, r)
      PROVE  World' /\ UNCHANGED sess /\ task' \in [User \cup {Cycle} -> TaskState]
  <2> DEFINE l == [task[Cycle] EXCEPT !.pc = "ousted", !.with = v]
  <2>1. l \in TaskState
    BY <1>0 DEF TaskState, PC
  <2>2. task' = [task EXCEPT ![Cycle] = l]
    BY <1>1 DEF WalkOut, TypeOK
  <2>3. task' \in [User \cup {Cycle} -> TaskState]
    BY <1>0, <2>1, <2>2, TaskTyped
  <2>4. allowed' \in [User -> Place] /\ denied' \in [User -> Place]
    BY <1>0, <1>1, WriteTyped DEF WalkOut, World
  <2>5. World'
    BY <1>0, <1>1, <2>4, TakeOutTyped DEF WalkOut, World, dbVars
  <2> QED
    BY <1>1, <2>3, <2>5 DEF WalkOut
<1>2. CASE OustRow(Cycle)
  BY <1>0, <1>2, RestTyped DEF OustRow, World, dbVars, roomVars, markers
<1>3. ASSUME NEW v \in User, NEW r \in Guest, BanRunsOut(r, v)
      PROVE  World' /\ UNCHANGED sess /\ task' \in [User \cup {Cycle} -> TaskState]
  BY <1>0, <1>3 DEF BanRunsOut, World, roomVars, markers, TypeOK
<1> QED
  BY <1>1, <1>2, <1>3

LEMMA MetTyped ==
  ASSUME TypeOK, Remember
  PROVE  met' \in [User -> SUBSET Reason]
  BY DEF TypeOK, Remember, Reasons

LEMMA TypeStep == TypeOK /\ [Next]_vars => TypeOK'
<1> SUFFICES ASSUME TypeOK, [Next]_vars PROVE TypeOK'
  OBVIOUS
<1>1. CASE Next
  <2>1. World' /\ sess' \in [User -> SessionState] /\ task' \in [User \cup {Cycle} -> TaskState]
    <3>1. sess \in [User -> SessionState]
      BY DEF TypeOK
    <3> QED
      BY <1>1, <3>1, EnterTask, EnterSess, EnterWorld, HostTask, HostSess, HostWorld,
         OtherStep DEF Next, Step
  <2>2. met' \in [User -> SUBSET Reason]
    BY <1>1, MetTyped DEF Next
  <2> QED
    BY <2>1, <2>2 DEF TypeOK, World
<1>2. CASE UNCHANGED vars
  BY <1>2 DEF vars, dbVars, roomVars, markers, TypeOK
<1> QED
  BY <1>1, <1>2

\* In every behaviour the rows, the rooms, the tables of markers and what sessions
\* remember keep their types: no room that is not loaded has users in it.
THEOREM TypeCorrect == Spec => []TypeOK
  BY TypeInit, TypeStep, PTL DEF Spec

-----------------------------------------------------------------------------
\* Who acts: in every step all sessions but one keep what they remember and where
\* they are in their packets.
Keeps(v) == sess'[v] = sess[v] /\ task'[v] = task[v]

LEMMA TaskOfOthers ==
  ASSUME TypeOK, NEW u \in Task, NEW l, task' = [task EXCEPT ![u] = l]
  PROVE  task'[u] = l /\ \A t \in Task \ {u} : task'[t] = task[t]
  BY DEF TypeOK, Task

LEMMA OneActs ==
  ASSUME TypeOK, NEW u \in User, EnterStep(u) \/ HostStep(u)
  PROVE  \A v \in User \ {u} : Keeps(v)
<1>1. \A v \in User \ {u} : sess'[v] = sess[v]
  BY EnterSess, HostSess
<1>2. \A v \in User \ {u} : task'[v] = task[v]
  BY DEF TypeOK, EnterStep, Reconcile, LeaveRow, LeaveUnseated, Leave, Determine,
         UseTeleporter, Refuse, Admit, SyncPermissions, CheckAccess, PassByTeleporter,
         PassByBell, PassFreely, TurnAwayBanned, PassAsked, Wait, ConsumeDenied,
         GuestroomData, LoadRoom, AdoptAvatar, AddUser, SitDown, CleanUp, Fail, HostStep,
         AnswerDoorbell, MarkAnswer, Kick, Oust, OustNobody, OustRow, ChangeRights,
         DeleteRows, DropRoom, Modify, Rest, Goto
<1> QED
  BY <1>1, <1>2 DEF Keeps

LEMMA NobodyActs ==
  ASSUME TypeOK,
         \/ \E v \in User, r \in Room : WalkOut(v, r)
         \/ OustRow(Cycle)
         \/ \E v \in User, r \in Guest : BanRunsOut(r, v)
  PROVE  \A v \in User : Keeps(v)
  BY OtherStep DEF TypeOK, WalkOut, OustRow, BanRunsOut, Rest, Keeps

-----------------------------------------------------------------------------
\* What a session believes, and why: what it passed or is about to pass the door for
\* has been a reason since it asked for the room.
Entitled(u) == "welcome" \in met[u] \/ {"door", "unbanned"} \subseteq met[u]

Believes(u) ==
  /\ Pc(u) = "admit" => task[u].at \in Room
  /\ sess[u].secondary => Cur(u) # NoRoom /\ Entitled(u)
  /\ sess[u].rights => Cur(u) # NoRoom /\ "power" \in met[u]
  /\ sess[u].owner => u \in Staff \/ (Cur(u) \in Guest /\ Owner[Cur(u)] = u)
  /\ Pc(u) = "decide" =>
       /\ Cur(u) \in Guest
       /\ sess[u].owner \/ task[u].door = "open" => "welcome" \in met[u]
       /\ task[u].door \in {"password", "other"} => "door" \in met[u]
  /\ Cur(u) # NoRoom => Reasons(u) \subseteq met[u]

\* Reasons are remembered while the session asks for the same room.
LEMMA Remembered ==
  ASSUME TypeOK, Remember, NEW u \in User
  PROVE  /\ Cur(u)' # NoRoom => (Reasons(u))' \subseteq met'[u]
         /\ Cur(u)' # NoRoom /\ Cur(u)' = Cur(u) => met[u] \subseteq met'[u]
  BY DEF Remember, TypeOK

LEMMA KeepsBelieving ==
  ASSUME TypeOK, Remember, NEW u \in User, Believes(u), Keeps(u)
  PROVE  Believes(u)'
<1>1. sess'[u] = sess[u] /\ task'[u] = task[u] /\ Cur(u)' = Cur(u) /\ Pc(u)' = Pc(u)
  BY DEF Keeps, Cur, Pc
<1>2. Cur(u) # NoRoom => (Reasons(u))' \subseteq met'[u] /\ met[u] \subseteq met'[u]
  BY <1>1, Remembered
<1>3. Cur(u) \in Guest => Cur(u) # NoRoom
  BY RoomAccessAssumption DEF Guest
<1>4. sess'[u].secondary => Cur(u)' # NoRoom /\ Entitled(u)'
  BY <1>1, <1>2 DEF Believes, Entitled
<1> QED
  BY <1>1, <1>2, <1>3, <1>4 DEF Believes

LEMMA EnterBelieves ==
  ASSUME TypeOK, TypeOK', Remember, NEW u \in User, Believes(u), EnterStep(u)
  PROVE  Believes(u)'
<1>0. /\ sess[u] \in SessionState /\ task[u] \in TaskState /\ NoRoom \notin Room
      /\ sess'[u] \in SessionState /\ Guest \subseteq Room /\ Public \cap Guest = {}
  BY DEF TypeOK, Guest
<1>1. /\ Cur(u)' # NoRoom => (Reasons(u))' \subseteq met'[u]
      /\ Cur(u)' # NoRoom /\ Cur(u)' = Cur(u) => met[u] \subseteq met'[u]
  BY Remembered
\* Outside, nothing is believed.
<1>2. ASSUME ~sess'[u].secondary, ~sess'[u].rights, ~sess'[u].owner,
             Pc(u)' \notin {"admit", "decide"}
      PROVE  Believes(u)'
  BY <1>1, <1>2 DEF Believes
\* A session that believes no more than before.
<1>3. ASSUME Cur(u)' = Cur(u), sess'[u].secondary => sess[u].secondary,
             sess'[u].rights => sess[u].rights, sess'[u].owner => sess[u].owner,
             Pc(u)' \notin {"admit", "decide"}
      PROVE  Believes(u)'
  <2>1. Cur(u) # NoRoom => met[u] \subseteq met'[u]
    BY <1>1, <1>3
  <2>2. sess'[u].secondary => Cur(u)' # NoRoom /\ Entitled(u)'
    BY <1>3, <2>1 DEF Believes, Entitled
  <2>3. sess'[u].rights => Cur(u)' # NoRoom /\ "power" \in met'[u]
    BY <1>3, <2>1 DEF Believes
  <2>4. sess'[u].owner => u \in Staff \/ (Cur(u)' \in Guest /\ Owner[Cur(u)'] = u)
    BY <1>3 DEF Believes
  <2> QED
    BY <1>1, <1>3, <2>2, <2>3, <2>4 DEF Believes
<1>4. CASE Reconcile(u) \/ LeaveUnseated(u) \/ \E r \in Place : Leave(u, r)
  <2>1. sess'[u] = Left(sess[u]) /\ Pc(u)' \in {"ready", "gone"}
    BY <1>0, <1>4 DEF Reconcile, LeaveUnseated, Leave, TypeOK, Goto, Pc, TaskState
  <2> QED
    BY <1>2, <2>1 DEF Left, Outside
<1>5. CASE TurnAwayBanned(u) \/ ConsumeDenied(u)
  <2>1. sess'[u] = Reset(sess[u]) /\ Pc(u)' = "ready"
    BY <1>0, <1>5 DEF TurnAwayBanned, ConsumeDenied, TypeOK, Rest, AtRest, Pc, Packet
  <2> QED
    BY <1>2, <2>1 DEF Reset, Outside
<1>6. CASE CleanUp(u) \/ Fail(u)
  <2>1. sess'[u] = Outside /\ Pc(u)' = "ready"
    BY <1>0, <1>6 DEF CleanUp, Fail, TypeOK, Rest, AtRest, Pc
  <2> QED
    BY <1>2, <2>1 DEF Outside
<1>7. CASE LeaveRow(u) \/ \E r \in Room : Determine(u, r)
  <2>1. UNCHANGED sess
    BY <1>7 DEF LeaveRow, Determine
  <2>2. Pc(u)' = "ready" \/ (Pc(u)' = "admit" /\ task'[u].at \in Room)
    BY <1>0, <1>7 DEF LeaveRow, Determine, TypeOK, Rest, AtRest, Goto, Pc, TaskState, Place
  <2>3. Cur(u)' = Cur(u)
    BY <2>1 DEF Cur
  <2> QED
    BY <1>1, <2>1, <2>2, <2>3 DEF Believes, Entitled
<1>8. CASE Refuse(u) \/ Wait(u) \/ SitDown(u) \/ LoadRoom(u)
  <2>1. UNCHANGED sess /\ Pc(u)' = "ready"
    BY <1>0, <1>8 DEF Refuse, Wait, SitDown, LoadRoom, Proceeds, Packet, TypeOK, Rest,
                      AtRest, Pc
  <2> QED
    BY <1>3, <2>1 DEF Cur
<1>9. CASE AdoptAvatar(u) \/ AddUser(u) \/ \E r \in Room : UseTeleporter(u, r)
  <2>1. /\ Cur(u)' = Cur(u) /\ sess'[u].secondary = sess[u].secondary
        /\ sess'[u].rights = sess[u].rights /\ sess'[u].owner = sess[u].owner
    BY <1>0, <1>9 DEF AdoptAvatar, AddUser, UseTeleporter, TypeOK, Cur, SessionState
  <2>2. Pc(u)' \in {"ready", "sit"}
    BY <1>0, <1>9 DEF AdoptAvatar, AddUser, UseTeleporter, Proceeds, Packet, TypeOK, Goto,
                      Pc, TaskState
  <2> QED
    BY <1>3, <2>1, <2>2
\* Into a public room there is a welcome; of another nothing is known yet.
<1>10. CASE Admit(u)
  <2>1. /\ Cur(u)' = task[u].at /\ sess'[u].secondary = (task[u].at \in Public)
        /\ ~sess'[u].rights /\ ~sess'[u].owner
    BY <1>0, <1>10 DEF Admit, TypeOK, Cur, SessionState
  <2>2. Pc(u)' = "ready" /\ task[u].at \in Room
    BY <1>10 DEF Admit, TypeOK, Rest, AtRest, Pc, Believes
  <2>3. Cur(u)' \in Public => "welcome" \in (Reasons(u))'
    BY DEF Reasons, Welcome, Reason
  <2> QED
    BY <1>0, <1>1, <2>1, <2>2, <2>3 DEF Believes, Entitled
\* What is read from the database is so now.
<1>11. CASE SyncPermissions(u) \/ CheckAccess(u)
  <2>0. sess'[u] = Synced(u) /\ Cur(u) \in Guest /\ UNCHANGED dbVars
    BY <1>11 DEF SyncPermissions, CheckAccess, TypeOK, InGuestRoom
  <2>1. /\ sess'[u] = Synced(u) /\ Cur(u)' = Cur(u) /\ Cur(u) \in Guest
        /\ UNCHANGED dbVars
    BY <1>0, <2>0 DEF Synced, Cur, SessionState
  <2>2. /\ sess'[u].secondary = sess[u].secondary
        /\ sess'[u].owner = IsOwner(u, Cur(u)) /\ sess'[u].rights = HasRights(u, Cur(u))
    BY <1>0, <2>1 DEF Synced, SessionState
  <2>3. Reasons(u) \subseteq met[u] /\ Cur(u) # NoRoom /\ met[u] \subseteq met'[u]
    BY <1>0, <1>1, <2>1 DEF Believes
  <2>4. sess'[u].rights => "power" \in met'[u]
    BY <2>2, <2>3 DEF Reasons, Reason
  <2>5. sess'[u].owner => Owner[Cur(u)] = u /\ "welcome" \in met'[u]
    BY <2>2, <2>3 DEF Reasons, Reason, Welcome, IsOwner
  <2>6. CASE SyncPermissions(u)
    <3>1. Pc(u)' = "ready"
      BY <2>6 DEF SyncPermissions, Packet, Pc
    <3> QED
      BY <1>1, <2>1, <2>2, <2>3, <2>4, <2>5, <3>1 DEF Believes, Entitled
  <2>7. CASE CheckAccess(u)
    <3>1. /\ Pc(u)' = "decide"
          /\ task'[u].door = IF Cur(u) \in exists THEN door[Cur(u)] ELSE "open"
      BY <1>0, <2>7 DEF CheckAccess, TypeOK, Pc, TaskState
    <3>2. task'[u].door = "open" => "welcome" \in met'[u]
      BY <2>1, <2>3, <3>1 DEF Reasons, Reason, Welcome
    <3>3. task'[u].door \in {"password", "other"} => "door" \in met'[u]
      BY <2>1, <2>3, <3>1 DEF Reasons, Reason
    <3> QED
      BY <1>1, <2>1, <2>2, <2>3, <2>4, <2>5, <3>1, <3>2, <3>3 DEF Believes, Entitled
  <2> QED
    BY <1>11, <2>6, <2>7
\* Each way to pass has its reason.
<1>12. CASE PassByTeleporter(u) \/ PassByBell(u) \/ PassFreely(u) \/ PassAsked(u)
  <2>1. /\ Cur(u)' = Cur(u) /\ sess'[u].secondary
        /\ sess'[u].rights = sess[u].rights /\ sess'[u].owner = sess[u].owner
    BY <1>0, <1>12 DEF PassByTeleporter, PassByBell, PassFreely, PassAsked, AskedFurther,
                       Pass, TypeOK, Cur, SessionState
  <2>2. Pc(u)' = "ready" /\ Pc(u) = "decide"
    BY <1>12 DEF PassByTeleporter, PassByBell, PassFreely, PassAsked, AskedFurther, TypeOK,
                 Rest, AtRest, Pc
  <2>3. Cur(u) \in Guest /\ Cur(u) # NoRoom /\ Reasons(u) \subseteq met[u]
    BY <1>0, <2>2 DEF Believes
  <2>4. Entitled(u)
    <3>1. CASE PassByTeleporter(u) \/ PassByBell(u)
      BY <2>3, <3>1 DEF PassByTeleporter, PassByBell, Entitled, Reasons, Reason, Welcome
    <3>2. CASE PassFreely(u)
      BY <2>2, <3>2 DEF PassFreely, Freely, Believes, Entitled
    <3>3. CASE PassAsked(u)
      BY <2>2, <2>3, <3>3 DEF PassAsked, Believes, Entitled, Reasons, Reason
    <3> QED
      BY <1>12, <3>1, <3>2, <3>3
  <2> QED
    BY <1>1, <2>1, <2>2, <2>3, <2>4 DEF Believes, Entitled
<1>13. CASE GuestroomData(u)
  <2>1. /\ Cur(u)' = Cur(u) /\ sess'[u].secondary = sess[u].secondary
        /\ sess'[u].owner = (sess[u].owner \/ u \in Staff)
        /\ sess'[u].rights = (sess[u].rights \/ sess[u].owner \/ u \in Staff)
    BY <1>0, <1>13 DEF GuestroomData, TypeOK, Cur, SessionState
  <2>2. Pc(u)' = "ready" /\ Cur(u) \in exists /\ Cur(u) \in Guest
    BY <1>13 DEF GuestroomData, Proceeds, Packet, InGuestRoom, Pc
  <2>3. Cur(u) # NoRoom /\ Reasons(u) \subseteq met[u] /\ met[u] \subseteq met'[u]
    BY <1>0, <1>1, <2>1, <2>2 DEF Believes
  <2>4. sess'[u].rights => "power" \in met'[u]
    BY <2>1, <2>2, <2>3 DEF Believes, Reasons, Reason, HasRights, IsOwner
  <2> QED
    BY <1>1, <2>1, <2>2, <2>3, <2>4 DEF Believes, Entitled
<1> QED
  BY <1>4, <1>5, <1>6, <1>7, <1>8, <1>9, <1>10, <1>11, <1>12, <1>13 DEF EnterStep

LEMMA HostBelieves ==
  ASSUME TypeOK, TypeOK', Remember, NEW u \in User, Believes(u), HostStep(u)
  PROVE  Believes(u)'
<1>0. /\ sess[u] \in SessionState /\ task[u] \in TaskState /\ NoRoom \notin Room
      /\ Guest \subseteq Room
  BY DEF TypeOK, Guest
<1>1. /\ Cur(u)' # NoRoom => (Reasons(u))' \subseteq met'[u]
      /\ Cur(u)' # NoRoom /\ Cur(u)' = Cur(u) => met[u] \subseteq met'[u]
  BY Remembered
<1>2. Pc(u)' \notin {"admit", "decide"}
  <2>0. task \in [Task -> TaskState] /\ u \in Task
    BY DEF TypeOK, Task
  <2>1. ASSUME NEW v \in User, NEW yes \in BOOLEAN,
               AnswerDoorbell(u, v, yes) \/ Kick(u, v, yes)
        PROVE  Pc(u)' \in {"answer", "oust"}
    BY <2>0, <2>1 DEF AnswerDoorbell, Kick, Pc, TaskState
  <2>2. ASSUME NEW v \in User, NEW give \in BOOLEAN, ChangeRights(u, v, give)
        PROVE  Pc(u)' = "ready"
    BY <2>2 DEF ChangeRights, Packet, Pc
  <2>3. CASE MarkAnswer(u) \/ OustNobody(u) \/ OustRow(u)
    BY <2>0, <2>3 DEF MarkAnswer, OustNobody, OustRow, Rest, AtRest, Pc
  <2>4. CASE Oust(u)
    <3>1. task' = [task EXCEPT ![u].pc = "ousted"]
      BY <2>4 DEF Oust
    <3> QED
      BY <2>0, <3>1 DEF Pc, TaskState
  <2>5. ASSUME NEW r \in Guest, DeleteRows(u, r) \/ DropRoom(u, r)
        PROVE  Pc(u)' \in {"drop", "ready"}
    BY <2>0, <2>5 DEF DeleteRows, DropRoom, Rest, AtRest, Goto, Pc, TaskState
  <2>6. ASSUME NEW r \in Guest, NEW d \in Door, NEW all \in BOOLEAN, Modify(u, r, d, all)
        PROVE  Pc(u)' = "ready"
    BY <2>6 DEF Modify, Packet, Pc
  <2> QED
    BY <2>1, <2>2, <2>3, <2>4, <2>5, <2>6 DEF HostStep
<1>3. CASE UNCHANGED sess
  BY <1>1, <1>2, <1>3 DEF Believes, Entitled, Cur
<1>4. ASSUME NEW v \in User, NEW give \in BOOLEAN, ChangeRights(u, v, give)
      PROVE  Believes(u)'
  <2>1. sess'[u] = Synced(u) /\ Cur(u)' = Cur(u) /\ Cur(u) \in Guest
    BY <1>0, <1>4 DEF ChangeRights, TypeOK, Synced, Cur, SessionState, InGuestRoom
  <2>2. /\ sess'[u].secondary = sess[u].secondary
        /\ sess'[u].owner = IsOwner(u, Cur(u)) /\ sess'[u].rights = HasRights(u, Cur(u))
    BY <1>0, <2>1 DEF Synced, SessionState
  <2>3. Reasons(u) \subseteq met[u] /\ Cur(u) # NoRoom /\ met[u] \subseteq met'[u]
    BY <1>0, <1>1, <2>1 DEF Believes
  <2>4. sess'[u].rights => "power" \in met'[u]
    BY <2>2, <2>3 DEF Reasons, Reason
  <2>5. sess'[u].owner => Owner[Cur(u)] = u
    BY <2>2 DEF IsOwner
  <2> QED
    BY <1>1, <1>2, <2>1, <2>2, <2>3, <2>4, <2>5 DEF Believes, Entitled
<1>5. ASSUME ~ \E v \in User, give \in BOOLEAN : ChangeRights(u, v, give)
      PROVE  UNCHANGED sess
  BY <1>5 DEF HostStep, AnswerDoorbell, Kick, MarkAnswer, Oust, OustNobody, OustRow,
              DeleteRows, DropRoom, Modify
<1> QED
  BY <1>3, <1>4, <1>5

AllBelieve == \A u \in User : Believes(u)

LEMMA BelieveStep == TypeOK /\ AllBelieve /\ [Next]_vars => AllBelieve'
<1> SUFFICES ASSUME TypeOK, AllBelieve, [Next]_vars, NEW v \in User PROVE Believes(v)'
  BY DEF AllBelieve
<1>0. TypeOK' /\ Believes(v)
  BY TypeStep DEF AllBelieve
<1>1. ASSUME Remember, NEW u \in User, EnterStep(u) \/ HostStep(u)
      PROVE  Believes(v)'
  <2>1. CASE v = u
    BY <1>0, <1>1, <2>1, EnterBelieves, HostBelieves
  <2>2. CASE v # u
    BY <1>0, <1>1, <2>2, OneActs, KeepsBelieving
  <2> QED
    BY <2>1, <2>2
<1>2. ASSUME Remember, Step, ~ \E u \in User : EnterStep(u) \/ HostStep(u)
      PROVE  Believes(v)'
  BY <1>0, <1>2, NobodyActs, KeepsBelieving DEF Step
<1>3. CASE UNCHANGED vars
  BY <1>0, <1>3 DEF vars, dbVars, roomVars, markers, Believes, Entitled, Reasons, Welcome,
       ByTeleporter, ByBell, Banned, IsOwner, HasRights, Cur, Pc
<1> QED
  BY <1>1, <1>2, <1>3 DEF Next

LEMMA BelieveInit == Init => AllBelieve
  BY DEF Init, AllBelieve, Believes, AtRest, Outside, Cur, Pc

LEMMA BelieveAlways == Spec => []AllBelieve
<1>1. Init => TypeOK /\ AllBelieve
  BY TypeInit, BelieveInit
<1>2. TypeOK /\ AllBelieve /\ [Next]_vars => (TypeOK /\ AllBelieve)'
  BY TypeStep, BelieveStep
<1> QED
  BY <1>1, <1>2, PTL DEF Spec

\* Nobody gets past a door for a reason that was not one for this room.
THEOREM OnlyInvited == Spec => []Invited
<1>1. AllBelieve => Invited
  BY DEF AllBelieve, Believes, Entitled, Invited
<1> QED
  BY <1>1, BelieveAlways, PTL

\* No session acts with the rights of another room or another visit.
THEOREM RightsAreOfThisRoom == Spec => []RightsOfThisRoom
<1>1. AllBelieve => RightsOfThisRoom
  BY DEF AllBelieve, Believes, RightsOfThisRoom
<1> QED
  BY <1>1, BelieveAlways, PTL

-----------------------------------------------------------------------------
\* The markers of a user are for the room of its row; and while its row is about
\* to be cleared, by itself or by somebody else, it has none.
Leaving(v) == Pc(v) = "gone" \/ BeingOusted(v)
Unmarked(v) == allowed[v] = NoRoom /\ denied[v] = NoRoom
Marked(v) ==
  v \notin outlived => /\ {allowed[v], denied[v]} \subseteq {NoRoom, row[v]}
                       /\ Leaving(v) => Unmarked(v)

LEMMA Unwritten ==
  ASSUME TypeOK, NEW u \in User
  PROVE  /\ Write(allowed, {u}, NoRoom)[u] = NoRoom /\ Write(denied, {u}, NoRoom)[u] = NoRoom
         /\ \A v \in User \ {u} : /\ Write(allowed, {u}, NoRoom)[v] = allowed[v]
                                  /\ Write(denied, {u}, NoRoom)[v] = denied[v]
  BY DEF TypeOK, Write

\* A user without markers, and one for whom nothing changes but that a marker goes
\* or that it is not leaving any more.
LEMMA UnmarkedMarked ==
  ASSUME NEW v \in User, Unmarked(v)'
  PROVE  Marked(v)'
  BY DEF Unmarked, Marked

LEMMA StaysMarked ==
  ASSUME NEW v \in User, Marked(v), row'[v] = row[v],
         allowed'[v] \in {allowed[v], NoRoom}, denied'[v] \in {denied[v], NoRoom},
         v \in outlived => v \in outlived', Leaving(v)' => Leaving(v)
  PROVE  Marked(v)'
  BY DEF Marked, Unmarked

\* Nobody else's packet makes a user leave, unless it takes it out.
LEMMA NotLeaving ==
  ASSUME TypeOK, NEW v \in User, NEW t \in Task,
         \A o \in Task \ {t} : task'[o] = task[o],
         t = v => Pc(t)' # "gone",
         \/ Pc(t)' # "ousted"
         \/ Pc(t) = "ousted" /\ task'[t].with = task[t].with
  PROVE  Leaving(v)' => Leaving(v)
<1>1. Pc(v)' = "gone" => Pc(v) = "gone"
  BY DEF Pc, Task
<1>2. BeingOusted(v)' => BeingOusted(v)
  BY DEF BeingOusted, Pc, Task
<1> QED
  BY <1>1, <1>2 DEF Leaving

\* A user whose packet leaves its own room, or is turned away, has no markers left.
Clears(u) ==
  Reconcile(u) \/ LeaveUnseated(u) \/ CleanUp(u) \/ \E r \in Place : Leave(u, r)

LEMMA ClearsMarked ==
  ASSUME TypeOK, NEW u \in User, NEW v \in User, Marked(v), Clears(u)
  PROVE  Marked(v)'
<1>0. /\ allowed' = Write(allowed, {u}, NoRoom) /\ denied' = Write(denied, {u}, NoRoom)
      /\ outlived' = outlived \ {u} /\ \A o \in User \ {u} : row'[o] = row[o]
  BY DEF Clears, Reconcile, LeaveUnseated, CleanUp, Leave, TypeOK
<1>1. CASE v = u
  <2>1. allowed'[v] = NoRoom /\ denied'[v] = NoRoom
    BY <1>0, <1>1, Unwritten
  <2>2. Unmarked(v)'
    BY ONLY <2>1 DEF Unmarked
  <2> QED
    BY ONLY <2>2, v \in User, UnmarkedMarked
<1>2. CASE v # u
  <2>1. /\ \A o \in Task \ {u} : task'[o] = task[o]
        /\ u \in Task /\ Pc(u)' \in {"ready", "gone"}
    BY DEF Clears, Reconcile, LeaveUnseated, CleanUp, Leave, Packet, Goto, TypeOK, Task,
           Pc, TaskState
  <2>2. Leaving(v)' => Leaving(v)
    BY <1>2, <2>1, NotLeaving
  <2>3. /\ allowed'[v] = allowed[v] /\ denied'[v] = denied[v] /\ row'[v] = row[v]
        /\ v \in outlived => v \in outlived'
    BY <1>0, <1>2, Unwritten
  <2> QED
    BY <2>2, <2>3, StaysMarked
<1> QED
  BY <1>1, <1>2

\* The other packets of a user who goes its own way: one of its markers may be used.
LEMMA EnterMarked ==
  ASSUME TypeOK, NEW u \in User, NEW v \in User, Marked(v), EnterStep(u)
  PROVE  Marked(v)'
<1>0. u \in Task /\ task \in [Task -> TaskState] /\ row \in [User -> Place]
  BY DEF TypeOK, Task
<1>1. CASE Clears(u)
  BY <1>1, ClearsMarked
<1>2. CASE ~Clears(u)
  <2>1. \A o \in Task \ {u} : task'[o] = task[o]
    BY <1>0, <1>2 DEF EnterStep, Clears, LeaveRow, Determine,
         UseTeleporter, Refuse, Admit, SyncPermissions, CheckAccess, PassByTeleporter,
         PassByBell, PassFreely, TurnAwayBanned, PassAsked, Wait, ConsumeDenied,
         GuestroomData, LoadRoom, AdoptAvatar, AddUser, SitDown, Fail, Rest, Goto
  <2>2. Pc(u)' \notin {"gone", "ousted"}
    <3>1. CASE LeaveRow(u) \/ \E r \in Room : Determine(u, r)
      BY <1>0, <3>1 DEF LeaveRow, Determine, Rest, AtRest, Goto, Pc, TaskState
    <3>2. CASE CheckAccess(u)
      BY <1>0, <3>2 DEF CheckAccess, Pc, TaskState
    <3>3. CASE \/ Refuse(u) \/ Admit(u) \/ PassByTeleporter(u) \/ PassByBell(u)
               \/ PassFreely(u) \/ TurnAwayBanned(u) \/ PassAsked(u) \/ Wait(u)
               \/ SitDown(u) \/ Fail(u)
      BY <1>0, <3>3 DEF Refuse, Admit, PassByTeleporter, PassByBell, PassFreely,
           TurnAwayBanned, PassAsked, Wait, SitDown, Fail, Rest, AtRest, Pc
    <3>4. CASE AddUser(u)
      BY <1>0, <3>4 DEF AddUser, Goto, Pc, TaskState
    <3>5. CASE \/ SyncPermissions(u) \/ ConsumeDenied(u) \/ GuestroomData(u)
               \/ LoadRoom(u) \/ AdoptAvatar(u) \/ \E r \in Room : UseTeleporter(u, r)
      BY <3>5 DEF SyncPermissions, ConsumeDenied, GuestroomData, LoadRoom, AdoptAvatar,
           UseTeleporter, Proceeds, Packet, Pc
    <3> QED
      BY <1>2, <3>1, <3>2, <3>3, <3>4, <3>5 DEF EnterStep, Clears
  <2>3. Leaving(v)' => Leaving(v)
    BY <1>0, <2>1, <2>2, NotLeaving
  <2>4. CASE LeaveRow(u) \/ Fail(u)
    <3>1. /\ UNCHANGED <<allowed, denied>>
          /\ \A o \in User \ {u} : row'[o] = row[o] /\ (o \in outlived => o \in outlived')
      BY <1>0, <2>4 DEF LeaveRow, Fail, markers
    <3>2. ASSUME v = u, u \notin outlived' PROVE Unmarked(u)
      BY <2>4, <3>2 DEF LeaveRow, Fail, Marked, Leaving, Unmarked
    <3>3. CASE v = u
      BY <3>1, <3>2, <3>3 DEF Unmarked, Marked
    <3>4. CASE v # u
      BY <2>3, <3>1, <3>4, StaysMarked
    <3> QED
      BY <3>3, <3>4
  <2>5. CASE SitDown(u)
    <3>1. /\ UNCHANGED <<allowed, denied>> /\ row'[u] = Cur(u)
          /\ \A o \in User \ {u} : row'[o] = row[o] /\ (o \in outlived => o \in outlived')
          /\ u \notin outlived' => /\ {allowed[u], denied[u]} \subseteq {NoRoom, Cur(u)}
                                   /\ u \in outlived => ~BeingOusted(u)
      BY <1>0, <2>5 DEF SitDown, markers
    <3>2. CASE v = u
      <4>1. Pc(u)' # "gone" /\ Pc(u) # "gone"
        BY <2>2, <2>5 DEF SitDown
      <4>2. ASSUME u \notin outlived', Leaving(u)' PROVE Unmarked(u)
        BY <2>3, <3>1, <3>2, <4>1, <4>2 DEF Leaving, Marked
      <4> QED
        BY <3>1, <3>2, <4>2 DEF Marked, Unmarked
    <3>3. CASE v # u
      BY <2>3, <3>1, <3>3, StaysMarked
    <3> QED
      BY <3>2, <3>3
  <2>6. CASE PassByBell(u) \/ ConsumeDenied(u)
    <3>1. /\ UNCHANGED row
          /\ \/ allowed' = Write(allowed, {u}, NoRoom) /\ denied' = denied
             \/ denied' = Write(denied, {u}, NoRoom) /\ allowed' = allowed
      BY <2>6 DEF PassByBell, ConsumeDenied
    <3>2. allowed'[v] \in {allowed[v], NoRoom} /\ denied'[v] \in {denied[v], NoRoom}
      <4>1. /\ Write(allowed, {u}, NoRoom)[v] \in {allowed[v], NoRoom}
            /\ Write(denied, {u}, NoRoom)[v] \in {denied[v], NoRoom}
        BY ONLY TypeOK, u \in User, v \in User DEF TypeOK, Write
      <4> QED
        BY ONLY <3>1, <4>1
    <3>3. CASE v \in outlived => v \in outlived'
      BY <2>3, <3>1, <3>2, <3>3, StaysMarked
    <3>4. CASE v \in outlived /\ v \notin outlived'
      <4>1. /\ outlived' = IF denied[u] = NoRoom THEN outlived \ {u} ELSE outlived
            /\ allowed' = Write(allowed, {u}, NoRoom) /\ denied' = denied
         \/ /\ outlived' = IF allowed[u] = NoRoom THEN outlived \ {u} ELSE outlived
            /\ denied' = Write(denied, {u}, NoRoom) /\ allowed' = allowed
        BY ONLY <2>6 DEF PassByBell, ConsumeDenied
      <4>2. v = u /\ allowed'[u] = NoRoom /\ denied'[u] = NoRoom
        BY <3>4, <4>1, Unwritten
      <4> QED
        BY <4>2, UnmarkedMarked DEF Unmarked
    <3> QED
      BY <3>3, <3>4
  <2>7. ASSUME ~LeaveRow(u), ~Fail(u), ~SitDown(u), ~PassByBell(u), ~ConsumeDenied(u)
        PROVE  UNCHANGED <<row, allowed, denied, outlived>>
    BY <1>2, <2>7 DEF EnterStep, Clears, Determine, UseTeleporter, Refuse, Admit,
         SyncPermissions, CheckAccess, PassByTeleporter, PassFreely, TurnAwayBanned,
         PassAsked, Wait, GuestroomData, LoadRoom, AdoptAvatar, AddUser, markers
  <2> QED
    BY <2>3, <2>4, <2>5, <2>6, <2>7, StaysMarked
<1> QED
  BY <1>1, <1>2

\* The packets about others: the answer to a bell, and the way out of a kick.
LEMMA AnswerMarked ==
  ASSUME TypeOK, NEW u \in User, NEW v \in User, Marked(v), MarkAnswer(u)
  PROVE  Marked(v)'
<1> DEFINE w == task[u].with
           r == task[u].at
<1>0. /\ u \in Task /\ task \in [Task -> TaskState] /\ w \in User
      /\ UNCHANGED row
      /\ allowed' = Write(allowed, {w}, IF task[u].yes THEN r ELSE NoRoom)
      /\ denied' = denied \/ denied' = Write(denied, {w}, r)
      /\ outlived \subseteq outlived'
  BY DEF TypeOK, Task, TaskState, MarkAnswer
<1>1. Leaving(v)' => Leaving(v)
  <2>1. (\A o \in Task \ {u} : task'[o] = task[o]) /\ Pc(u)' = "ready"
    BY <1>0 DEF MarkAnswer, Rest, AtRest, Pc
  <2> QED
    BY <1>0, <2>1, NotLeaving
<1>2. CASE v # w
  <2>1. allowed'[v] = allowed[v] /\ denied'[v] = denied[v]
    BY <1>0, <1>2 DEF Write, TypeOK
  <2> QED
    BY <1>0, <1>1, <2>1, StaysMarked
<1>3. CASE v = w
  <2>1. /\ allowed'[v] \in {r, NoRoom} /\ denied'[v] \in {denied[v], r}
    BY <1>0, <1>3 DEF Write, TypeOK
  <2>2. CASE r = NoRoom
    BY <1>0, <1>1, <2>1, <2>2 DEF Marked, Unmarked
  <2>3. CASE r # NoRoom /\ VisitOver(v, r)
    BY <1>0, <1>3, <2>3 DEF MarkAnswer, Marked
  <2>4. CASE r # NoRoom /\ ~VisitOver(v, r)
    <3>1. row[v] = r /\ ~Leaving(v)
      BY <2>4 DEF VisitOver, Leaving
    <3> QED
      BY <1>0, <1>1, <2>1, <3>1 DEF Marked
  <2> QED
    BY <2>2, <2>3, <2>4
<1> QED
  BY <1>2, <1>3

\* A user who is taken out of a room has no markers left; its row still says where
\* it was.
LEMMA OustMarked ==
  ASSUME TypeOK, NEW t \in Task, NEW w \in User, NEW v \in User, Marked(v),
         \A o \in Task \ {t} : task'[o] = task[o], Pc(t)' = "ousted", task'[t].with = w,
         allowed' = Write(allowed, {w}, NoRoom), denied' = Write(denied, {w}, NoRoom),
         outlived' = outlived \ {w}, UNCHANGED row
  PROVE  Marked(v)'
<1>1. CASE v = w
  <2>1. allowed'[v] = NoRoom /\ denied'[v] = NoRoom
    BY <1>1, Unwritten
  <2>2. Unmarked(v)'
    BY ONLY <2>1 DEF Unmarked
  <2> QED
    BY ONLY <2>2, v \in User, UnmarkedMarked
<1>2. CASE v # w
  <2>1. Leaving(v)' => Leaving(v)
    <3>1. Pc(v)' = "gone" => Pc(v) = "gone"
      BY DEF Pc, Task
    <3>2. BeingOusted(v)' => BeingOusted(v)
      BY <1>2 DEF BeingOusted, Pc, Task
    <3> QED
      BY <3>1, <3>2 DEF Leaving
  <2>2. allowed'[v] = allowed[v] /\ denied'[v] = denied[v]
    BY <1>2 DEF Write, TypeOK
  <2> QED
    BY <1>2, <2>1, <2>2, StaysMarked
<1> QED
  BY <1>1, <1>2

\* Its row is cleared when it has no markers, or markers that outlive the visit.
LEMMA OustRowMarked ==
  ASSUME TypeOK, NEW t \in Task, NEW v \in User, Marked(v), OustRow(t)
  PROVE  Marked(v)'
<1> DEFINE w == task[t].with
<1>0. /\ task \in [Task -> TaskState] /\ row \in [User -> Place] /\ w \in User
      /\ UNCHANGED <<allowed, denied, outlived>>
  BY DEF TypeOK, Task, TaskState, OustRow, markers
<1>1. Leaving(v)' => Leaving(v)
  <2>1. (\A o \in Task \ {t} : task'[o] = task[o]) /\ Pc(t)' = "ready"
    BY <1>0 DEF OustRow, Rest, AtRest, Pc
  <2> QED
    BY <2>1, NotLeaving
<1>2. CASE v = w
  <2>1. v \notin outlived => Unmarked(v)
    BY <1>2 DEF OustRow, Marked, Leaving, BeingOusted, Task
  <2> QED
    BY <1>0, <2>1 DEF Marked, Unmarked
<1>3. CASE v # w
  <2>1. row'[v] = row[v]
    BY <1>0, <1>3 DEF OustRow
  <2> QED
    BY <1>0, <1>1, <2>1, StaysMarked
<1> QED
  BY <1>2, <1>3

LEMMA HostMarked ==
  ASSUME TypeOK, NEW u \in User, NEW v \in User, Marked(v), HostStep(u)
  PROVE  Marked(v)'
<1>0. u \in Task /\ task \in [Task -> TaskState]
  BY DEF TypeOK, Task
<1>1. CASE MarkAnswer(u)
  BY <1>1, AnswerMarked
<1>2. CASE OustRow(u)
  BY <1>0, <1>2, OustRowMarked
<1>3. CASE Oust(u)
  <2>1. task' = [task EXCEPT ![u].pc = "ousted"] /\ task[u].with \in User
    BY <1>0, <1>3 DEF Oust, TaskState
  <2>2. /\ \A o \in Task \ {u} : task'[o] = task[o]
        /\ Pc(u)' = "ousted" /\ task'[u].with = task[u].with
    BY <1>0, <2>1 DEF Pc, TaskState
  <2> QED
    BY <1>0, <1>3, <2>1, <2>2, OustMarked DEF Oust
<1>4. CASE ~MarkAnswer(u) /\ ~OustRow(u) /\ ~Oust(u)
  <2>1. UNCHANGED <<row, allowed, denied, outlived>>
    BY <1>4 DEF HostStep, AnswerDoorbell, Kick, ChangeRights, OustNobody, DeleteRows,
         DropRoom, Modify, markers
  <2>2. /\ \A o \in Task \ {u} : task'[o] = task[o]
        /\ Pc(u)' \notin {"gone", "ousted"}
    <3>1. ASSUME NEW x \in User, NEW yes \in BOOLEAN, AnswerDoorbell(u, x, yes)
          PROVE  (\A o \in Task \ {u} : task'[o] = task[o]) /\ Pc(u)' = "answer"
      BY <1>0, <3>1 DEF AnswerDoorbell, Pc, TaskState
    <3>2. ASSUME NEW x \in User, NEW ban \in BOOLEAN, Kick(u, x, ban)
          PROVE  (\A o \in Task \ {u} : task'[o] = task[o]) /\ Pc(u)' = "oust"
      BY <1>0, <3>2 DEF Kick, Pc, TaskState
    <3>3. ASSUME NEW x \in User, NEW give \in BOOLEAN, ChangeRights(u, x, give)
          PROVE  UNCHANGED task /\ Pc(u)' = "ready"
      BY <3>3 DEF ChangeRights, Packet, Pc
    <3>4. CASE OustNobody(u)
      BY <1>0, <3>4 DEF OustNobody, Rest, AtRest, Pc
    <3>5. ASSUME NEW r \in Guest, DeleteRows(u, r) \/ DropRoom(u, r)
          PROVE  /\ \A o \in Task \ {u} : task'[o] = task[o]
                 /\ Pc(u)' \in {"drop", "ready"}
      BY <1>0, <3>5 DEF DeleteRows, DropRoom, Rest, AtRest, Goto, Pc, TaskState
    <3>6. ASSUME NEW r \in Guest, NEW d \in Door, NEW all \in BOOLEAN, Modify(u, r, d, all)
          PROVE  UNCHANGED task /\ Pc(u)' = "ready"
      BY <3>6 DEF Modify, Packet, Pc
    <3> QED
      BY <1>4, <3>1, <3>2, <3>3, <3>4, <3>5, <3>6 DEF HostStep
  <2>3. Leaving(v)' => Leaving(v)
    BY <1>0, <2>2, NotLeaving
  <2> QED
    BY <2>1, <2>3, StaysMarked
<1> QED
  BY <1>1, <1>2, <1>3, <1>4

LEMMA WalkOutMarked ==
  ASSUME TypeOK, NEW w \in User, NEW r \in Room, WalkOut(w, r), NEW v \in User, Marked(v)
  PROVE  Marked(v)'
<1>1. Cycle \in Task /\ task \in [Task -> TaskState]
  BY DEF TypeOK, Task
<1>2. task' = [task EXCEPT ![Cycle].pc = "ousted", ![Cycle].with = w]
  BY DEF WalkOut
<1>3. /\ \A o \in Task \ {Cycle} : task'[o] = task[o]
      /\ Pc(Cycle)' = "ousted" /\ task'[Cycle].with = w
  BY <1>1, <1>2 DEF Pc, TaskState
<1> QED
  BY <1>1, <1>3, OustMarked DEF WalkOut

AllMarked == \A v \in User : Marked(v)

LEMMA MarkedStep == TypeOK /\ AllMarked /\ [Next]_vars => AllMarked'
<1> SUFFICES ASSUME TypeOK, AllMarked, [Next]_vars, NEW v \in User PROVE Marked(v)'
  BY DEF AllMarked
<1>0. Marked(v)
  BY DEF AllMarked
<1>1. ASSUME NEW u \in User, EnterStep(u) \/ HostStep(u)
      PROVE  Marked(v)'
  BY <1>0, <1>1, EnterMarked, HostMarked
<1>2. ASSUME NEW w \in User, NEW r \in Room, WalkOut(w, r)
      PROVE  Marked(v)'
  BY <1>0, <1>2, WalkOutMarked
<1>3. CASE OustRow(Cycle)
  BY <1>0, <1>3, OustRowMarked DEF Task
<1>4. ASSUME \/ UNCHANGED vars
             \/ \E w \in User, r \in Guest : BanRunsOut(r, w)
      PROVE  Marked(v)'
  BY <1>0, <1>4 DEF vars, markers, BanRunsOut, Marked, Unmarked, Leaving, BeingOusted, Pc
<1> QED
  BY <1>1, <1>2, <1>3, <1>4 DEF Next, Step

LEMMA MarkedInit == Init => AllMarked
  BY DEF Init, AllMarked, Marked, Leaving, Unmarked, BeingOusted, AtRest, Pc

\* The answer to a door bell does not wait for another visit, whatever it races
\* with, unless it was given when the visit was ending.
THEOREM MarkersAreOfThisVisit == Spec => []MarkersOfThisVisit
<1>1. Init => TypeOK /\ AllMarked
  BY TypeInit, MarkedInit
<1>2. TypeOK /\ AllMarked /\ [Next]_vars => (TypeOK /\ AllMarked)'
  BY TypeStep, MarkedStep
<1>3. AllMarked => MarkersOfThisVisit
  BY DEF AllMarked, Marked, MarkersOfThisVisit
<1> QED
  BY <1>1, <1>2, <1>3, PTL DEF Spec
=============================================================================
