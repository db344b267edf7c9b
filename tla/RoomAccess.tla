------------------------------ MODULE RoomAccess ------------------------------
(***************************************************************************)
(* The doors of the rooms: who may come in, and what owners and holders of *)
(* rights may do there.                                                    *)
(*                                                                         *)
(* A session asks for a room ("@B"), has its access checked ("@y", guest   *)
(* rooms only), and then sends the packets that load the room and put its  *)
(* avatar there ("@{", "@|", ..., "A@").  What it found out is kept in the  *)
(* session; what others decide about it reaches it through the rooms, the  *)
(* online table and two tables of markers that the answers to a door bell  *)
(* leave.  A room is changed in one step here (RoomRegistry has its copies); *)
(* the game arena is a matter of Games.                                    *)
(*                                                                         *)
(* Sources: session_impl.rs (enter_room_..., leave_room, room_give_rights, *)
(* room_answer_doorbell, room_kick_or_ban, guestroom_...), state_impl.rs.  *)
(***************************************************************************)
EXTENDS FiniteSets

CONSTANTS
  User,        \* accounts, each with one session at a time
  Cycle,       \* the cycle that takes out the avatars that walk to the door
  Room, Public,
  NoRoom,      \* room id 0
  Owner,       \* rooms.owner of the guest rooms
  Staff        \* users with the fuse rights that open doors and govern rooms

ASSUME RoomAccessAssumption ==
  /\ User # {} /\ Public \subseteq Room /\ NoRoom \notin Room /\ Cycle \notin User
  /\ Owner \in [Room \ Public -> User] /\ Staff \subseteq User

Guest == Room \ Public
Place == Room \cup {NoRoom}
Door == {"open", "bell", "password", "other"}

VARIABLES
  exists,      \* rows of rooms
  door,        \* rooms.state
  super,       \* rooms.superusers
  rights,      \* room_rights
  bans,        \* room_bans that have not run out
  loaded,      \* loaded_rooms
  avatars,     \* the users in every loaded room
  row,         \* OnlineUser.room_id
  allowed,     \* pending_doorbell_access
  denied,      \* denied_doorbell_access
  sess,        \* what each session remembers
  task,        \* where each session is in its packet, and the locals
  met,         \* history: the reasons to let a user into the room it asks for,
               \* and to let it act there, that have been true since it asks
  outlived     \* history: the marker in the table is from an earlier visit

dbVars == <<exists, door, super, rights, bans>>
roomVars == <<loaded, avatars>>
markers == <<allowed, denied>>
vars == <<dbVars, roomVars, row, markers, sess, task, met, outlived>>

\* room_access_primary_ok is not kept: outside an arena it is set and cleared
\* together with current_room_id.
SessionState ==
  [cur : Place,            \* current_room_id
   secondary : BOOLEAN,    \* room_access_secondary_ok
   owner : BOOLEAN, rights : BOOLEAN,
   inside : BOOLEAN,       \* current_room_uid is Some
   tele : Place]           \* pending_teleporter_room_id
PC == {"ready", "decide", "gone", "admit", "sit", "answer", "oust", "ousted", "drop"}
Reason == {"welcome", "door", "unbanned", "power"}
TaskState ==
  [pc : PC, at : Place, door : Door, with : User, yes : BOOLEAN]

TypeOK ==
  /\ exists \subseteq Room /\ super \subseteq Guest /\ door \in [Guest -> Door]
  /\ rights \subseteq Guest \X User /\ bans \subseteq Guest \X User
  /\ loaded \subseteq Room /\ avatars \in [Room -> SUBSET User]
  /\ \A r \in Room \ loaded : avatars[r] = {}
  /\ row \in [User -> Place] /\ allowed \in [User -> Place] /\ denied \in [User -> Place]
  /\ sess \in [User -> SessionState] /\ task \in [User \cup {Cycle} -> TaskState]
  /\ met \in [User -> SUBSET Reason] /\ outlived \subseteq User

Outside ==
  [cur |-> NoRoom, secondary |-> FALSE, owner |-> FALSE, rights |-> FALSE,
   inside |-> FALSE, tele |-> NoRoom]
AtRest(t) ==
  [pc |-> "ready", at |-> NoRoom, door |-> "open",
   with |-> IF t \in User THEN t ELSE CHOOSE u \in User : TRUE, yes |-> FALSE]

Init ==
  /\ exists = Room /\ door \in [Guest -> Door]
  /\ super = {} /\ rights = {} /\ bans = {}
  /\ loaded = {} /\ avatars = [r \in Room |-> {}]
  /\ row = [u \in User |-> NoRoom]
  /\ allowed = [u \in User |-> NoRoom] /\ denied = [u \in User |-> NoRoom]
  /\ sess = [u \in User |-> Outside]
  /\ task = [t \in User \cup {Cycle} |-> AtRest(t)]
  /\ met = [u \in User |-> {}] /\ outlived = {}

-----------------------------------------------------------------------------
(* The shape of a packet                                                   *)

Pc(t) == task[t].pc
Cur(u) == sess[u].cur
Rest(t) == task' = [task EXCEPT ![t] = AtRest(t)]
Goto(t, p, r) == task' = [task EXCEPT ![t].pc = p, ![t].at = r]
Write(f, S, x) == [u \in User |-> IF u \in S THEN x ELSE f[u]]

\* should_reconcile_room_state: somebody else has taken the avatar out.
ShouldReconcile(u) == sess[u].inside /\ row[u] = NoRoom
\* A packet starts when there is nothing to reconcile.
Packet(u) == Pc(u) = "ready" /\ ~ShouldReconcile(u)
InGuestRoom(u) == Cur(u) \in Guest

\* What is left of a session's room: reset_pending_room_access.
Reset(s) == [Outside EXCEPT !.inside = s.inside, !.tele = s.tele]
Left(s) == [Outside EXCEPT !.tele = s.tele]

Reconcile(u) ==
  /\ Pc(u) = "ready" /\ ShouldReconcile(u)
  /\ sess' = [sess EXCEPT ![u] = Left(@)]
  /\ allowed' = Write(allowed, {u}, NoRoom) /\ denied' = Write(denied, {u}, NoRoom)
  /\ outlived' = outlived \ {u}
  /\ UNCHANGED <<dbVars, roomVars, row, task>>

\* The room without a user is saved, or dropped when it is empty.
TakeOut(u, r) ==
  LET rest == avatars[r] \ {u} IN
  /\ avatars' = [avatars EXCEPT ![r] = rest]
  /\ loaded' = IF rest = {} THEN loaded \ {r} ELSE loaded \cup {r}

-----------------------------------------------------------------------------
(* "@B" enter_room_determine and "@u" leave_room                           *)

\* Whether the session stands in a room is what it remembers.
Stands(u) == Cur(u) # NoRoom /\ sess[u].inside

\* Mutant: leave_room leaves the markers.
LeaveKeepingMarkers(u, r) ==
  /\ Packet(u) /\ Stands(u)
  /\ TakeOut(u, Cur(u))
  /\ sess' = [sess EXCEPT ![u] = Left(@)]
  /\ Goto(u, "gone", r)
  /\ UNCHANGED <<dbVars, row, markers, outlived>>

\* leave_room, by itself (r = NoRoom) or on the way to room r: out of the room,
\* no markers, nothing remembered; the row follows in a step of its own.
Leave(u, r) ==
  /\ Packet(u) /\ Stands(u)
  /\ TakeOut(u, Cur(u))
  /\ sess' = [sess EXCEPT ![u] = Left(@)]
  /\ allowed' = Write(allowed, {u}, NoRoom) /\ denied' = Write(denied, {u}, NoRoom)
  /\ outlived' = outlived \ {u}
  /\ Goto(u, "gone", r)
  /\ UNCHANGED <<dbVars, row>>

LeaveRow(u) ==
  /\ Pc(u) = "gone"
  /\ row' = [row EXCEPT ![u] = NoRoom]
  /\ IF task[u].at = NoRoom THEN Rest(u) ELSE Goto(u, "admit", task[u].at)
  /\ UNCHANGED <<dbVars, roomVars, markers, sess, outlived>>

\* "@u" from a room the avatar is not in, while the row says so as well.
LeaveUnseated(u) ==
  /\ Packet(u) /\ Cur(u) # NoRoom /\ ~sess[u].inside
  /\ sess' = [sess EXCEPT ![u] = Left(@)]
  /\ allowed' = Write(allowed, {u}, NoRoom) /\ denied' = Write(denied, {u}, NoRoom)
  /\ outlived' = outlived \ {u}
  /\ Goto(u, "gone", NoRoom)
  /\ UNCHANGED <<dbVars, roomVars, row>>

Determine(u, r) ==
  /\ Packet(u) /\ ~Stands(u) /\ Goto(u, "admit", r)
  /\ UNCHANGED <<dbVars, roomVars, row, markers, sess, outlived>>

\* Full, for club members, for staff; not asked on the way through a teleporter.
\* (The counts behind "full" are those of RoomRegistry.)
Refuse(u) ==
  /\ Pc(u) = "admit" /\ sess[u].tele = NoRoom /\ u \notin Staff
  /\ Rest(u)
  /\ UNCHANGED <<dbVars, roomVars, row, markers, sess, outlived>>

\* Mutant: the flags of the room asked for before are kept.
AdmitKeepingFlags(u) ==
  LET r == task[u].at IN
  /\ Pc(u) = "admit" /\ Rest(u)
  /\ sess' = [sess EXCEPT ![u].cur = r,
                          ![u].secondary = sess[u].secondary \/ r \in Public]
  /\ UNCHANGED <<dbVars, roomVars, row, markers, outlived>>

Admit(u) ==
  LET r == task[u].at IN
  /\ Pc(u) = "admit" /\ Rest(u)
  /\ sess' = [sess EXCEPT ![u] = [@ EXCEPT !.cur = r, !.secondary = r \in Public,
                                           !.owner = FALSE, !.rights = FALSE]]
  /\ UNCHANGED <<dbVars, roomVars, row, markers, outlived>>

-----------------------------------------------------------------------------
(* "@y" enter_room_check_access                                            *)

IsOwner(u, r) == r \in exists \cap Guest /\ Owner[r] = u
HasRights(u, r) ==
  IsOwner(u, r) \/ <<r, u>> \in rights \/ r \in exists \cap super

\* sync_current_room_permissions, and the start of "@y" and of many packets.
Synced(u) == [sess[u] EXCEPT !.owner = IsOwner(u, Cur(u)),
                             !.rights = HasRights(u, Cur(u))]
SyncPermissions(u) ==
  /\ Packet(u) /\ InGuestRoom(u)
  /\ sess' = [sess EXCEPT ![u] = Synced(u)]
  /\ UNCHANGED <<dbVars, roomVars, row, markers, task, outlived>>

\* The state of a room that is gone reads as 0.
CheckAccess(u) ==
  /\ Packet(u) /\ InGuestRoom(u)
  /\ sess' = [sess EXCEPT ![u] = Synced(u)]
  /\ task' = [task EXCEPT ![u].pc = "decide",
       ![u].door = IF Cur(u) \in exists THEN door[Cur(u)] ELSE "open"]
  /\ UNCHANGED <<dbVars, roomVars, row, markers, outlived>>

ByTeleporter(u) == sess[u].tele # NoRoom /\ sess[u].tele = Cur(u)
ByBell(u) == allowed[u] # NoRoom /\ allowed[u] = Cur(u)
Freely(u) == sess[u].owner \/ task[u].door = "open"

Pass(u) == sess' = [sess EXCEPT ![u].secondary = TRUE]

PassByTeleporter(u) ==
  /\ Pc(u) = "decide" /\ ByTeleporter(u)
  /\ Pass(u) /\ Rest(u)
  /\ UNCHANGED <<dbVars, roomVars, row, markers, outlived>>

\* consume_doorbell_access: an answer opens once.
PassByBell(u) ==
  /\ Pc(u) = "decide" /\ ~ByTeleporter(u) /\ ByBell(u)
  /\ Pass(u) /\ Rest(u)
  /\ allowed' = Write(allowed, {u}, NoRoom)
  /\ outlived' = IF denied[u] = NoRoom THEN outlived \ {u} ELSE outlived
  /\ UNCHANGED <<dbVars, roomVars, row, denied>>

PassFreely(u) ==
  /\ Pc(u) = "decide" /\ ~ByTeleporter(u) /\ ~ByBell(u) /\ Freely(u)
  /\ Pass(u) /\ Rest(u)
  /\ UNCHANGED <<dbVars, roomVars, row, markers, outlived>>

AskedFurther(u) == Pc(u) = "decide" /\ ~ByTeleporter(u) /\ ~ByBell(u) /\ ~Freely(u)
Banned(u) == u \notin Staff /\ <<Cur(u), u>> \in bans

TurnAwayBanned(u) ==
  /\ AskedFurther(u) /\ Banned(u)
  /\ sess' = [sess EXCEPT ![u] = Reset(@)] /\ Rest(u)
  /\ UNCHANGED <<dbVars, roomVars, row, markers, outlived>>

\* Mutant: bans are not looked at.
AskPasswordOnly(u) ==
  /\ AskedFurther(u) /\ task[u].door \in {"password", "other"}
  /\ Pass(u) /\ Rest(u)
  /\ UNCHANGED <<dbVars, roomVars, row, markers, outlived>>

\* The right password, or a door of another kind.
PassAsked(u) ==
  /\ AskedFurther(u) /\ ~Banned(u) /\ task[u].door \in {"password", "other"}
  /\ Pass(u) /\ Rest(u)
  /\ UNCHANGED <<dbVars, roomVars, row, markers, outlived>>

\* The wrong password; or the bell rings for those who have rights.
Wait(u) ==
  /\ AskedFurther(u) /\ ~Banned(u) /\ task[u].door \in {"password", "bell"}
  /\ Rest(u)
  /\ UNCHANGED <<dbVars, roomVars, row, markers, sess, outlived>>

-----------------------------------------------------------------------------
(* "@{", "@|", "@}", "@~", DEL and "A@": into the room                     *)

\* consume_denied_doorbell_reset comes first in each of them.
TurnedAway(u) == denied[u] # NoRoom /\ denied[u] = Cur(u)
Proceeds(u) == Packet(u) /\ Cur(u) # NoRoom /\ ~TurnedAway(u) /\ sess[u].secondary

ConsumeDenied(u) ==
  /\ Packet(u) /\ TurnedAway(u)
  /\ sess' = [sess EXCEPT ![u] = Reset(@)]
  /\ denied' = Write(denied, {u}, NoRoom)
  /\ outlived' = IF allowed[u] = NoRoom THEN outlived \ {u} ELSE outlived
  /\ UNCHANGED <<dbVars, roomVars, row, allowed, task>>

\* fuse_any_room_controller makes an owner.
GuestroomData(u) ==
  /\ Proceeds(u) /\ InGuestRoom(u) /\ Cur(u) \in exists
  /\ LET s == sess[u] IN
     sess' = [sess EXCEPT ![u].owner = s.owner \/ u \in Staff,
                          ![u].rights = s.rights \/ s.owner \/ u \in Staff]
  /\ UNCHANGED <<dbVars, roomVars, row, markers, task, outlived>>

LoadRoom(u) ==
  /\ Proceeds(u) /\ Cur(u) \in exists
  /\ loaded' = loaded \cup {Cur(u)}
  /\ UNCHANGED <<dbVars, avatars, row, markers, sess, task, outlived>>

\* An avatar that is there already is adopted, and the row stays as it is.
AdoptAvatar(u) ==
  /\ Proceeds(u) /\ Cur(u) \in loaded /\ u \in avatars[Cur(u)]
  /\ sess' = [sess EXCEPT ![u].inside = TRUE]
  /\ UNCHANGED <<dbVars, roomVars, row, markers, task, outlived>>

AddUser(u) ==
  /\ Proceeds(u) /\ Cur(u) \in loaded /\ u \notin avatars[Cur(u)]
  /\ avatars' = [avatars EXCEPT ![Cur(u)] = @ \cup {u}]
  /\ sess' = [sess EXCEPT ![u].inside = TRUE,
       ![u].tele = IF ByTeleporter(u) THEN NoRoom ELSE sess[u].tele]
  /\ Goto(u, "sit", NoRoom)
  /\ UNCHANGED <<dbVars, loaded, row, markers, outlived>>

\* Somebody has taken the avatar out and will say so in the row.
BeingOusted(v) == \E t \in User \cup {Cycle} : Pc(t) = "ousted" /\ task[t].with = v

SitDown(u) ==
  /\ Pc(u) = "sit" /\ Rest(u)
  /\ row' = [row EXCEPT ![u] = Cur(u)]
  /\ outlived' = IF {allowed[u], denied[u]} \subseteq {NoRoom, Cur(u)}
                 THEN (IF BeingOusted(u) THEN outlived ELSE outlived \ {u})
                 ELSE outlived \cup {u}
  /\ UNCHANGED <<dbVars, roomVars, markers, sess>>

\* room_use_teleporter whose partner stands in another room.
UseTeleporter(u, r) ==
  /\ Packet(u) /\ InGuestRoom(u) /\ sess[u].inside
  /\ u \in avatars[Cur(u)] /\ r # Cur(u)
  /\ sess' = [sess EXCEPT ![u].tele = r]
  /\ UNCHANGED <<dbVars, roomVars, row, markers, task, outlived>>

-----------------------------------------------------------------------------
(* "Ab" room_answer_doorbell                                               *)

\* The guard is about rights only for staff; then the row of the ringer is read.
AnswerDoorbell(u, v, yes) ==
  /\ Packet(u) /\ (u \in Staff => sess[u].rights)
  /\ row[v] = Cur(u)
  /\ task' = [task EXCEPT ![u].pc = "answer", ![u].at = Cur(u), ![u].with = v,
                          ![u].yes = yes]
  /\ UNCHANGED <<dbVars, roomVars, row, markers, sess, outlived>>

\* The visit that is answered is over, or on the way to it.
VisitOver(v, r) == row[v] # r \/ Pc(v) = "gone" \/ BeingOusted(v)

\* allow_doorbell_access, or clear_doorbell_access and mark_doorbell_denied.
MarkAnswer(u) ==
  LET v == task[u].with r == task[u].at IN
  /\ Pc(u) = "answer" /\ Rest(u)
  /\ allowed' = Write(allowed, {v}, IF task[u].yes THEN r ELSE NoRoom)
  /\ denied' = IF task[u].yes THEN denied ELSE Write(denied, {v}, r)
  /\ outlived' = IF VisitOver(v, r) /\ r # NoRoom THEN outlived \cup {v} ELSE outlived
  /\ UNCHANGED <<dbVars, roomVars, row, sess>>

-----------------------------------------------------------------------------
(* "A_" and "E@" room_kick_or_ban, and the way out through the door        *)

\* The rights are those the session remembers.
Kick(u, v, ban) ==
  /\ Packet(u) /\ InGuestRoom(u) /\ sess[u].inside /\ sess[u].rights
  /\ row[v] = Cur(u) /\ ~(IsOwner(v, Cur(u)) /\ v \in Staff)
  /\ bans' = IF ban THEN bans \cup {<<Cur(u), v>>} ELSE bans
  /\ task' = [task EXCEPT ![u].pc = "oust", ![u].with = v]
  /\ UNCHANGED <<exists, door, super, rights, roomVars, row, markers, sess, outlived>>

\* VirtualRoom.status_cycle: an avatar has reached the door.
WalkOut(v, r) ==
  /\ Pc(Cycle) = "ready" /\ v \in avatars[r]
  /\ TakeOut(v, r)
  /\ allowed' = Write(allowed, {v}, NoRoom) /\ denied' = Write(denied, {v}, NoRoom)
  /\ outlived' = outlived \ {v}
  /\ task' = [task EXCEPT ![Cycle].pc = "ousted", ![Cycle].with = v]
  /\ UNCHANGED <<dbVars, row, sess>>

\* kick_online_user_from_current_room: of the room the row says now.
Oust(u) ==
  LET v == task[u].with r == row[v] IN
  /\ Pc(u) = "oust" /\ r # NoRoom /\ v \in avatars[r]
  /\ TakeOut(v, r)
  /\ allowed' = Write(allowed, {v}, NoRoom) /\ denied' = Write(denied, {v}, NoRoom)
  /\ outlived' = outlived \ {v}
  /\ task' = [task EXCEPT ![u].pc = "ousted"]
  /\ UNCHANGED <<dbVars, row, sess>>

OustNobody(u) ==
  LET v == task[u].with r == row[v] IN
  /\ Pc(u) = "oust" /\ ~(r # NoRoom /\ v \in avatars[r])
  /\ Rest(u)
  /\ UNCHANGED <<dbVars, roomVars, row, markers, sess, outlived>>

OustRow(t) ==
  LET v == task[t].with IN
  /\ Pc(t) = "ousted" /\ Rest(t)
  /\ row' = [row EXCEPT ![v] = NoRoom]
  /\ UNCHANGED <<dbVars, roomVars, markers, sess, outlived>>

BanRunsOut(r, v) ==
  /\ <<r, v>> \in bans /\ bans' = bans \ {<<r, v>>}
  /\ UNCHANGED <<exists, door, super, rights, roomVars, row, markers, sess, task,
                 outlived>>

-----------------------------------------------------------------------------
(* "A`", "Aa" and the owner's settings                                     *)

\* For a user who is in the room and not its owner, by the owner of the room as
\* the database has it.
ChangeRights(u, v, give) ==
  LET r == Cur(u) IN
  /\ Packet(u) /\ InGuestRoom(u)
  /\ sess' = [sess EXCEPT ![u] = Synced(u)]
  /\ rights' = IF ~IsOwner(u, r) \/ row[v] # r \/ IsOwner(v, r) THEN rights
               ELSE IF give THEN rights \cup {<<r, v>>} ELSE rights \ {<<r, v>>}
  /\ UNCHANGED <<exists, door, super, bans, roomVars, row, markers, task, outlived>>

\* guestroom_modify_core and guestroom_modify_details, WHERE owner = the user.
Modify(u, r, d, all) ==
  /\ Packet(u) /\ IsOwner(u, r)
  /\ door' = [door EXCEPT ![r] = d]
  /\ super' = IF all THEN super \cup {r} ELSE super \ {r}
  /\ UNCHANGED <<exists, rights, bans, roomVars, row, markers, sess, task, outlived>>

\* guestroom_delete: the rows of the owner's room ...
DeleteRows(u, r) ==
  /\ Packet(u) /\ IsOwner(u, r)
  /\ exists' = exists \ {r}
  /\ rights' = {p \in rights : p[1] # r} /\ bans' = {p \in bans : p[1] # r}
  /\ Goto(u, "drop", r)
  /\ UNCHANGED <<door, super, roomVars, row, markers, sess, outlived>>

\* ... and the loaded room, also when the room is another's.
DropRoom(u, r) ==
  /\ \/ Pc(u) = "drop" /\ task[u].at = r
     \/ Packet(u) /\ ~IsOwner(u, r)
  /\ loaded' = loaded \ {r} /\ avatars' = [avatars EXCEPT ![r] = {}]
  /\ Rest(u)
  /\ UNCHANGED <<dbVars, row, markers, sess, outlived>>

-----------------------------------------------------------------------------
(* The end of a session, and the next login of the user                    *)

\* cleanup, when the client went: it comes before another packet of the session.
CleanUp(u) ==
  /\ Pc(u) = "ready"
  /\ IF Stands(u) THEN TakeOut(u, Cur(u)) ELSE UNCHANGED roomVars
  /\ allowed' = Write(allowed, {u}, NoRoom) /\ denied' = Write(denied, {u}, NoRoom)
  /\ outlived' = outlived \ {u}
  /\ sess' = [sess EXCEPT ![u] = Outside] /\ row' = [row EXCEPT ![u] = NoRoom]
  /\ UNCHANGED <<dbVars, task>>

\* A packet that fails ends the session without it.
Fail(u) ==
  /\ Pc(u) # "ready" /\ Rest(u)
  /\ sess' = [sess EXCEPT ![u] = Outside] /\ row' = [row EXCEPT ![u] = NoRoom]
  /\ outlived' = IF {allowed[u], denied[u]} = {NoRoom} THEN outlived ELSE outlived \cup {u}
  /\ UNCHANGED <<dbVars, roomVars, markers>>

-----------------------------------------------------------------------------

EnterStep(u) ==
  \/ Reconcile(u) \/ LeaveRow(u) \/ LeaveUnseated(u)
  \/ \E r \in Place : Leave(u, r)
  \/ \E r \in Room : Determine(u, r) \/ UseTeleporter(u, r)
  \/ Refuse(u) \/ Admit(u) \/ SyncPermissions(u) \/ CheckAccess(u)
  \/ PassByTeleporter(u) \/ PassByBell(u) \/ PassFreely(u)
  \/ TurnAwayBanned(u) \/ PassAsked(u) \/ Wait(u)
  \/ ConsumeDenied(u) \/ GuestroomData(u) \/ LoadRoom(u)
  \/ AdoptAvatar(u) \/ AddUser(u) \/ SitDown(u) \/ CleanUp(u) \/ Fail(u)

HostStep(u) ==
  \/ \E v \in User, yes \in BOOLEAN :
       AnswerDoorbell(u, v, yes) \/ Kick(u, v, yes) \/ ChangeRights(u, v, yes)
  \/ MarkAnswer(u) \/ Oust(u) \/ OustNobody(u) \/ OustRow(u)
  \/ \E r \in Guest : DeleteRows(u, r) \/ DropRoom(u, r)
  \/ \E r \in Guest, d \in Door, all \in BOOLEAN : Modify(u, r, d, all)

Step ==
  \/ \E u \in User : EnterStep(u) \/ HostStep(u)
  \/ \E v \in User, r \in Room : WalkOut(v, r)
  \/ OustRow(Cycle)
  \/ \E v \in User, r \in Guest : BanRunsOut(r, v)

\* What speaks for letting user u into the room it asks for, and for its rights.
Welcome(u) ==
  \/ Cur(u) \in Public \/ Cur(u) \notin exists
  \/ ByTeleporter(u) \/ ByBell(u) \/ IsOwner(u, Cur(u))
  \/ Cur(u) \in Guest /\ door[Cur(u)] = "open"
Reasons(u) ==
  {f \in Reason : CASE f = "welcome" -> Welcome(u)
                   [] f = "door" -> Cur(u) \in Guest /\ door[Cur(u)] # "bell"
                   [] f = "unbanned" -> ~Banned(u)
                   [] f = "power" -> u \in Staff \/ HasRights(u, Cur(u))}

\* What has been so at some time since the session asks for its room.
Remember ==
  met' = [u \in User |->
           IF Cur(u)' = NoRoom THEN {}
           ELSE (IF Cur(u)' = Cur(u) THEN met[u] ELSE {}) \cup Reasons(u)']

Next == Step /\ Remember
Spec == Init /\ [][Next]_vars

-----------------------------------------------------------------------------
(* Properties                                                              *)

\* Nobody is let in for a reason that was never one for this room: a session
\* with secondary access has met an open door, a password while it was not
\* banned, a teleporter, an answer, or is the owner or staff, since it asks for
\* the room it is in.  What it learnt of another room does not count.
Invited ==
  \A u \in User :
    sess[u].secondary => "welcome" \in met[u] \/ {"door", "unbanned"} \subseteq met[u]

\* The rights a session remembers (and kicks, bans and answers with) are rights
\* it has had in this room since it asked for it; they may have been taken
\* meanwhile, but they are never those of another room or of another visit.
RightsOfThisRoom ==
  \A u \in User : /\ sess[u].rights => "power" \in met[u]
                  /\ sess[u].owner => u \in Staff \/ (Cur(u) \in Guest /\ Owner[Cur(u)] = u)

\* A marker in the tables is for the room its user is in, by the row: the answer
\* to a bell does not wait for a later visit, however the answer races with
\* leaving, walking out, kicks and the next "@B".  (An answer written when the
\* visit was over or ending outlives it, and so does one whose session failed, or
\* which a denial sent to another room without taking its avatar out.)
MarkersOfThisVisit ==
  \A u \in User \ outlived : {allowed[u], denied[u]} \subseteq {NoRoom, row[u]}
=============================================================================
