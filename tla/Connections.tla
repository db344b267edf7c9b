----------------------------- MODULE Connections -----------------------------
(***************************************************************************)
(* The life of a game connection: the pool of connection ids, the login by *)
(* SSO ticket, the table of online users, the watch channel that closes a  *)
(* session from outside, the ping checker, user bans, and the cleanup.     *)
(*                                                                         *)
(* Sources: server_impl.rs (accept loop), state_impl.rs                    *)
(* (AppState), managers/user_manager.rs, session_impl.rs (run_game_session,*)
(* read_loop, handle_sso_login, mark_ping_ok, cleanup).                    *)
(*                                                                         *)
(* A session is one tokio task; every `.await` inside it is a point where  *)
(* the others run, so a handler is one action per stretch between two      *)
(* awaits whose results it keeps.  An OnlineUser record is named by the    *)
(* session that built it: its sender, its disconnect end and its ping flag *)
(* are shared by every clone of the record.                                *)
(***************************************************************************)
EXTENDS Naturals, FiniteSets

CONSTANTS
  Session,          \* the connections that are ever accepted
  User,             \* the accounts
  NoSession,        \* Option::None for a record of the online table
  NoUser,           \* Option::None for logged_in_user_id
  MaxConnections,   \* game_max_connections: ids are 1 .. MaxConnections - 1
  MaxClones         \* bound: read-modify-writes of the table in flight

ASSUME ConnectionsAssumption ==
  /\ NoSession \notin Session
  /\ NoUser \notin User
  /\ MaxConnections \in Nat
  /\ MaxClones \in Nat

VARIABLES
  ids,         \* active_connection_ids
  pc,          \* where each session stands
  conn,        \* the connection id of each session, 0 before it has one
  user,        \* the account a session is logging in, or logged in, as
  ticket,      \* accounts whose ticket_sso is not NULL
  banned,      \* accounts with a pending row in users_bans
  banTask,     \* bans written whose disconnect_user has not run yet
  online,      \* online_users
  seen,        \* what add_user's get_user returned
  clones,      \* records copied out of the table, to be inserted again
  signal,      \* the value of a session's disconnect watch
  pingOk,      \* OnlineUser.ping_ok
  sweep,       \* the records the ping checker has still to visit
  overtaken    \* history: a write went by a read that was no longer true

tableVars == <<online, seen, clones, overtaken>>
loginVars == <<ticket, banned, banTask>>
pingVars  == <<signal, pingOk, sweep>>
vars == <<ids, pc, conn, user, tableVars, loginVars, pingVars>>

ConnectionId == 1 .. (MaxConnections - 1)
Record == Session \cup {NoSession}

\* Inside handle_sso_login; logged in, between two packets and during one.
Login == {"checkBan", "consume", "existing", "insert"}
Serving == {"serving", "handling"}
\* "failed": the task returned and cleanup never ran.
PC == {"idle", "open", "greeted"} \cup Login \cup Serving
        \cup {"cleanup", "free", "closed", "failed"}

TypeOK ==
  /\ ids \subseteq ConnectionId
  /\ pc \in [Session -> PC]
  /\ conn \in [Session -> Nat]
  /\ user \in [Session -> User \cup {NoUser}]
  /\ \A s \in Session : pc[s] \in Login \cup Serving => user[s] # NoUser
  /\ ticket \subseteq User /\ banned \subseteq User /\ banTask \subseteq User
  /\ online \in [User -> Record]
  /\ seen \in [Session -> Record]
  /\ clones \subseteq User \X Session
  /\ signal \in [Session -> BOOLEAN] /\ pingOk \in [Session -> BOOLEAN]
  /\ sweep \subseteq Session
  /\ overtaken \in BOOLEAN

Init ==
  /\ ids = {}
  /\ pc = [s \in Session |-> "idle"]
  /\ conn = [s \in Session |-> 0]
  /\ user = [s \in Session |-> NoUser]
  /\ ticket \in SUBSET User
  /\ banned = {} /\ banTask = {}
  /\ online = [u \in User |-> NoSession]
  /\ seen = [s \in Session |-> NoSession]
  /\ clones = {}
  /\ signal = [s \in Session |-> FALSE]
  /\ pingOk = [s \in Session |-> TRUE]
  /\ sweep = {}
  /\ overtaken = FALSE

-----------------------------------------------------------------------------
(* The accept loop and the first bytes                                     *)

Goto(s, from, to) == pc[s] = from /\ pc' = [pc EXCEPT ![s] = to]

\* allocate_connection_id: the lowest free id, under the pool's lock.
LowestFree(i) == i \in ConnectionId \ ids /\ \A j \in ConnectionId \ ids : i <= j

Accept(s) ==
  /\ Goto(s, "idle", "open")
  /\ \E i \in ConnectionId :
       /\ LowestFree(i)
       /\ ids' = ids \cup {i}
       /\ conn' = [conn EXCEPT ![s] = i]
  /\ UNCHANGED <<user, tableVars, loginVars, pingVars>>

\* The IP is not banned: the session is built and the read loop begins.
Greet(s) ==
  /\ Goto(s, "open", "greeted")
  /\ UNCHANGED <<ids, conn, user, tableVars, loginVars, pingVars>>

\* The IP is banned: run_game_session returns, and nobody frees the id.
RefuseBannedIp(s) ==
  /\ Goto(s, "open", "failed")
  /\ UNCHANGED <<ids, conn, user, tableVars, loginVars, pingVars>>

-----------------------------------------------------------------------------
(* handle_sso_login                                                        *)

ReadTicket(s) ==
  /\ Goto(s, "greeted", "checkBan")
  /\ \E u \in ticket : user' = [user EXCEPT ![s] = u]
  /\ UNCHANGED <<ids, conn, tableVars, loginVars, pingVars>>

\* get_ban_reason_for_user; then the row and the last-IP check.
PassBanCheck(s) ==
  /\ user[s] \notin banned
  /\ Goto(s, "checkBan", "consume")
  /\ UNCHANGED <<ids, conn, user, tableVars, loginVars, pingVars>>

ConsumeTicket(s) ==
  /\ Goto(s, "consume", "existing")
  /\ ticket' = ticket \ {user[s]}
  /\ UNCHANGED <<ids, conn, user, banned, banTask, tableVars, pingVars>>

\* disconnect.send(true) on the record found, if there is one.
Send(r) == signal' = [s \in Session |-> signal[s] \/ s = r]

\* Mutant: the session already in the table is seen and not told.
SignalNobody(s) ==
  /\ Goto(s, "existing", "insert")
  /\ seen' = [seen EXCEPT ![s] = online[user[s]]]
  /\ UNCHANGED <<ids, conn, user, online, clones, overtaken, loginVars, pingVars>>

\* add_user, first half: a session already in the table is told to go.
SignalExisting(s) ==
  /\ Goto(s, "existing", "insert")
  /\ seen' = [seen EXCEPT ![s] = online[user[s]]]
  /\ Send(online[user[s]])
  /\ UNCHANGED <<ids, conn, user, online, clones, overtaken, loginVars,
                 pingOk, sweep>>

\* add_user, second half: add_online_user.
InsertOnline(s) ==
  /\ Goto(s, "insert", "serving")
  /\ online' = [online EXCEPT ![user[s]] = s]
  /\ overtaken' = (overtaken \/ online[user[s]] # seen[s] \/ user[s] \in banned)
  /\ UNCHANGED <<ids, conn, user, seen, clones, loginVars, pingVars>>

-----------------------------------------------------------------------------
(* read_loop and cleanup                                                   *)

\* A packet of a logged-in session; what most handlers do is in other modules.
Receive(s) ==
  /\ Goto(s, "serving", "handling")
  /\ UNCHANGED <<ids, conn, user, tableVars, loginVars, pingVars>>

Handled(s) ==
  /\ Goto(s, "handling", "serving")
  /\ UNCHANGED <<ids, conn, user, tableVars, loginVars, pingVars>>

\* handle_packet gave Ok(false).
RefusePacket(s) ==
  /\ Goto(s, "handling", "cleanup")
  /\ UNCHANGED <<ids, conn, user, tableVars, loginVars, pingVars>>

\* "CD": the flag of whatever record the table has now for the account.
MarkPingOk(s) ==
  /\ Goto(s, "handling", "serving")
  /\ pingOk' = [t \in Session |-> pingOk[t] \/ t = online[user[s]]]
  /\ UNCHANGED <<ids, conn, user, tableVars, loginVars, signal, sweep>>

\* End of file, a control byte, or a refused packet before the login.
Leave(s) ==
  /\ pc[s] \in {"greeted", "serving"}
  /\ pc' = [pc EXCEPT ![s] = "cleanup"]
  /\ UNCHANGED <<ids, conn, user, tableVars, loginVars, pingVars>>

\* Mutant: the watch is looked at before the login only.
InterruptGuestsOnly(s) ==
  /\ signal[s] /\ Goto(s, "greeted", "cleanup")
  /\ UNCHANGED <<ids, conn, user, tableVars, loginVars, pingVars>>

\* The disconnect watch turned true: the select in read_loop ends the read.
Interrupt(s) ==
  /\ signal[s]
  /\ Leave(s)

\* A `?` in read_loop or under handle_packet: the task ends where it stands.
Fail(s) ==
  /\ pc[s] \in {"greeted"} \cup Serving \cup Login
  /\ pc' = [pc EXCEPT ![s] = "failed"]
  /\ UNCHANGED <<ids, conn, user, tableVars, loginVars, pingVars>>

\* Mutant: cleanup leaves the entry.
RemoveNobody(s) ==
  /\ Goto(s, "cleanup", "free")
  /\ UNCHANGED <<ids, conn, user, tableVars, loginVars, pingVars>>

\* remove_user_if_connection compares the id under the table's write lock.
RemoveUserIfConnection(s) ==
  /\ Goto(s, "cleanup", "free")
  /\ online' = [u \in User |->
       IF u = user[s] /\ online[u] # NoSession /\ conn[online[u]] = conn[s]
       THEN NoSession ELSE online[u]]
  /\ UNCHANGED <<ids, conn, user, seen, clones, overtaken, loginVars, pingVars>>

\* Mutant: the id is not put back.
KeepConnectionId(s) ==
  /\ Goto(s, "free", "closed")
  /\ UNCHANGED <<ids, conn, user, tableVars, loginVars, pingVars>>

FreeConnectionId(s) ==
  /\ Goto(s, "free", "closed")
  /\ ids' = ids \ {conn[s]}
  /\ UNCHANGED <<conn, user, tableVars, loginVars, pingVars>>

-----------------------------------------------------------------------------
(* Tasks that reach a session through the table                            *)

\* A handler of another task copies a record out (get_user) ...
CloneRecord(u) ==
  /\ online[u] # NoSession
  /\ Cardinality(clones) < MaxClones
  /\ clones' = clones \cup {<<u, online[u]>>}
  /\ UNCHANGED <<ids, pc, conn, user, online, seen, overtaken, loginVars,
                 pingVars>>

\* ... changes its room fields and inserts it again, whatever is there now.
WriteBack(c) ==
  /\ clones' = clones \ {c}
  /\ online' = [online EXCEPT ![c[1]] = c[2]]
  /\ overtaken' = (overtaken \/ online[c[1]] # c[2])
  /\ UNCHANGED <<ids, pc, conn, user, seen, loginVars, pingVars>>

\* spawn_ping_checker: every minute the table is copied ...
SweepStart ==
  /\ sweep = {}
  /\ sweep' = {online[u] : u \in User} \ {NoSession}
  /\ UNCHANGED <<ids, pc, conn, user, tableVars, loginVars, signal, pingOk>>

\* Mutant: a record that did not answer is asked again.
SweepLeniently(s) ==
  /\ s \in sweep
  /\ sweep' = sweep \ {s}
  /\ pingOk' = [pingOk EXCEPT ![s] = FALSE]
  /\ UNCHANGED <<ids, pc, conn, user, tableVars, loginVars, signal>>

\* ... and each record is asked (swap gave true) or disconnected.
SweepOne(s) ==
  /\ s \in sweep
  /\ sweep' = sweep \ {s}
  /\ pingOk' = [pingOk EXCEPT ![s] = FALSE]
  /\ IF pingOk[s] THEN UNCHANGED signal ELSE Send(s)
  /\ UNCHANGED <<ids, pc, conn, user, tableVars, loginVars>>

\* set_ban_user: the row is written first, then the user is disconnected.
SetBan(u) ==
  /\ u \notin banTask
  /\ banned' = banned \cup {u}
  /\ banTask' = banTask \cup {u}
  /\ UNCHANGED <<ids, pc, conn, user, ticket, tableVars, pingVars>>

\* Mutant: the ban is written and the user stays.
BanQuietly(u) ==
  /\ u \in banTask
  /\ banTask' = banTask \ {u}
  /\ UNCHANGED <<ids, pc, conn, user, ticket, banned, tableVars, pingVars>>

BanDisconnect(u) ==
  /\ u \in banTask
  /\ banTask' = banTask \ {u}
  /\ Send(online[u])
  /\ UNCHANGED <<ids, pc, conn, user, ticket, banned, tableVars, pingOk, sweep>>

\* date_expire is passed; the next check deletes the row.
BanExpires(u) ==
  /\ banned' = banned \ {u}
  /\ UNCHANGED <<ids, pc, conn, user, ticket, banTask, tableVars, pingVars>>

\* The web site writes a new ticket_sso.
IssueTicket(u) ==
  /\ ticket' = ticket \cup {u}
  /\ UNCHANGED <<ids, pc, conn, user, banned, banTask, tableVars, pingVars>>

-----------------------------------------------------------------------------
SessionStep(s) ==
  \/ Accept(s) \/ Greet(s) \/ RefuseBannedIp(s)
  \/ ReadTicket(s) \/ PassBanCheck(s) \/ ConsumeTicket(s)
  \/ SignalExisting(s) \/ InsertOnline(s)
  \/ Receive(s) \/ Handled(s) \/ RefusePacket(s) \/ MarkPingOk(s) \/ Leave(s) \/ Interrupt(s) \/ Fail(s)
  \/ RemoveUserIfConnection(s) \/ FreeConnectionId(s)

Next ==
  \/ \E s \in Session : SessionStep(s) \/ SweepOne(s)
  \/ \E u \in User : \/ CloneRecord(u) \/ SetBan(u) \/ BanDisconnect(u)
                     \/ BanExpires(u) \/ IssueTicket(u)
  \/ \E c \in clones : WriteBack(c)
  \/ SweepStart

Spec == Init /\ [][Next]_vars

\* The runtime polls every ready task, the database answers or fails, and the
\* timer of the ping checker fires: weak fairness.  The select in read_loop
\* draws which ready branch it polls first, so a watch that stays changed is
\* not passed over for ever: strong fairness.
Fairness ==
  /\ \A s \in Session :
       /\ WF_vars(Handled(s))
       /\ WF_vars(PassBanCheck(s) \/ ConsumeTicket(s) \/ SignalExisting(s)
                   \/ InsertOnline(s) \/ (pc[s] \in Login /\ Fail(s)))
       /\ SF_vars(Interrupt(s))
       /\ WF_vars(RemoveUserIfConnection(s) \/ FreeConnectionId(s))
       /\ WF_vars(SweepOne(s))
  /\ \A u \in User : WF_vars(BanDisconnect(u))
  /\ WF_vars(SweepStart)

FairSpec == Spec /\ Fairness

-----------------------------------------------------------------------------
(* Properties                                                              *)

HasId(s) == pc[s] \notin {"idle", "closed"}

\* The pool and the sessions agree: the ids in use are those of the sessions
\* that are running, cleaning up or ended by an error, and no two of them have
\* the same.  (allocate_connection_id and free_connection_id, across the
\* reuse of an id by a later connection.)
IdsExclusive ==
  /\ \A s, t \in Session : HasId(s) /\ HasId(t) /\ conn[s] = conn[t] => s = t
  /\ ids = {conn[s] : s \in {t \in Session : HasId(t)}}

\* Unless a read-modify-write was overtaken, an entry of the online table is
\* that of a session of the same account which has not finished its cleanup:
\* no session that closed in order is shown online.  (add_user against
\* remove_user_if_connection, and the order inside cleanup.)
EntryOwned ==
  ~overtaken =>
    \A u \in User : online[u] # NoSession =>
      /\ user[online[u]] = u
      /\ pc[online[u]] \in Serving \cup {"cleanup", "failed"}

\* Unless a read-modify-write was overtaken, a logged-in session that is not
\* the one in the online table has been told to disconnect, so a second login
\* always displaces the first and an old session's cleanup never takes the new
\* one out of the table.
Displaced ==
  ~overtaken =>
    \A s \in Session : pc[s] \in Serving => online[user[s]] = s \/ signal[s]

\* Unless a ban overtook a login, once set_ban_user has run to its end every
\* session serving the banned account has been told to disconnect.
BannedOut ==
  ~overtaken =>
    \A s \in Session :
      pc[s] \in Serving /\ user[s] \in banned \ banTask => signal[s]

\* A session told to disconnect ends, whatever its client goes on sending:
\* the watch channel of read_loop interrupts the reads.
SignalEnds ==
  \A s \in Session :
    signal[s] /\ pc[s] \in Serving ~> pc[s] \in {"closed", "failed"}

\* A session that is served for ever answers the pings for ever: one that falls
\* silent is disconnected by the ping checker (if nothing was overtaken).
OnlyAnsweringStays ==
  \A s \in Session :
    <>[](pc[s] \in Serving /\ ~overtaken) => []<>pingOk[s]
=============================================================================
