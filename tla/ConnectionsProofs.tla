-------------------------- MODULE ConnectionsProofs --------------------------
(***************************************************************************)
(* Proofs about Connections, for every set of sessions and of accounts and *)
(* every size of the pool of connection ids.                               *)
(*                                                                         *)
(* EntryOwned, Displaced and BannedOut are not inductive by themselves.    *)
(* Displaced leans on IdsExclusive (the cleanup compares connection ids,   *)
(* so two sessions with one id could take each other's entry away), on     *)
(* EntryOwned (the entry removed belongs to a session that has its id) and *)
(* on SeenSignalled (what add_user saw, it told to go).                    *)
(***************************************************************************)
EXTENDS Connections, TLAPS

\* A session that has an id has one of the pool's.
IdsInRange == \A s \in Session : HasId(s) => conn[s] \in ConnectionId

\* Between the halves of add_user, the record it found has been told to go.
SeenSignalled ==
  \A s \in Session :
    pc[s] = "insert" /\ seen[s] # NoSession => signal[seen[s]]

USE ConnectionsAssumption

-----------------------------------------------------------------------------
\* The first state is well typed.
LEMMA TypeInit == Init => TypeOK
<1> SUFFICES ASSUME Init PROVE TypeOK
  OBVIOUS
<1>1. /\ pc \in [Session -> PC] /\ user \in [Session -> User \cup {NoUser}]
      /\ \A s \in Session : pc[s] \notin Login \cup Serving
  BY DEF Init, PC, Login, Serving
<1>2. /\ online \in [User -> Record] /\ seen \in [Session -> Record]
      /\ conn \in [Session -> Nat]
  BY DEF Init, Record
<1>3. signal \in [Session -> BOOLEAN] /\ pingOk \in [Session -> BOOLEAN]
  BY DEF Init
<1> QED
  BY <1>1, <1>2, <1>3 DEF Init, TypeOK

\* The type invariant: every step keeps every variable in its set.
LEMMA TypeStep == TypeOK /\ [Next]_vars => TypeOK'
<1> SUFFICES ASSUME TypeOK, [Next]_vars PROVE TypeOK'
  OBVIOUS
<1> USE DEF TypeOK, Record, Goto, PC, Login, Serving
<1>0. ConnectionId \subseteq Nat
  BY DEF ConnectionId
<1>1. ASSUME NEW s \in Session, SessionStep(s) \/ SweepOne(s) PROVE TypeOK'
  <2>1. CASE Accept(s)
    BY <2>1, <1>0 DEF Accept, tableVars, loginVars, pingVars
  <2>2. CASE Greet(s) \/ RefuseBannedIp(s) \/ PassBanCheck(s) \/ Receive(s)
              \/ Handled(s) \/ RefusePacket(s)
    BY <2>2 DEF Greet, RefuseBannedIp, PassBanCheck, Receive, Handled,
                RefusePacket, tableVars, loginVars,
                pingVars
  <2>3. CASE ReadTicket(s)
    BY <2>3 DEF ReadTicket, tableVars, loginVars, pingVars
  <2>4. CASE ConsumeTicket(s)
    BY <2>4 DEF ConsumeTicket, tableVars, pingVars
  <2>5. CASE SignalExisting(s)
    <3>1. online[user[s]] \in Record
      BY <2>5 DEF SignalExisting
    <3>2. seen' \in [Session -> Record]
      BY <2>5, <3>1 DEF SignalExisting
    <3> QED
      BY <2>5, <3>2 DEF SignalExisting, Send, loginVars
  <2>6. CASE InsertOnline(s)
    BY <2>6 DEF InsertOnline, loginVars, pingVars
  <2>7. CASE MarkPingOk(s)
    BY <2>7 DEF MarkPingOk, tableVars, loginVars
  <2>8. CASE Leave(s) \/ Interrupt(s) \/ Fail(s)
    BY <2>8 DEF Leave, Interrupt, Fail, tableVars, loginVars, pingVars
  <2>9. CASE RemoveUserIfConnection(s)
    BY <2>9 DEF RemoveUserIfConnection, loginVars, pingVars
  <2>10. CASE FreeConnectionId(s)
    BY <2>10 DEF FreeConnectionId, tableVars, loginVars, pingVars
  <2>11. CASE SweepOne(s)
    <3>1. signal' \in [Session -> BOOLEAN]
      BY <2>11 DEF SweepOne, Send
    <3>2. pingOk' \in [Session -> BOOLEAN] /\ sweep' \subseteq Session
      BY <2>11 DEF SweepOne
    <3> QED
      BY <2>11, <3>1, <3>2 DEF SweepOne, tableVars, loginVars
  <2> QED
    BY <1>1, <2>1, <2>2, <2>3, <2>4, <2>5, <2>6, <2>7, <2>8, <2>9, <2>10,
       <2>11 DEF SessionStep
<1>2. ASSUME NEW u \in User,
             CloneRecord(u) \/ SetBan(u) \/ BanDisconnect(u) \/ BanExpires(u)
               \/ IssueTicket(u)
      PROVE TypeOK'
  <2>1. CASE CloneRecord(u)
    <3>1. <<u, online[u]>> \in User \X Session
      BY <2>1 DEF CloneRecord
    <3> QED
      BY <2>1, <3>1 DEF CloneRecord, loginVars, pingVars
  <2>2. CASE BanDisconnect(u)
    BY <2>2 DEF BanDisconnect, Send, tableVars
  <2>3. CASE SetBan(u) \/ BanExpires(u) \/ IssueTicket(u)
    BY <2>3 DEF SetBan, BanExpires, IssueTicket, tableVars, pingVars
  <2> QED
    BY <1>2, <2>1, <2>2, <2>3
<1>3. ASSUME NEW c \in clones, WriteBack(c) PROVE TypeOK'
  BY <1>3 DEF WriteBack, loginVars, pingVars
<1>4. CASE SweepStart
  BY <1>4 DEF SweepStart, tableVars, loginVars
<1>5. CASE UNCHANGED vars
  BY <1>5 DEF vars, tableVars, loginVars, pingVars
<1> QED
  BY <1>1, <1>2, <1>3, <1>4, <1>5 DEF Next

\* Every behaviour keeps the state in its types.
THEOREM TypeCorrect == Spec => []TypeOK
<1>1. Init => TypeOK
  BY TypeInit
<1>2. TypeOK /\ [Next]_vars => TypeOK'
  BY TypeStep
<1> QED
  BY <1>1, <1>2, PTL DEF Spec

-----------------------------------------------------------------------------
\* Who has an id: Accept adds its session, FreeConnectionId takes its own
\* away, and no other step touches a connection id.
LEMMA HolderStep ==
  ASSUME TypeOK, [Next]_vars
  PROVE  \/ \E s \in Session : Accept(s) \/ FreeConnectionId(s)
         \/ /\ UNCHANGED <<ids, conn>>
            /\ \A t \in Session : HasId(t)' <=> HasId(t)
<1> USE DEF TypeOK, HasId, Goto, Login, Serving
<1>1. ASSUME NEW s \in Session, SessionStep(s), ~Accept(s), ~FreeConnectionId(s)
      PROVE  /\ UNCHANGED <<ids, conn>>
             /\ \A t \in Session : HasId(t)' <=> HasId(t)
  <2>1. UNCHANGED <<ids, conn>>
    BY <1>1 DEF SessionStep, Greet, RefuseBannedIp, ReadTicket, PassBanCheck,
                ConsumeTicket, SignalExisting, InsertOnline, Receive, Handled,
                RefusePacket, MarkPingOk, Leave, Interrupt, Fail,
                RemoveUserIfConnection
  <2>2. \E p \in PC : /\ pc' = [pc EXCEPT ![s] = p]
                      /\ p \notin {"idle", "closed"}
                      /\ pc[s] \notin {"idle", "closed"}
    BY <1>1 DEF SessionStep, Greet, RefuseBannedIp, ReadTicket, PassBanCheck,
                ConsumeTicket, SignalExisting, InsertOnline, Receive, Handled,
                RefusePacket, MarkPingOk, Leave, Interrupt, Fail,
                RemoveUserIfConnection, PC
  <2> QED
    BY <2>1, <2>2
<1>2. ASSUME \/ \E s \in Session : SweepOne(s)
             \/ \E u \in User : \/ CloneRecord(u) \/ SetBan(u)
                                \/ BanDisconnect(u) \/ BanExpires(u)
                                \/ IssueTicket(u)
             \/ \E c \in clones : WriteBack(c)
             \/ SweepStart
             \/ UNCHANGED vars
      PROVE  UNCHANGED <<ids, pc, conn>>
  BY <1>2 DEF SweepOne, CloneRecord, SetBan, BanDisconnect, BanExpires,
              IssueTicket, WriteBack, SweepStart, vars
<1> QED
  BY <1>1, <1>2 DEF Next

\* The step from HolderStep to the pool: whether ids are given out, kept or put
\* back, they stay those of the sessions that hold one.
LEMMA IdsStep ==
  ASSUME TypeOK, IdsInRange, IdsExclusive, [Next]_vars
  PROVE  IdsInRange' /\ IdsExclusive'
<1> DEFINE Holder == {t \in Session : HasId(t)}
<1> USE DEF TypeOK, IdsInRange, IdsExclusive
<1>1. ASSUME NEW s \in Session, Accept(s) PROVE IdsInRange' /\ IdsExclusive'
  <2>1. PICK i \in ConnectionId : /\ LowestFree(i)
                                 /\ ids' = ids \cup {i}
                                 /\ conn' = [conn EXCEPT ![s] = i]
    BY <1>1 DEF Accept
  <2>2. i \notin ids
    BY <2>1 DEF LowestFree
  <2>3. /\ ~HasId(s) /\ HasId(s)'
        /\ \A t \in Session \ {s} : (HasId(t)' <=> HasId(t)) /\ conn'[t] = conn[t]
    BY <1>1, <2>1 DEF Accept, Goto, HasId
  <2>4. \A t \in Session \ {s} : HasId(t)' => conn'[t] \in ids
    BY <2>3
  <2>5. IdsInRange'
    BY <2>1, <2>3 DEF ConnectionId
  <2>6. \A t, r \in Session :
          HasId(t)' /\ HasId(r)' /\ conn'[t] = conn'[r] => t = r
    BY <2>1, <2>2, <2>3, <2>4
  <2>7. ids' = {conn'[t] : t \in {r \in Session : HasId(r)'}}
    BY <2>1, <2>3
  <2> QED
    BY <2>5, <2>6, <2>7
<1>2. ASSUME NEW s \in Session, FreeConnectionId(s)
      PROVE IdsInRange' /\ IdsExclusive'
  <2>1. /\ HasId(s) /\ ~HasId(s)' /\ conn' = conn
        /\ \A t \in Session \ {s} : HasId(t)' <=> HasId(t)
    BY <1>2 DEF FreeConnectionId, Goto, HasId
  <2>2. ids' = {conn'[t] : t \in {r \in Session : HasId(r)'}}
    BY <1>2, <2>1 DEF FreeConnectionId
  <2> QED
    BY <2>1, <2>2 DEF ConnectionId
<1>3. CASE UNCHANGED <<ids, conn>> /\ \A t \in Session : HasId(t)' <=> HasId(t)
  BY <1>3 DEF ConnectionId
<1> QED
  BY <1>1, <1>2, <1>3, HolderStep

\* No two connections that are not finished share a connection id, and the pool
\* holds exactly the ids of those connections.
THEOREM IdsAreExclusive == Spec => []IdsExclusive
<1>1. Init => TypeOK /\ IdsInRange /\ IdsExclusive
  BY TypeInit DEF Init, IdsInRange, IdsExclusive, HasId
<1>2. /\ TypeOK /\ IdsInRange /\ IdsExclusive /\ [Next]_vars
      => TypeOK' /\ IdsInRange' /\ IdsExclusive'
  BY TypeStep, IdsStep
<1> QED
  BY <1>1, <1>2, PTL DEF Spec

-----------------------------------------------------------------------------
TableInv == SeenSignalled /\ EntryOwned /\ Displaced /\ BannedOut

\* Steps of one session that leave the table, the watches and the bans alone.
LEMMA TableQuietStep ==
  ASSUME TypeOK, TableInv, NEW s \in Session,
         \/ Accept(s) \/ Greet(s) \/ RefuseBannedIp(s) \/ ReadTicket(s)
         \/ PassBanCheck(s) \/ ConsumeTicket(s) \/ Receive(s) \/ Handled(s)
         \/ RefusePacket(s) \/ MarkPingOk(s) \/ Leave(s) \/ Fail(s)
         \/ FreeConnectionId(s)
  PROVE  TableInv'
<1> USE DEF TypeOK, TableInv, SeenSignalled, EntryOwned, Displaced, BannedOut,
            Record, Goto, Login, Serving, tableVars, loginVars, pingVars
<1>1. CASE Accept(s) \/ Greet(s) \/ RefuseBannedIp(s)
  BY <1>1 DEF Accept, Greet, RefuseBannedIp
<1>2. CASE ReadTicket(s) \/ PassBanCheck(s) \/ ConsumeTicket(s)
  BY <1>2 DEF ReadTicket, PassBanCheck, ConsumeTicket
<1>3. CASE Receive(s) \/ Handled(s) \/ RefusePacket(s) \/ MarkPingOk(s)
  BY <1>3 DEF Receive, Handled, RefusePacket, MarkPingOk
<1>4. CASE Leave(s) \/ Fail(s)
  BY <1>4 DEF Leave, Fail
<1>5. CASE FreeConnectionId(s)
  BY <1>5 DEF FreeConnectionId
<1> QED
  BY <1>1, <1>2, <1>3, <1>4, <1>5

\* The two halves of add_user.
LEMMA TableLoginStep ==
  ASSUME TypeOK, TableInv, NEW s \in Session,
         SignalExisting(s) \/ InsertOnline(s)
  PROVE  TableInv'
<1> USE DEF TypeOK, TableInv, SeenSignalled, EntryOwned, Displaced, BannedOut,
            Record, Goto, Login, Serving, loginVars, pingVars
<1>1. CASE SignalExisting(s)
  <2>1. /\ \A t \in Session : signal[t] => signal'[t]
        /\ online[user[s]] # NoSession => signal'[online[user[s]]]
        /\ seen' = [seen EXCEPT ![s] = online[user[s]]]
        /\ pc' = [pc EXCEPT ![s] = "insert"] /\ pc[s] = "existing"
        /\ user[s] \in User
        /\ UNCHANGED <<user, online, overtaken, banned, banTask>>
    <3>1. user[s] \in User /\ online[user[s]] \in Record
      BY <1>1 DEF SignalExisting
    <3>2. \A t \in Session : signal'[t] = (signal[t] \/ t = online[user[s]])
      BY <1>1 DEF SignalExisting, Send
    <3> QED
      BY <1>1, <3>1, <3>2 DEF SignalExisting
  <2>2. SeenSignalled'
    BY <2>1
  <2>3. EntryOwned'
    BY <2>1
  <2>4. Displaced'
    BY <2>1
  <2>5. BannedOut'
    BY <2>1
  <2> QED
    BY <2>2, <2>3, <2>4, <2>5
<1>2. CASE InsertOnline(s)
  <2>1. /\ user[s] \in User /\ user' = user /\ signal' = signal
        /\ \A t \in Session \ {s} : pc'[t] = pc[t]
        /\ pc[s] = "insert" /\ pc'[s] = "serving"
        /\ online'[user[s]] = s
        /\ \A u \in User \ {user[s]} : online'[u] = online[u]
    BY <1>2 DEF InsertOnline
  <2>2. SeenSignalled'
    BY <1>2, <2>1 DEF InsertOnline
  <2>3. EntryOwned'
    <3> SUFFICES ASSUME ~overtaken', NEW u \in User, online'[u] # NoSession
                 PROVE  /\ user[online'[u]] = u
                        /\ pc'[online'[u]] \in Serving \cup {"cleanup", "failed"}
      BY <2>1
    <3>1. CASE u = user[s]
      BY <2>1, <3>1
    <3>2. CASE u # user[s]
      <4>1. online'[u] = online[u] /\ ~overtaken
        BY <1>2, <2>1, <3>2 DEF InsertOnline
      <4>2. /\ online[u] \in Session /\ user[online[u]] = u
            /\ pc[online[u]] \in Serving \cup {"cleanup", "failed"}
        BY <4>1
      <4>3. online[u] # s
        BY <4>2, <3>2
      <4> QED
        BY <2>1, <4>1, <4>2, <4>3
    <3> QED
      BY <3>1, <3>2
  <2>5. Displaced'
    <3> SUFFICES ASSUME ~overtaken', NEW t \in Session, pc'[t] \in Serving
                 PROVE  online'[user[t]] = t \/ signal[t]
      BY <2>1
    <3>1. ~overtaken /\ online[user[s]] = seen[s]
      BY <1>2 DEF InsertOnline
    <3>2. CASE t = s
      BY <2>1, <3>2
    <3>3. CASE t # s
      <4>1. user[t] \in User /\ (online[user[t]] = t \/ signal[t])
        BY <2>1, <3>1, <3>3
      <4>2. CASE user[t] = user[s]
        \* The record replaced is the one add_user saw, and told to go.
        BY <2>1, <3>1, <4>1, <4>2
      <4> QED
        BY <2>1, <4>1, <4>2
    <3> QED
      BY <3>2, <3>3
  <2>4. BannedOut'
    <3>1. ~overtaken' => ~overtaken /\ user[s] \notin banned
      BY <1>2 DEF InsertOnline
    <3>2. UNCHANGED <<banned, banTask>>
      BY <1>2 DEF InsertOnline
    <3> QED
      BY <2>1, <3>1, <3>2
  <2> QED
    BY <2>2, <2>3, <2>4, <2>5
<1> QED
  BY <1>1, <1>2

\* The comparison of connection ids takes away the session's own record only.
LEMMA TableCleanupStep ==
  ASSUME TypeOK, IdsExclusive, TableInv, NEW s \in Session,
         RemoveUserIfConnection(s)
  PROVE  TableInv'
<1> USE DEF TypeOK, TableInv, SeenSignalled, EntryOwned, Displaced, BannedOut,
            Record, Goto, Login, Serving, loginVars, pingVars
<1>1. /\ HasId(s) /\ pc[s] = "cleanup" /\ pc'[s] = "free" /\ user' = user
      /\ \A t \in Session \ {s} : pc'[t] = pc[t]
  BY DEF RemoveUserIfConnection, HasId
<1>2. ASSUME ~overtaken
      PROVE  online' = [u \in User |-> IF online[u] = s THEN NoSession
                                                      ELSE online[u]]
  <2>1. ASSUME NEW u \in User, online[u] # NoSession PROVE HasId(online[u])
    BY <1>2, <2>1 DEF HasId
  <2>2. ASSUME NEW u \in User, online[u] # NoSession
        PROVE  (conn[online[u]] = conn[s]) <=> online[u] = s
    BY <1>1, <2>1, <2>2 DEF IdsExclusive
  <2>3. ASSUME NEW u \in User, online[u] = s PROVE u = user[s]
    BY <1>2, <2>3
  <2> QED
    BY <2>2, <2>3 DEF RemoveUserIfConnection
<1>3. /\ UNCHANGED <<overtaken, seen, signal, banned, banTask>>
      /\ online' \in [User -> Record]
  BY DEF RemoveUserIfConnection
<1>4. SeenSignalled'
  BY <1>1, <1>3
<1>5. EntryOwned'
  BY <1>1, <1>2, <1>3
<1>6. Displaced'
  BY <1>1, <1>2, <1>3
<1>7. BannedOut'
  BY <1>1, <1>3
<1> QED
  BY <1>4, <1>5, <1>6, <1>7

\* The tasks that reach a session through the table.
LEMMA TableOtherStep ==
  ASSUME TypeOK, TableInv,
         \/ \E s \in Session : SweepOne(s)
         \/ \E u \in User : \/ CloneRecord(u) \/ SetBan(u) \/ BanDisconnect(u)
                            \/ BanExpires(u) \/ IssueTicket(u)
         \/ \E c \in clones : WriteBack(c)
         \/ SweepStart
         \/ UNCHANGED vars
  PROVE  TableInv'
<1> USE DEF TypeOK, TableInv, SeenSignalled, EntryOwned, Displaced, BannedOut,
            Record, tableVars, loginVars, pingVars
<1>1. ASSUME NEW s \in Session, SweepOne(s) PROVE TableInv'
  <2>1. /\ \A t \in Session : signal[t] => signal'[t]
        /\ UNCHANGED <<pc, user, online, seen, overtaken, banned, banTask>>
    BY <1>1 DEF SweepOne, Send
  <2> QED
    BY <2>1
<1>2. ASSUME NEW u \in User, BanDisconnect(u) PROVE TableInv'
  <2>1. /\ \A t \in Session : signal[t] => signal'[t]
        /\ online[u] # NoSession => signal'[online[u]]
        /\ banTask' = banTask \ {u}
        /\ UNCHANGED <<pc, user, online, seen, overtaken, banned>>
    <3>1. \A t \in Session : signal'[t] = (signal[t] \/ t = online[u])
      BY <1>2 DEF BanDisconnect, Send
    <3>2. online[u] # NoSession => signal'[online[u]]
      <4>1. online[u] \in Record
        BY <1>2
      <4> QED
        BY <3>1, <4>1
    <3>3. \A t \in Session : signal[t] => signal'[t]
      BY <3>1
    <3>4. /\ banTask' = banTask \ {u}
          /\ UNCHANGED <<pc, user, online, seen, overtaken, banned>>
      BY <1>2 DEF BanDisconnect
    <3> QED
      BY <3>2, <3>3, <3>4
  <2>2. SeenSignalled' /\ EntryOwned' /\ Displaced'
    BY <2>1
  <2>3. BannedOut'
    \* A session serving u is in the table, and told now, or was told before.
    BY <2>1
  <2> QED
    BY <2>2, <2>3
<1>3. ASSUME NEW u \in User,
             CloneRecord(u) \/ SetBan(u) \/ BanExpires(u) \/ IssueTicket(u)
      PROVE TableInv'
  BY <1>3 DEF CloneRecord, SetBan, BanExpires, IssueTicket
<1>4. ASSUME NEW c \in clones, WriteBack(c) PROVE TableInv'
  <2>1. c[1] \in User /\ c[2] \in Session
    OBVIOUS
  <2>2. ~overtaken' => ~overtaken /\ online[c[1]] = c[2]
    BY <1>4 DEF WriteBack
  <2>3. ~overtaken' => online' = online
    BY <1>4, <2>1, <2>2 DEF WriteBack
  <2>4. UNCHANGED <<pc, user, seen, signal, banned, banTask>>
    BY <1>4 DEF WriteBack
  <2> QED
    BY <2>2, <2>3, <2>4
<1>5. CASE SweepStart \/ UNCHANGED vars
  BY <1>5 DEF SweepStart, vars
<1> QED
  BY <1>1, <1>2, <1>3, <1>4, <1>5

IndInv == TypeOK /\ IdsInRange /\ IdsExclusive /\ TableInv

\* The inductive invariant of the table, the watches and the bans.
LEMMA IndInvHolds == Spec => []IndInv
<1>1. Init => IndInv
  BY TypeInit DEF Init, IndInv, IdsInRange, IdsExclusive, HasId, TableInv,
     SeenSignalled, EntryOwned, Displaced, BannedOut, Serving
<1>2. IndInv /\ [Next]_vars => IndInv'
  BY TypeStep, IdsStep, TableQuietStep, TableLoginStep, TableCleanupStep,
     TableOtherStep DEF IndInv, Next, SessionStep, Interrupt
<1> QED
  BY <1>1, <1>2, PTL DEF Spec

\* As long as no read-modify-write of the table was overtaken, a second login
\* displaces the first and is never undone by the first one's cleanup.
THEOREM SecondLoginDisplaces == Spec => []Displaced
  BY IndInvHolds, PTL DEF IndInv, TableInv

\* As long as no read-modify-write was overtaken, nobody who closed in order is
\* in the online table, and every record is its account's.
THEOREM EntriesAreOwned == Spec => []EntryOwned
  BY IndInvHolds, PTL DEF IndInv, TableInv

\* As long as no ban overtook a login, a banned account is told to go wherever it
\* is served.
THEOREM BannedAreOut == Spec => []BannedOut
  BY IndInvHolds, PTL DEF IndInv, TableInv
=============================================================================
