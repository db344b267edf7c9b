-------------------------------- MODULE Trading --------------------------------
(***************************************************************************)
(* Trading between the users of one guest room.                            *)
(*                                                                         *)
(* A trade is two entries of active_trades, one for each party, and the    *)
(* status "trd" on two avatars.  The table is locked for one access at a   *)
(* time; between the accesses of one packet the other sessions run, kicks  *)
(* take avatars out without looking at the trades, and offered items stay  *)
(* free: nothing reserves them.                                            *)
(*                                                                         *)
(* Sources: session_impl.rs (trade_start .. trade_abort,                   *)
(* abort_trade_for_user, and the parts of leave_room, cleanup and the      *)
(* kicks that touch a trade).  The room is changed in one step here; what  *)
(* becomes of whole-room copies that race is the matter of RoomRegistry.   *)
(***************************************************************************)
EXTENDS Naturals, FiniteSets

CONSTANTS
  User,        \* the users who come to the room
  Item,        \* furniture
  NoTrade,     \* no entry in active_trades
  NoUid,       \* not in the room
  MaxOffer     \* the code's limit of items in one offer (65)

Trade == [partner : User, at : Nat, accepted : BOOLEAN, items : SUBSET Item]

ASSUME TradingAssumption ==
  /\ IsFiniteSet(User) /\ MaxOffer \in Nat
  /\ NoUid \notin Nat /\ NoTrade \notin Trade

VARIABLES
  uid,         \* room_uid of each avatar
  trd,         \* avatars with the status "trd"
  trades,      \* active_trades
  owner,       \* furniture.ownerid
  inHand,      \* furniture with roomid = 0
  task,        \* where each session is, and the locals of its packet
  muddled,     \* history: a write met an entry of another trade
  overlapped,  \* history: a trade was removed during its swap, or an item was
               \* swapped between the two halves of an offer of it
  deserted     \* history: a kick, a disconnection or a failure took a user
               \* out of a trade, or a trade began with one on the way out

roomVars == <<uid, trd>>
itemVars == <<owner, inHand>>
historyVars == <<muddled, overlapped, deserted>>
vars == <<roomVars, trades, itemVars, task, historyVars>>

PC == {"ready", "offline", "failed", "insert", "push", "decline", "decide",
       "swap", "abort", "read", "remove", "status", "out"}

TypeOK ==
  /\ uid \in [User -> Nat \cup {NoUid}] /\ trd \subseteq User
  /\ trades \in [User -> Trade \cup {NoTrade}]
  /\ \A u \in User : trades[u] # NoTrade => Cardinality(trades[u].items) <= MaxOffer
  /\ owner \in [Item -> User] /\ inHand \subseteq Item
  /\ task \in [User -> [pc : PC, then : {"ready", "out", "offline"},
                        own : Nat \cup {NoUid}, at : Nat \cup {NoUid},
                        with : User, give : SUBSET Item, take : SUBSET Item]]
  /\ muddled \in BOOLEAN /\ overlapped \in BOOLEAN /\ deserted \in BOOLEAN

AtRest(u, p) ==
  [pc |-> p, then |-> "ready", own |-> NoUid, at |-> NoUid, with |-> u,
   give |-> {}, take |-> {}]

Init ==
  /\ uid = [u \in User |-> NoUid] /\ trd = {}
  /\ trades = [u \in User |-> NoTrade]
  /\ owner \in [Item -> User] /\ inHand = Item
  /\ task = [u \in User |-> AtRest(u, "ready")]
  /\ muddled = FALSE /\ overlapped = FALSE /\ deserted = FALSE

-----------------------------------------------------------------------------
(* The shape of a packet                                                   *)

Pc(u) == task[u].pc
Rest(u, p) == task' = [task EXCEPT ![u] = AtRest(u, p)]
Goto(u, p) == task' = [task EXCEPT ![u].pc = p]

\* A packet begins when the session has an avatar.
Packet(u) == Pc(u) = "ready" /\ uid[u] # NoUid
StandsThere(n) == \E v \in User : uid[v] = n

\* A trade packet goes on when there is an entry and its uid is in the room.
Trades(u) == trades[u] # NoTrade /\ StandsThere(trades[u].at)

-----------------------------------------------------------------------------
(* trade_start                                                             *)

\* The session has no trade; load_room, the two statuses, save_room.
TradeStart(u, v) ==
  /\ Packet(u) /\ trades[u] = NoTrade
  /\ uid[v] # NoUid /\ v # u /\ v \notin trd
  /\ trd' = trd \cup {u, v}
  /\ task' = [task EXCEPT ![u].pc = "insert", ![u].own = uid[u],
                          ![u].at = uid[v], ![u].with = v]
  /\ UNCHANGED <<uid, trades, itemVars, historyVars>>

NewTrade(p, n) == [partner |-> p, at |-> n, accepted |-> FALSE, items |-> {}]

\* Mutant: the partner gets no entry.
StartInsertOne(u) ==
  LET v == task[u].with IN
  /\ Pc(u) = "insert" /\ Rest(u, "ready")
  /\ trades' = [trades EXCEPT ![u] = NewTrade(v, task[u].at)]
  /\ muddled' = (muddled \/ trades[u] # NoTrade)
  /\ UNCHANGED <<roomVars, itemVars, overlapped, deserted>>

\* Both entries, whatever was there.
StartInsert(u) ==
  LET v == task[u].with IN
  /\ Pc(u) = "insert" /\ Rest(u, "ready")
  /\ trades' = [trades EXCEPT ![u] = NewTrade(v, task[u].at),
                              ![v] = NewTrade(u, task[u].own)]
  /\ muddled' = (muddled \/ trades[u] # NoTrade \/ trades[v] # NoTrade)
  /\ deserted' = (deserted \/ task[v].then # "ready"
                           \/ uid[u] # task[u].own \/ uid[v] # task[u].at)
  /\ UNCHANGED <<roomVars, itemVars, overlapped>>

-----------------------------------------------------------------------------
(* trade_offer_item, trade_decline, trade_accept                           *)

\* The partner of the entry as it is now is remembered until the table is
\* locked again for the write.
Begin(u, p) ==
  /\ Packet(u) /\ Trades(u)
  /\ task' = [task EXCEPT ![u].pc = p, ![u].with = trades[u].partner]
  /\ UNCHANGED <<roomVars, trades, itemVars, historyVars>>

BelongsTo(v, u) == trades[v] = NoTrade \/ trades[v].partner = u
Muddles(u) == ~BelongsTo(u, task[u].with) \/ ~BelongsTo(task[u].with, u)

\* Mutant: the row is not asked whose item it is.
OfferAnyItem(u, i) ==
  /\ Packet(u) /\ Trades(u)
  /\ i \in inHand
  /\ task' = [task EXCEPT ![u].pc = "push", ![u].with = trades[u].partner,
                          ![u].give = {i}]
  /\ UNCHANGED <<roomVars, trades, itemVars, historyVars>>

\* ... after SELECT tid ... WHERE ownerid = user AND roomid = 0.
OfferItem(u, i) ==
  /\ Packet(u) /\ Trades(u)
  /\ owner[i] = u /\ i \in inHand
  /\ task' = [task EXCEPT ![u].pc = "push", ![u].with = trades[u].partner,
                          ![u].give = {i}]
  /\ UNCHANGED <<roomVars, trades, itemVars, historyVars>>

\* Mutant: only the offerer's own acceptance is taken back.
UnacceptSelf(t, u) ==
  [v \in User |-> IF v = u /\ t[v] # NoTrade
                  THEN [t[v] EXCEPT !.accepted = FALSE] ELSE t[v]]

\* The flags of the entries of u and of the partner u remembers.
Unaccept(t, u) ==
  [v \in User |-> IF v \in {u, task[u].with} /\ t[v] # NoTrade
                  THEN [t[v] EXCEPT !.accepted = FALSE] ELSE t[v]]

\* Mutant: the limit is passed by one.
CanPushOneMore(u) ==
  /\ trades[u] # NoTrade
  /\ Cardinality(trades[u].items) <= MaxOffer
  /\ task[u].give \cap trades[u].items = {}

CanPush(u) ==
  /\ trades[u] # NoTrade
  /\ Cardinality(trades[u].items) < MaxOffer
  /\ task[u].give \cap trades[u].items = {}

OfferPush(u) ==
  /\ Pc(u) = "push" /\ Rest(u, "ready")
  /\ trades' = IF CanPush(u)
               THEN Unaccept([trades EXCEPT ![u].items = @ \cup task[u].give], u)
               ELSE trades
  /\ muddled' = (muddled \/ (CanPush(u) /\ Muddles(u)))
  /\ UNCHANGED <<roomVars, itemVars, overlapped, deserted>>

Decline(u) == Begin(u, "decline")

DeclineWrite(u) ==
  /\ Pc(u) = "decline" /\ Rest(u, "ready")
  /\ trades' = Unaccept(trades, u)
  /\ muddled' = (muddled \/ Muddles(u))
  /\ UNCHANGED <<roomVars, itemVars, overlapped, deserted>>

Accept(u) == Begin(u, "decide")

AcceptTooLate(u) ==
  /\ Pc(u) = "decide" /\ trades[u] = NoTrade
  /\ Rest(u, "ready")
  /\ UNCHANGED <<roomVars, trades, itemVars, historyVars>>

\* Under one write lock: the flag is set and both lists are copied.
Decide(u) ==
  LET p == task[u].with
      theirs == IF trades[p] = NoTrade THEN {} ELSE trades[p].items
      mine == trades[u].items
  IN
  /\ Pc(u) = "decide" /\ trades[u] # NoTrade
  /\ trades' = [trades EXCEPT ![u].accepted = TRUE]
  /\ IF trades[p] # NoTrade /\ trades[p].accepted
       THEN task' = [task EXCEPT ![u].pc = "swap", ![u].give = mine, ![u].take = theirs]
       ELSE Rest(u, "ready")
  /\ muddled' = (muddled \/ Muddles(u))
  /\ UNCHANGED <<roomVars, itemVars, overlapped, deserted>>

\* UPDATE furniture SET ownerid = ..., roomid = 0 WHERE id = ...
HandOver(i, to) ==
  /\ owner' = [owner EXCEPT ![i] = to]
  /\ inHand' = inHand \cup {i}
  /\ overlapped' = (overlapped \/ \E v \in User : Pc(v) = "push" /\ i \in task[v].give)

Give(u) ==
  /\ Pc(u) = "swap"
  /\ \E i \in task[u].give :
       /\ HandOver(i, task[u].with)
       /\ task' = [task EXCEPT ![u].give = @ \ {i}]
  /\ UNCHANGED <<roomVars, trades, muddled, deserted>>

Take(u) ==
  /\ Pc(u) = "swap" /\ task[u].give = {}
  /\ \E i \in task[u].take :
       /\ HandOver(i, u)
       /\ task' = [task EXCEPT ![u].take = @ \ {i}]
  /\ UNCHANGED <<roomVars, trades, muddled, deserted>>

\* trade_abort(false)
SwapEnds(u) ==
  /\ Pc(u) = "swap" /\ task[u].give = {} /\ task[u].take = {}
  /\ Goto(u, "abort")
  /\ UNCHANGED <<roomVars, trades, itemVars, historyVars>>

-----------------------------------------------------------------------------
(* trade_abort, abort_trade_for_user                                       *)

\* abort_trade_for_user reads the entry ...
AbortRead(u) ==
  task' = [task EXCEPT ![u].pc = "remove", ![u].with = trades[u].partner,
                       ![u].at = trades[u].at]

TradeAbort(u) ==
  /\ Packet(u) /\ Trades(u)
  /\ AbortRead(u)
  /\ UNCHANGED <<roomVars, trades, itemVars, historyVars>>

\* trade_abort at the end of a swap or before leave_room; cleanup does not ask
\* whether the partner's uid is in the room.
AbortCheck(u) ==
  /\ Pc(u) \in {"abort", "read"}
  /\ IF Trades(u) \/ (Pc(u) = "read" /\ trades[u] # NoTrade)
       THEN AbortRead(u) ELSE Goto(u, task[u].then)
  /\ UNCHANGED <<roomVars, trades, itemVars, historyVars>>

\* ... and removes it and the partner's, whatever they are by then.
AbortRemove(u) ==
  LET p == task[u].with IN
  /\ Pc(u) = "remove" /\ Goto(u, "status")
  /\ trades' = [trades EXCEPT ![u] = NoTrade, ![p] = NoTrade]
  /\ muddled' = (muddled \/ Muddles(u))
  /\ overlapped' = (overlapped \/ \E v \in {u, p} : Pc(v) = "swap")
  /\ UNCHANGED <<roomVars, itemVars, deserted>>

\* Nothing is told to anybody unless both still stand in the room.
AbortStatus(u) ==
  /\ Pc(u) = "status" /\ Goto(u, task[u].then)
  /\ trd' = IF uid[u] # NoUid /\ StandsThere(task[u].at)
            THEN trd \ {u, task[u].with} ELSE trd
  /\ UNCHANGED <<uid, trades, itemVars, historyVars>>

-----------------------------------------------------------------------------
(* Coming and going                                                        *)

LowestFree(n) ==
  ~StandsThere(n) /\ \A k \in 0 .. Cardinality(User) : ~StandsThere(k) => n <= k

EnterRoom(u) ==
  /\ Pc(u) = "ready" /\ uid[u] = NoUid
  /\ \E n \in 0 .. Cardinality(User) :
       LowestFree(n) /\ uid' = [uid EXCEPT ![u] = n]
  /\ UNCHANGED <<trd, trades, itemVars, task, historyVars>>

WalkOut(u) ==
  /\ uid' = [uid EXCEPT ![u] = NoUid]
  /\ trd' = trd \ {u}

\* The trade stays behind, or is removed later.
Desert(u) ==
  /\ deserted' = (deserted \/ trades[u] # NoTrade)
  /\ UNCHANGED <<muddled, overlapped>>

\* Mutant: the trade is not aborted.
LeaveRoomTrading(u) ==
  /\ Packet(u)
  /\ task' = [task EXCEPT ![u].then = "out", ![u].pc = "out"]
  /\ UNCHANGED <<roomVars, trades, itemVars, historyVars>>

\* leave_room: the trade is aborted first, if there is one.
LeaveRoom(u) ==
  /\ Packet(u)
  /\ task' = [task EXCEPT ![u].then = "out",
                          ![u].pc = IF trades[u] # NoTrade THEN "abort" ELSE "out"]
  /\ UNCHANGED <<roomVars, trades, itemVars, historyVars>>

Out(u) ==
  /\ Pc(u) = "out" /\ Rest(u, "ready")
  /\ WalkOut(u)
  /\ UNCHANGED <<trades, itemVars, historyVars>>

\* cleanup: the avatar goes first, and the trade after it.
Cleanup(u) ==
  /\ Pc(u) = "ready"
  /\ task' = [task EXCEPT ![u].pc = "read", ![u].then = "offline"]
  /\ WalkOut(u) /\ Desert(u)
  /\ UNCHANGED <<trades, itemVars>>

Login(u) ==
  /\ Pc(u) = "offline" /\ Rest(u, "ready")
  /\ UNCHANGED <<roomVars, trades, itemVars, historyVars>>

\* kick_user: active_trades is not looked at.
Kick(u) ==
  /\ uid[u] # NoUid
  /\ WalkOut(u) /\ Desert(u)
  /\ UNCHANGED <<trades, itemVars, task>>

\* A database error, in the swap or in another packet: no cleanup.
Fail(u) ==
  /\ Pc(u) \in {"ready", "swap"} /\ Rest(u, "failed")
  /\ Desert(u)
  /\ UNCHANGED <<roomVars, trades, itemVars>>

\* The other packets of the owner: an offered item is not reserved.
PlaceItem(u, i) ==
  /\ Packet(u) /\ owner[i] = u /\ i \in inHand
  /\ inHand' = inHand \ {i}
  /\ UNCHANGED <<roomVars, trades, owner, task, historyVars>>

PickUpItem(u, i) ==
  /\ Packet(u) /\ owner[i] = u /\ i \notin inHand
  /\ inHand' = inHand \cup {i}
  /\ UNCHANGED <<roomVars, trades, owner, task, historyVars>>

-----------------------------------------------------------------------------
TradeStep(u) ==
  \/ \E v \in User : TradeStart(u, v)
  \/ StartInsert(u)
  \/ \E i \in Item : OfferItem(u, i)
  \/ OfferPush(u) \/ Decline(u) \/ DeclineWrite(u)
  \/ Accept(u) \/ AcceptTooLate(u) \/ Decide(u) \/ Give(u) \/ Take(u) \/ SwapEnds(u)
  \/ TradeAbort(u) \/ AbortCheck(u) \/ AbortRemove(u) \/ AbortStatus(u)

RoomStep(u) ==
  \/ EnterRoom(u) \/ LeaveRoom(u) \/ Out(u) \/ Cleanup(u) \/ Login(u) \/ Kick(u)
  \/ Fail(u) \/ \E i \in Item : PlaceItem(u, i) \/ PickUpItem(u, i)

Next == \E u \in User : TradeStep(u) \/ RoomStep(u)

Spec == Init /\ [][Next]_vars

-----------------------------------------------------------------------------
(* Properties                                                              *)

Accepted(t, u) == t[u] # NoTrade /\ t[u].accepted

\* Unless a write met the entry of another trade, the entries come in pairs:
\* the partner of a party has the party for its own partner.
\* (trade_start and abort_trade_for_user, which write two entries each.)
Paired ==
  ~muddled =>
    \A u \in User : trades[u] # NoTrade =>
      LET p == trades[u].partner IN trades[p] # NoTrade /\ trades[p].partner = u

\* Unless a write met the entry of another trade, an acceptance stands for the
\* two lists it was given for: whoever changes a list takes both acceptances
\* back, so a swap hands over what both have accepted.
\* (trade_offer_item against trade_accept, under one lock.)
AcceptanceStands ==
  [][~muddled' =>
       \A u \in User :
         Accepted(trades, u) /\ Accepted(trades', u) =>
           LET p == trades[u].partner IN
           trades'[u].items = trades[u].items /\ trades'[p].items = trades[p].items]_vars

\* Unless a kick, a disconnection or a failure took somebody out of a trade,
\* whoever has a trade can end it: the partner is in the room under the uid the
\* entry remembers, which every trade packet asks for.  (leave_room against
\* the other packets: a lasting entry without it also bars all later trades.)
CanAbort ==
  ~muddled /\ ~deserted =>
    \A u \in User : trades[u] # NoTrade => uid[trades[u].partner] = trades[u].at

\* Unless a swap was overlapped by another packet about its trade or its items,
\* or an entry of another trade was met, it takes furniture from its two parties
\* only, although offered items are not reserved and the UPDATE asks for no owner.
SwapsBetweenParties ==
  [][\A u \in User, i \in Item :
       Pc(u) = "swap" /\ task'[u] # task[u] /\ owner'[i] # owner[i] =>
         muddled \/ overlapped \/ owner[i] \in {u, task[u].with}]_vars
=============================================================================
