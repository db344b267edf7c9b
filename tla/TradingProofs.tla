----------------------------- MODULE TradingProofs -----------------------------
(***************************************************************************)
(* Proofs about Trading, for any users and items and any limit of an offer. *)
(***************************************************************************)
EXTENDS Trading, FiniteSetTheorems, TLAPS

USE TradingAssumption

Uid == Nat \cup {NoUid}
Local ==
  [pc : PC, then : {"ready", "out", "offline"}, own : Uid, at : Uid, with : User,
   give : SUBSET Item, take : SUBSET Item]

\* What the steps of a packet rely on: two avatars are known when the entries of
\* a trade are made, and one item is pushed at a time.
Ready(l) ==
  /\ l.pc = "insert" => l.own \in Nat /\ l.at \in Nat
  /\ l.pc = "push" => \E i \in Item : l.give = {i}
Tasks == task \in [User -> Local] /\ \A u \in User : Ready(task[u])

\* An offer is a finite list within the limit.
Offer(x) == IsFiniteSet(x.items) /\ Cardinality(x.items) <= MaxOffer
EntryTypes == trades \in [User -> Trade \cup {NoTrade}]
Entries == EntryTypes /\ \A u \in User : trades[u] # NoTrade => Offer(trades[u])

World ==
  /\ uid \in [User -> Uid] /\ trd \subseteq User
  /\ owner \in [Item -> User] /\ inHand \subseteq Item
  /\ muddled \in BOOLEAN /\ overlapped \in BOOLEAN /\ deserted \in BOOLEAN

\* The inductive invariant behind TypeOK.
Sound == World /\ Tasks /\ Entries

LEMMA SoundIsTyped == Sound => TypeOK
  BY DEF Sound, World, Tasks, Entries, EntryTypes, Offer, TypeOK, Local, Uid

-----------------------------------------------------------------------------
(* One session's locals                                                    *)

LEMMA LocalStep ==
  ASSUME Tasks, NEW u \in User, NEW l \in Local, Ready(l), task' = [task EXCEPT ![u] = l]
  PROVE  Tasks'
  BY DEF Tasks

LEMMA RestStep ==
  ASSUME Tasks, NEW u \in User, NEW p \in {"ready", "failed"}, Rest(u, p)
  PROVE  Tasks'
<1>1. AtRest(u, p) \in Local /\ Ready(AtRest(u, p))
  BY DEF AtRest, Local, Uid, PC, Ready
<1> QED
  BY <1>1, LocalStep DEF Rest

LEMMA GotoStep ==
  ASSUME Tasks, NEW u \in User, NEW p \in PC \ {"insert", "push"}, Goto(u, p)
  PROVE  Tasks'
<1> DEFINE l == [task[u] EXCEPT !.pc = p]
<1>1. l \in Local /\ Ready(l)
  BY DEF Tasks, Local, Ready
<1>2. task' = [task EXCEPT ![u] = l]
  BY DEF Goto, Tasks
<1> QED
  BY <1>1, <1>2, LocalStep

LEMMA AbortReadStep ==
  ASSUME Tasks, Entries, NEW u \in User, trades[u] # NoTrade, AbortRead(u)
  PROVE  Tasks'
<1> DEFINE l == [task[u] EXCEPT !.pc = "remove", !.with = trades[u].partner,
                                !.at = trades[u].at]
<1>0. trades[u] \in Trade /\ task[u] \in Local
  BY DEF Entries, EntryTypes, Tasks
<1>1. l \in Local /\ Ready(l)
  BY <1>0 DEF Trade, Local, Uid, PC, Ready
<1>2. task' = [task EXCEPT ![u] = l]
  BY DEF AbortRead, Tasks
<1> QED
  BY <1>1, <1>2, LocalStep

LEMMA BeginStep ==
  ASSUME Tasks, Entries, NEW u \in User, NEW p \in {"decline", "decide"}, Begin(u, p)
  PROVE  Tasks'
<1> DEFINE l == [task[u] EXCEPT !.pc = p, !.with = trades[u].partner]
<1>0. trades[u] \in Trade /\ task[u] \in Local
  BY DEF Entries, EntryTypes, Tasks, Begin, Trades
<1>1. l \in Local /\ Ready(l)
  BY <1>0 DEF Trade, Local, PC, Ready
<1>2. task' = [task EXCEPT ![u] = l]
  BY DEF Begin, Tasks
<1> QED
  BY <1>1, <1>2, LocalStep

LEMMA TradeTasks ==
  ASSUME World, Tasks, Entries, NEW u \in User, TradeStep(u)
  PROVE  Tasks'
<1>0. task[u] \in Local /\ uid[u] \in Uid /\ Ready(task[u])
  BY DEF World, Tasks
<1>1. ASSUME NEW v \in User, TradeStart(u, v)
      PROVE  Tasks'
  <2> DEFINE l == [task[u] EXCEPT !.pc = "insert", !.own = uid[u], !.at = uid[v],
                                  !.with = v]
  <2>1. uid[u] \in Nat /\ uid[v] \in Nat
    BY <1>1 DEF TradeStart, Packet, World, Uid
  <2>2. l \in Local /\ Ready(l)
    BY <1>0, <2>1 DEF Local, Uid, PC, Ready
  <2>3. task' = [task EXCEPT ![u] = l]
    BY <1>1 DEF TradeStart, Tasks
  <2> QED
    BY <2>2, <2>3, LocalStep
<1>2. ASSUME NEW i \in Item, OfferItem(u, i)
      PROVE  Tasks'
  <2> DEFINE l == [task[u] EXCEPT !.pc = "push", !.with = trades[u].partner, !.give = {i}]
  <2>1. trades[u] \in Trade
    BY <1>2 DEF OfferItem, Trades, Entries, EntryTypes
  <2>2. l \in Local /\ Ready(l)
    BY <1>0, <2>1 DEF Local, Trade, PC, Ready
  <2>3. task' = [task EXCEPT ![u] = l]
    BY <1>2 DEF OfferItem, Tasks
  <2> QED
    BY <2>2, <2>3, LocalStep
<1>3. CASE StartInsert(u) \/ OfferPush(u) \/ DeclineWrite(u) \/ AcceptTooLate(u)
  BY <1>3, RestStep DEF StartInsert, OfferPush, DeclineWrite, AcceptTooLate
<1>4. CASE Decline(u) \/ Accept(u)
  BY <1>4, BeginStep DEF Decline, Accept
<1>5. CASE Decide(u)
  <2> DEFINE p == task[u].with
             theirs == IF trades[p] = NoTrade THEN {} ELSE trades[p].items
             l == [task[u] EXCEPT !.pc = "swap", !.give = trades[u].items, !.take = theirs]
  <2>1. p \in User /\ trades[u] \in Trade /\ trades[p] \in Trade \cup {NoTrade}
    BY <1>0, <1>5 DEF Decide, Local, Entries, EntryTypes
  <2>2. l \in Local /\ Ready(l)
    BY <1>0, <2>1 DEF Local, Trade, PC, Ready
  <2>3. task' = [task EXCEPT ![u] = l] \/ Rest(u, "ready")
    BY <1>5 DEF Decide, Tasks
  <2> QED
    BY <2>2, <2>3, LocalStep, RestStep
<1>6. CASE Give(u)
  <2>1. PICK i \in Item : task' = [task EXCEPT ![u].give = task[u].give \ {i}]
    BY <1>0, <1>6 DEF Give, Local, Tasks
  <2> DEFINE l == [task[u] EXCEPT !.give = task[u].give \ {i}]
  <2>2. l \in Local /\ Ready(l)
    BY <1>0, <1>6 DEF Local, Ready, Give, Pc
  <2>3. task' = [task EXCEPT ![u] = l]
    BY <2>1 DEF Tasks
  <2> QED
    BY <2>2, <2>3, LocalStep
<1>7. CASE Take(u)
  <2>1. PICK i \in Item : task' = [task EXCEPT ![u].take = task[u].take \ {i}]
    BY <1>0, <1>7 DEF Take, Local, Tasks
  <2> DEFINE l == [task[u] EXCEPT !.take = task[u].take \ {i}]
  <2>2. l \in Local /\ Ready(l)
    BY <1>0, <1>7 DEF Local, Ready, Take, Pc
  <2>3. task' = [task EXCEPT ![u] = l]
    BY <2>1 DEF Tasks
  <2> QED
    BY <2>2, <2>3, LocalStep
<1>8. CASE SwapEnds(u) \/ AbortRemove(u)
  BY <1>8, GotoStep DEF SwapEnds, AbortRemove, PC
<1>9. CASE TradeAbort(u)
  BY <1>9, AbortReadStep DEF TradeAbort, Trades
<1>10. CASE AbortCheck(u) \/ AbortStatus(u)
  <2>1. task[u].then \in PC \ {"insert", "push"}
    BY <1>0 DEF Local, PC
  <2> QED
    BY <1>10, <2>1, GotoStep, AbortReadStep DEF AbortCheck, AbortStatus, Trades
<1> QED
  BY <1>1, <1>2, <1>3, <1>4, <1>5, <1>6, <1>7, <1>8, <1>9, <1>10 DEF TradeStep

LEMMA RoomTasks ==
  ASSUME Tasks, NEW u \in User, RoomStep(u)
  PROVE  Tasks'
<1>0. task[u] \in Local
  BY DEF Tasks
<1>1. CASE LeaveRoom(u)
  <2> DEFINE l == [task[u] EXCEPT !.then = "out",
                                  !.pc = IF trades[u] # NoTrade THEN "abort" ELSE "out"]
  <2>1. l \in Local /\ Ready(l)
    BY <1>0 DEF Local, PC, Ready
  <2>2. task' = [task EXCEPT ![u] = l]
    BY <1>1 DEF LeaveRoom, Tasks
  <2> QED
    BY <2>1, <2>2, LocalStep
<1>2. CASE Cleanup(u)
  <2> DEFINE l == [task[u] EXCEPT !.pc = "read", !.then = "offline"]
  <2>1. l \in Local /\ Ready(l)
    BY <1>0 DEF Local, PC, Ready
  <2>2. task' = [task EXCEPT ![u] = l]
    BY <1>2 DEF Cleanup, Tasks
  <2> QED
    BY <2>1, <2>2, LocalStep
<1>3. CASE Out(u) \/ Login(u) \/ Fail(u)
  BY <1>3, RestStep DEF Out, Login, Fail
<1>4. CASE EnterRoom(u) \/ Kick(u) \/ \E i \in Item : PlaceItem(u, i) \/ PickUpItem(u, i)
  BY <1>4 DEF EnterRoom, Kick, PlaceItem, PickUpItem, Tasks
<1> QED
  BY <1>1, <1>2, <1>3, <1>4 DEF RoomStep

-----------------------------------------------------------------------------
(* The entries                                                             *)

\* Which entries a session writes, and how: all others it leaves alone.
Parties(u) == {u, task[u].with}

\* Taking acceptances back changes nothing but flags.
LEMMA UnacceptEntries ==
  ASSUME NEW t \in [User -> Trade \cup {NoTrade}], NEW u \in User
  PROVE  /\ Unaccept(t, u) \in [User -> Trade \cup {NoTrade}]
         /\ \A v \in User :
              /\ Unaccept(t, u)[v] = NoTrade <=> t[v] = NoTrade
              /\ t[v] # NoTrade => /\ Unaccept(t, u)[v].partner = t[v].partner
                                   /\ Unaccept(t, u)[v].at = t[v].at
                                   /\ Unaccept(t, u)[v].items = t[v].items
              /\ t[v] # NoTrade /\ v \in Parties(u) => ~Unaccept(t, u)[v].accepted
              /\ v \notin Parties(u) => Unaccept(t, u)[v] = t[v]
<1>1. ASSUME NEW v \in User, t[v] # NoTrade
      PROVE  LET x == [t[v] EXCEPT !.accepted = FALSE] IN
             /\ x \in Trade /\ x # NoTrade /\ ~x.accepted
             /\ x.partner = t[v].partner /\ x.at = t[v].at /\ x.items = t[v].items
  <2>1. t[v] \in Trade
    BY <1>1
  <2> QED
    BY <2>1 DEF Trade
<1>2. \A v \in User : Unaccept(t, u)[v] =
        IF v \in Parties(u) /\ t[v] # NoTrade THEN [t[v] EXCEPT !.accepted = FALSE] ELSE t[v]
  BY DEF Unaccept, Parties
<1>3. Unaccept(t, u) = [v \in User |-> Unaccept(t, u)[v]]
  BY DEF Unaccept
<1>4. \A v \in User : Unaccept(t, u)[v] \in Trade \cup {NoTrade}
  BY <1>1, <1>2
<1> QED
  BY <1>1, <1>2, <1>3, <1>4

\* One item more is within the limit when the list was below it.
LEMMA OneMore ==
  ASSUME NEW S, NEW i, IsFiniteSet(S), Cardinality(S) < MaxOffer
  PROVE  IsFiniteSet(S \cup {i}) /\ Cardinality(S \cup {i}) <= MaxOffer
<1>1. Cardinality(S) \in Nat
  BY FS_CardinalityType
<1>2. /\ IsFiniteSet(S \cup {i})
      /\ Cardinality(S \cup {i}) \in {Cardinality(S), Cardinality(S) + 1}
  BY FS_AddElement
<1> QED
  BY <1>1, <1>2

LEMMA EmptyOffer ==
  ASSUME NEW x, x.items = {}
  PROVE  Offer(x)
  BY FS_EmptySet DEF Offer

\* What each of the five steps that write entries makes of them.
LEMMA Inserted ==
  ASSUME Tasks, EntryTypes, NEW u \in User, StartInsert(u)
  PROVE  LET v == task[u].with
             n == NewTrade(v, task[u].at)
             m == NewTrade(u, task[u].own)
         IN  /\ v \in User /\ n \in Trade /\ m \in Trade
             /\ trades' = [trades EXCEPT ![u] = n, ![v] = m]
             /\ muddled' = (muddled \/ trades[u] # NoTrade \/ trades[v] # NoTrade)
  BY DEF Tasks, Ready, Local, StartInsert, Pc, NewTrade, Trade

LEMMA Pushed ==
  ASSUME Tasks, EntryTypes, NEW u \in User, OfferPush(u), CanPush(u)
  PROVE  LET t == [trades EXCEPT ![u] = [trades[u] EXCEPT
                     !.items = trades[u].items \cup task[u].give]]
         IN  /\ t \in [User -> Trade \cup {NoTrade}] /\ t[u] # NoTrade
             /\ trades' = Unaccept(t, u)
             /\ muddled' = (muddled \/ Muddles(u))
<1>0. trades[u] \in Trade /\ task[u].give \in SUBSET Item
  BY DEF EntryTypes, CanPush, Tasks, Local
<1> DEFINE x == [trades[u] EXCEPT !.items = trades[u].items \cup task[u].give]
<1>1. x \in Trade
  BY <1>0 DEF Trade
<1>2. [trades EXCEPT ![u].items = trades[u].items \cup task[u].give]
        = [trades EXCEPT ![u] = x]
  BY DEF EntryTypes
<1> QED
  BY <1>1, <1>2 DEF OfferPush, EntryTypes

LEMMA Decided ==
  ASSUME EntryTypes, NEW u \in User, Decide(u)
  PROVE  LET x == [trades[u] EXCEPT !.accepted = TRUE]
         IN  /\ trades[u] \in Trade /\ x \in Trade
             /\ trades' = [trades EXCEPT ![u] = x]
  BY DEF EntryTypes, Decide, Trade

LEMMA OtherTradesKept ==
  ASSUME NEW u \in User, TradeStep(u), ~StartInsert(u), ~DeclineWrite(u), ~Decide(u),
         ~AbortRemove(u), ~(OfferPush(u) /\ CanPush(u))
  PROVE  UNCHANGED trades
  BY DEF TradeStep, TradeStart, OfferItem, OfferPush, Decline, Accept, Begin,
         AcceptTooLate, Give, Take, SwapEnds, TradeAbort, AbortCheck, AbortStatus

LEMMA TradeEntries ==
  ASSUME Tasks, Entries, NEW u \in User, TradeStep(u)
  PROVE  Entries'
<1>0. EntryTypes
  BY DEF Entries
<1>1. CASE StartInsert(u)
  <2> DEFINE v == task[u].with
             n == NewTrade(v, task[u].at)
             m == NewTrade(u, task[u].own)
  <2>1. v \in User /\ n \in Trade /\ m \in Trade /\ trades' = [trades EXCEPT ![u] = n, ![v] = m]
    BY <1>0, <1>1, Inserted
  <2>2. Offer(n) /\ Offer(m)
    BY EmptyOffer DEF NewTrade
  <2> HIDE DEF n, m, v
  <2>3. trades' \in [User -> Trade \cup {NoTrade}]
    BY <2>1, <1>0 DEF EntryTypes
  <2>4. \A w \in User : trades'[w] \in {trades[w], n, m}
    BY <2>1, <1>0 DEF EntryTypes
  <2>5. \A w \in User : trades'[w] # NoTrade => Offer(trades'[w])
    BY <2>2, <2>4 DEF Entries
  <2> QED
    BY <2>3, <2>5 DEF Entries, EntryTypes, Offer
<1>2. CASE OfferPush(u) /\ CanPush(u)
  <2> DEFINE x == [trades[u] EXCEPT !.items = trades[u].items \cup task[u].give]
             t == [trades EXCEPT ![u] = x]
  <2>1. t \in [User -> Trade \cup {NoTrade}] /\ t[u] # NoTrade /\ trades' = Unaccept(t, u)
    BY <1>0, <1>2, Pushed
  <2>2. PICK i \in Item : task[u].give = {i}
    BY <1>2 DEF OfferPush, Tasks, Ready, Pc
  <2>3. trades[u] \in Trade /\ Offer(trades[u]) /\ Cardinality(trades[u].items) < MaxOffer
    BY <1>0, <1>2 DEF CanPush, Entries, EntryTypes
  <2>4. x.items = trades[u].items \cup {i}
    BY <2>2, <2>3 DEF Trade
  <2>5. Offer(x)
    BY <2>3, <2>4, OneMore DEF Offer
  <2>6. \A w \in User : t[w] # NoTrade => Offer(t[w])
    BY <2>5 DEF Entries, EntryTypes
  <2> HIDE DEF t
  <2>7. /\ trades' \in [User -> Trade \cup {NoTrade}]
        /\ \A w \in User : trades'[w] # NoTrade => t[w] # NoTrade /\ trades'[w].items = t[w].items
    BY <2>1, UnacceptEntries
  <2> QED
    BY <2>6, <2>7 DEF Entries, EntryTypes, Offer
<1>3. CASE DeclineWrite(u)
  <2>1. trades' = Unaccept(trades, u)
    BY <1>3 DEF DeclineWrite
  <2>2. /\ trades' \in [User -> Trade \cup {NoTrade}]
        /\ \A w \in User : trades'[w] # NoTrade =>
             trades[w] # NoTrade /\ trades'[w].items = trades[w].items
    BY <1>0, <2>1, UnacceptEntries DEF EntryTypes
  <2> QED
    BY <2>2 DEF Entries, EntryTypes, Offer
<1>4. CASE Decide(u)
  <2> DEFINE x == [trades[u] EXCEPT !.accepted = TRUE]
  <2>1. trades[u] \in Trade /\ x \in Trade /\ trades' = [trades EXCEPT ![u] = x]
    BY <1>0, <1>4, Decided
  <2>2. trades[u] # NoTrade /\ x.items = trades[u].items
    BY <1>4, <2>1 DEF Decide, Trade
  <2>3. Offer(x)
    BY <2>2 DEF Offer, Entries
  <2> QED
    BY <2>1, <2>3 DEF Entries, EntryTypes, Offer
<1>5. CASE AbortRemove(u)
  BY <1>0, <1>5 DEF AbortRemove, Entries, EntryTypes, Offer
<1> QED
  <2>1. CASE UNCHANGED trades
    BY <2>1 DEF Entries, EntryTypes, Offer
  <2> QED
    BY <1>1, <1>2, <1>3, <1>4, <1>5, <2>1, OtherTradesKept

LEMMA RoomEntries ==
  ASSUME NEW u \in User, RoomStep(u)
  PROVE  UNCHANGED <<trades, muddled>>
  BY DEF RoomStep, EntryTypes, EnterRoom, LeaveRoom, Out, Cleanup, Login, Kick, Fail,
         PlaceItem, PickUpItem, Desert, historyVars

-----------------------------------------------------------------------------
(* The room, the furniture and the flags                                   *)

LEMMA WorldStep ==
  ASSUME World, Tasks, NEW u \in User, TradeStep(u) \/ RoomStep(u)
  PROVE  World'
<1>0. task[u] \in Local /\ task[u].with \in User
  BY DEF Tasks, Local
<1>1. trd' \subseteq User
  <2>1. (\E v \in User : TradeStart(u, v)) => trd' \subseteq User
    BY DEF World, TradeStart
  <2>2. ~(\E v \in User : TradeStart(u, v)) => trd' \subseteq trd
    BY DEF TradeStep, RoomStep, StartInsert, OfferItem, OfferPush,
         Decline, DeclineWrite, Accept, Begin, AcceptTooLate, Decide, Give, Take, SwapEnds,
         TradeAbort, AbortCheck, AbortRemove, AbortStatus, EnterRoom, LeaveRoom, Out, Cleanup,
         Login, Kick, Fail, PlaceItem, PickUpItem, WalkOut, roomVars
  <2> QED
    BY <2>1, <2>2 DEF World
<1>2. uid' \in [User -> Uid]
  <2>1. CASE EnterRoom(u) \/ Out(u) \/ Cleanup(u) \/ Kick(u)
    BY <2>1 DEF World, EnterRoom, Out, Cleanup, Kick, WalkOut, Uid
  <2>2. CASE ~(EnterRoom(u) \/ Out(u) \/ Cleanup(u) \/ Kick(u))
    BY <2>2 DEF World, TradeStep, RoomStep, TradeStart, StartInsert, OfferItem, OfferPush,
         Decline, DeclineWrite, Accept, Begin, AcceptTooLate, Decide, Give, Take, SwapEnds,
         TradeAbort, AbortCheck, AbortRemove, AbortStatus, LeaveRoom, Login, Fail,
         PlaceItem, PickUpItem, roomVars
  <2> QED
    BY <2>1, <2>2
<1>3. owner' \in [Item -> User] /\ inHand' \subseteq Item
  <2>1. CASE Give(u) \/ Take(u)
    <3>1. PICK i \in Item, w \in User : HandOver(i, w)
      BY <1>0, <2>1 DEF Give, Take, Local
    <3> QED
      BY <3>1 DEF HandOver, World
  <2>2. CASE ~Give(u) /\ ~Take(u)
    BY <2>2 DEF World, TradeStep, RoomStep, TradeStart, StartInsert, OfferItem, OfferPush,
         Decline, DeclineWrite, Accept, Begin, AcceptTooLate, Decide, SwapEnds,
         TradeAbort, AbortCheck, AbortRemove, AbortStatus, EnterRoom, LeaveRoom, Out, Cleanup,
         Login, Kick, Fail, PlaceItem, PickUpItem, itemVars
  <2> QED
    BY <2>1, <2>2
<1>4. muddled' \in BOOLEAN /\ overlapped' \in BOOLEAN /\ deserted' \in BOOLEAN
  BY DEF World, TradeStep, RoomStep, TradeStart, StartInsert, OfferItem, OfferPush,
         Decline, DeclineWrite, Accept, Begin, AcceptTooLate, Decide, Give, Take, SwapEnds,
         TradeAbort, AbortCheck, AbortRemove, AbortStatus, EnterRoom, LeaveRoom, Out, Cleanup,
         Login, Kick, Fail, PlaceItem, PickUpItem, HandOver, Desert, historyVars
<1> QED
  BY <1>1, <1>2, <1>3, <1>4 DEF World

LEMMA SoundStep == Sound /\ [Next]_vars => Sound'
<1> SUFFICES ASSUME Sound, [Next]_vars PROVE Sound'
  OBVIOUS
<1>1. ASSUME NEW u \in User, TradeStep(u)
      PROVE  Sound'
  BY <1>1, TradeTasks, TradeEntries, WorldStep DEF Sound
<1>2. ASSUME NEW u \in User, RoomStep(u)
      PROVE  Sound'
  <2>1. Entries'
    BY <1>2, RoomEntries DEF Sound, Entries, EntryTypes, Offer
  <2> QED
    BY <1>2, <2>1, RoomTasks, WorldStep DEF Sound
<1>3. CASE UNCHANGED vars
  BY <1>3 DEF vars, roomVars, itemVars, historyVars, Sound, World, Tasks, Entries,
       EntryTypes, Offer
<1> QED
  BY <1>1, <1>2, <1>3 DEF Next

LEMMA SoundInit == Init => Sound
<1> SUFFICES ASSUME Init PROVE Sound
  OBVIOUS
<1>1. \A u \in User : AtRest(u, "ready") \in Local /\ Ready(AtRest(u, "ready"))
  BY DEF AtRest, Local, Uid, PC, Ready
<1>2. Tasks
  BY <1>1 DEF Init, Tasks
<1> QED
  BY <1>2 DEF Init, Sound, World, Entries, EntryTypes, Uid

\* No trade ever offers more than the limit, whatever sessions do meanwhile, and the
\* tables keep their types.
THEOREM TypeCorrect == Spec => []TypeOK
  BY SoundInit, SoundStep, SoundIsTyped, PTL DEF Spec

-----------------------------------------------------------------------------
(* Pairs                                                                   *)

\* All steps but two leave it to an entry whose it is and whom it names; only an
\* offer changes a list, and it is the offerer's.
SameEntry(w) ==
  /\ trades'[w] = NoTrade <=> trades[w] = NoTrade
  /\ trades[w] # NoTrade => /\ trades'[w].partner = trades[w].partner
                            /\ trades'[w].at = trades[w].at

LEMMA SameEntries ==
  ASSUME Sound, NEW u \in User, TradeStep(u) \/ RoomStep(u),
         ~StartInsert(u), ~AbortRemove(u)
  PROVE  \A w \in User :
           /\ SameEntry(w)
           /\ \/ trades[w] = NoTrade \/ trades'[w].items = trades[w].items
              \/ w = u /\ OfferPush(u) /\ CanPush(u)
<1>0. Tasks /\ EntryTypes
  BY DEF Sound, Entries
<1>1. CASE OfferPush(u) /\ CanPush(u)
  <2> DEFINE x == [trades[u] EXCEPT !.items = trades[u].items \cup task[u].give]
             t == [trades EXCEPT ![u] = x]
  <2>1. t \in [User -> Trade \cup {NoTrade}] /\ t[u] # NoTrade /\ trades' = Unaccept(t, u)
    BY <1>0, <1>1, Pushed
  <2>2. trades[u] \in Trade /\ trades[u] # NoTrade
    BY <1>0, <1>1 DEF CanPush, EntryTypes
  <2>3. t[u] = x /\ x.partner = trades[u].partner /\ x.at = trades[u].at
    BY <1>0, <2>2 DEF EntryTypes, Trade
  <2>4. \A w \in User \ {u} : t[w] = trades[w]
    BY <1>0 DEF EntryTypes
  <2> HIDE DEF t, x
  <2>5. \A w \in User : /\ trades'[w] = NoTrade <=> t[w] = NoTrade
                        /\ t[w] # NoTrade => /\ trades'[w].partner = t[w].partner
                                             /\ trades'[w].at = t[w].at
                                             /\ trades'[w].items = t[w].items
    BY <2>1, UnacceptEntries
  <2>6. SameEntry(u)
    BY <2>1, <2>2, <2>3, <2>5 DEF SameEntry
  <2>7. ASSUME NEW w \in User, w # u
        PROVE  SameEntry(w) /\ (trades[w] = NoTrade \/ trades'[w].items = trades[w].items)
    BY <2>4, <2>5, <2>7 DEF SameEntry
  <2> QED
    BY <1>1, <2>6, <2>7
<1>2. CASE DeclineWrite(u)
  <2>1. trades' = Unaccept(trades, u)
    BY <1>2 DEF DeclineWrite
  <2> QED
    BY <1>0, <2>1, UnacceptEntries DEF EntryTypes, SameEntry
<1>3. CASE Decide(u)
  <2> DEFINE x == [trades[u] EXCEPT !.accepted = TRUE]
  <2>1. trades[u] \in Trade /\ x \in Trade /\ trades' = [trades EXCEPT ![u] = x]
    BY <1>0, <1>3, Decided
  <2>2. /\ trades[u] # NoTrade /\ x.items = trades[u].items /\ x # NoTrade
        /\ x.partner = trades[u].partner /\ x.at = trades[u].at
    BY <1>3, <2>1 DEF Decide, Trade
  <2>3. trades'[u] = x /\ \A w \in User \ {u} : trades'[w] = trades[w]
    BY <1>0, <2>1 DEF EntryTypes
  <2> QED
    BY <2>2, <2>3 DEF SameEntry
<1>4. CASE UNCHANGED trades
  BY <1>4 DEF SameEntry
<1> QED
  BY <1>1, <1>2, <1>3, <1>4, OtherTradesKept, RoomEntries

\* Once entries have been muddled they stay so.
LEMMA StaysMuddled ==
  ASSUME World, NEW u \in User, TradeStep(u) \/ RoomStep(u)
  PROVE  (muddled => muddled') /\ (deserted => deserted') /\ (overlapped => overlapped')
<1>1. CASE TradeStep(u)
  <2>1. muddled => muddled'
    BY <1>1 DEF TradeStep, TradeStart, StartInsert, OfferItem, OfferPush,
       Decline, DeclineWrite, Accept, Begin, AcceptTooLate, Decide, Give, Take, SwapEnds,
       TradeAbort, AbortCheck, AbortRemove, AbortStatus, HandOver, historyVars
  <2>2. deserted => deserted'
    BY <1>1 DEF TradeStep, TradeStart, StartInsert, OfferItem, OfferPush,
       Decline, DeclineWrite, Accept, Begin, AcceptTooLate, Decide, Give, Take, SwapEnds,
       TradeAbort, AbortCheck, AbortRemove, AbortStatus, HandOver, historyVars
  <2>3. overlapped => overlapped'
    BY <1>1 DEF TradeStep, TradeStart, StartInsert, OfferItem, OfferPush,
       Decline, DeclineWrite, Accept, Begin, AcceptTooLate, Decide, Give, Take, SwapEnds,
       TradeAbort, AbortCheck, AbortRemove, AbortStatus, HandOver, historyVars
  <2> QED
    BY <2>1, <2>2, <2>3
<1>2. CASE RoomStep(u)
  <2>1. (muddled => muddled') /\ (overlapped => overlapped')
    BY <1>2 DEF RoomStep, EnterRoom, LeaveRoom, Out, Cleanup,
       Login, Kick, Fail, PlaceItem, PickUpItem, Desert, historyVars
  <2>2. deserted => deserted'
    BY <1>2 DEF RoomStep, EnterRoom, LeaveRoom, Out, Cleanup,
       Login, Kick, Fail, PlaceItem, PickUpItem, Desert, historyVars
  <2> QED
    BY <2>1, <2>2
<1> QED
  BY <1>1, <1>2

Pairs ==
  \A w \in User : trades[w] # NoTrade =>
    /\ trades[w].partner \in User /\ trades[trades[w].partner] # NoTrade
    /\ trades[trades[w].partner].partner = w

LEMMA PairsArePaired == Sound => (Paired <=> (~muddled => Pairs))
  BY DEF Sound, Entries, EntryTypes, Trade, Paired, Pairs

\* Two entries that name each other are made where there was none, and removed
\* together: no third entry names either.
LEMMA InsertPairs ==
  ASSUME Sound, Pairs, NEW u \in User, StartInsert(u), ~muddled'
  PROVE  /\ Pairs'
         /\ LET v == task[u].with IN
            /\ v \in User /\ trades[u] = NoTrade /\ trades[v] = NoTrade
            /\ \A w \in User \ {u, v} :
                 /\ trades'[w] = trades[w]
                 /\ trades[w] # NoTrade => trades[w].partner \notin {u, v}
            /\ u # v => trades'[u] = NewTrade(v, task[u].at)
            /\ trades'[v] = NewTrade(u, task[u].own)
            /\ trades'[u] # NoTrade /\ trades'[v] # NoTrade
<1> DEFINE v == task[u].with
           n == NewTrade(v, task[u].at)
           m == NewTrade(u, task[u].own)
<1>1. /\ v \in User /\ n \in Trade /\ m \in Trade
      /\ trades' = [trades EXCEPT ![u] = n, ![v] = m]
      /\ muddled' = (muddled \/ trades[u] # NoTrade \/ trades[v] # NoTrade)
  BY Inserted DEF Sound, Entries
<1>2. trades[u] = NoTrade /\ trades[v] = NoTrade
  BY <1>1
<1>3. n.partner = v /\ m.partner = u
  BY DEF NewTrade
<1> HIDE DEF n, m, v
<1>4. /\ n # NoTrade /\ m # NoTrade
      /\ \A w \in User \ {u, v} : trades'[w] = trades[w]
      /\ u # v => trades'[u] = n
      /\ trades'[v] = m
  BY <1>1 DEF Sound, Entries, EntryTypes
<1>5. \A w \in User \ {u, v} : trades[w] # NoTrade => trades[w].partner \notin {u, v}
  BY <1>1, <1>2 DEF Pairs
<1>6. Pairs'
  <2>1. ASSUME NEW w \in User \ {u, v}, trades'[w] # NoTrade
        PROVE  /\ trades'[w].partner \in User /\ trades'[trades'[w].partner] # NoTrade
               /\ trades'[trades'[w].partner].partner = w
    <3>1. trades[w] # NoTrade /\ trades[w].partner \in User \ {u, v}
      BY <1>4, <1>5, <2>1 DEF Pairs
    <3> QED
      BY <1>4, <2>1, <3>1 DEF Pairs
  <2>2. \A w \in {u, v} : trades'[w] # NoTrade =>
               /\ trades'[w].partner \in User /\ trades'[trades'[w].partner] # NoTrade
               /\ trades'[trades'[w].partner].partner = w
    BY <1>1, <1>3, <1>4
  <2> QED
    BY <2>1, <2>2 DEF Pairs
<1> QED
  BY <1>1, <1>2, <1>4, <1>5, <1>6 DEF n, m, v

LEMMA RemovePairs ==
  ASSUME Sound, Pairs, NEW u \in User, AbortRemove(u), ~muddled'
  PROVE  /\ Pairs'
         /\ LET p == task[u].with IN
            /\ p \in User /\ trades'[u] = NoTrade /\ trades'[p] = NoTrade
            /\ \A w \in User \ {u, p} :
                 /\ trades'[w] = trades[w]
                 /\ trades[w] # NoTrade => trades[w].partner \notin {u, p}
<1> DEFINE p == task[u].with
<1>1. /\ p \in User /\ trades' = [trades EXCEPT ![u] = NoTrade, ![p] = NoTrade]
      /\ BelongsTo(u, p) /\ BelongsTo(p, u)
  BY DEF Sound, Tasks, Local, AbortRemove, Muddles
<1> HIDE DEF p
<1>2. /\ trades'[u] = NoTrade /\ trades'[p] = NoTrade
      /\ \A w \in User \ {u, p} : trades'[w] = trades[w]
  BY <1>1 DEF Sound, Entries, EntryTypes
<1>3. \A w \in User \ {u, p} : trades[w] # NoTrade => trades[w].partner \notin {u, p}
  BY <1>1 DEF Pairs, BelongsTo
<1>4. Pairs'
  BY <1>2, <1>3 DEF Pairs
<1> QED
  BY <1>1, <1>2, <1>3, <1>4 DEF p

LEMMA SamePairs ==
  ASSUME Pairs, \A w \in User : SameEntry(w)
  PROVE  Pairs'
  BY DEF Pairs, SameEntry

LEMMA PairsStep ==
  ASSUME Sound, ~muddled => Pairs, NEW u \in User, TradeStep(u) \/ RoomStep(u)
  PROVE  ~muddled' => Pairs'
<1> SUFFICES ASSUME ~muddled' PROVE Pairs'
  OBVIOUS
<1>1. Pairs
  BY StaysMuddled DEF Sound
<1> QED
  BY <1>1, InsertPairs, RemovePairs, SamePairs, SameEntries

LEMMA PairsAlways == Spec => [](Sound /\ (~muddled => Pairs))
<1>1. Init => Sound /\ (~muddled => Pairs)
  BY SoundInit DEF Init, Pairs
<1>2. Sound /\ (~muddled => Pairs) /\ [Next]_vars => (Sound /\ (~muddled => Pairs))'
  <2> SUFFICES ASSUME Sound, ~muddled => Pairs, [Next]_vars PROVE (~muddled => Pairs)'
    BY SoundStep
  <2>1. CASE Next
    BY <2>1, PairsStep DEF Next
  <2>2. CASE UNCHANGED vars
    BY <2>2 DEF vars, historyVars, Pairs
  <2> QED
    BY <2>1, <2>2
<1> QED
  BY <1>1, <1>2, PTL DEF Spec

\* The partner of a party has the party for its own partner, until a write meets the
\* entry of another trade.
THEOREM EntriesArePaired == Spec => []Paired
<1>1. Sound /\ (~muddled => Pairs) => Paired
  BY PairsArePaired
<1> QED
  BY <1>1, PairsAlways, PTL

-----------------------------------------------------------------------------
(* Acceptances                                                             *)

\* An offer takes back the acceptance of everybody whose trade it changes.
LEMMA StandsStep ==
  ASSUME Sound, Pairs, NEW u \in User, TradeStep(u) \/ RoomStep(u), ~muddled',
         NEW w \in User, Accepted(trades, w), Accepted(trades', w)
  PROVE  LET p == trades[w].partner IN
         trades'[w].items = trades[w].items /\ trades'[p].items = trades[p].items
<1> DEFINE p == trades[w].partner
<1>0. trades[w] # NoTrade /\ trades'[w] # NoTrade /\ trades'[w].accepted
  BY DEF Accepted
<1>1. p \in User /\ trades[p] # NoTrade /\ trades[p].partner = w
  BY <1>0 DEF Pairs
<1>2. CASE StartInsert(u)
  <2>1. w \notin Parties(u)
    BY <1>0, <1>2, InsertPairs DEF Parties
  <2>2. p \notin Parties(u)
    BY <1>0, <1>2, <2>1, InsertPairs DEF Parties
  <2> QED
    BY <1>1, <1>2, <2>1, <2>2, InsertPairs DEF Parties
<1>3. CASE AbortRemove(u)
  <2>1. w \notin Parties(u)
    BY <1>0, <1>3, RemovePairs DEF Parties
  <2>2. p \notin Parties(u)
    BY <1>0, <1>3, <2>1, RemovePairs DEF Parties
  <2> QED
    BY <1>1, <1>3, <2>1, <2>2, RemovePairs DEF Parties
<1>4. CASE OfferPush(u) /\ CanPush(u)
  <2> DEFINE x == [trades[u] EXCEPT !.items = trades[u].items \cup task[u].give]
             t == [trades EXCEPT ![u] = x]
  <2>1. /\ t \in [User -> Trade \cup {NoTrade}] /\ t[u] # NoTrade
        /\ trades' = Unaccept(t, u) /\ ~Muddles(u)
    BY <1>4, Pushed DEF Sound, Entries
  <2>2. \A o \in User : t[o] # NoTrade /\ o \in Parties(u) => ~trades'[o].accepted
    <3> HIDE DEF t
    <3> QED
      BY <2>1, UnacceptEntries
  <2>3. t[w] # NoTrade
    BY <1>0, <2>1 DEF Sound, Entries, EntryTypes
  <2>4. w \notin Parties(u)
    BY <1>0, <2>2, <2>3
  <2>5. p # u
    BY <1>1, <1>4, <2>1, <2>4 DEF Muddles, BelongsTo, Parties, CanPush
  <2>6. w # u
    BY <2>4 DEF Parties
  <2> QED
    BY <1>0, <1>1, <1>4, <2>5, <2>6, SameEntries DEF StartInsert, AbortRemove, OfferPush
<1>5. CASE ~StartInsert(u) /\ ~AbortRemove(u) /\ ~(OfferPush(u) /\ CanPush(u))
  BY <1>0, <1>1, <1>5, SameEntries
<1> QED
  BY <1>2, <1>3, <1>4, <1>5

\* What a swap hands over is what both have accepted, until a write meets the entry
\* of another trade.
THEOREM AcceptancesStand == Spec => AcceptanceStands
<1> DEFINE Stands ==
      ~muddled' =>
        \A u \in User :
          Accepted(trades, u) /\ Accepted(trades', u) =>
            LET p == trades[u].partner IN
            trades'[u].items = trades[u].items /\ trades'[p].items = trades[p].items
<1>1. Sound /\ (~muddled => Pairs) /\ [Next]_vars => [Stands]_vars
  <2> SUFFICES ASSUME Sound, ~muddled => Pairs, Next, ~muddled' PROVE Stands
    OBVIOUS
  <2>1. PICK u \in User : TradeStep(u) \/ RoomStep(u)
    BY DEF Next
  <2>2. Pairs
    BY <2>1, StaysMuddled DEF Sound
  <2> QED
    BY <2>1, <2>2, StandsStep
<1> QED
  BY <1>1, PairsAlways, PTL DEF Spec, AcceptanceStands

-----------------------------------------------------------------------------
(* A trade can be ended                                                    *)

\* The partner stands where the entry says, and who is on the way out has no entry
\* any more.
Reach == \A w \in User : trades[w] # NoTrade => uid[trades[w].partner] = trades[w].at
Leaves(w) == Pc(w) = "out" \/ (Pc(w) = "status" /\ task[w].then = "out")
Gone == \A w \in User : Leaves(w) => task[w].then = "out" /\ trades[w] = NoTrade
Ends == ~muddled /\ ~deserted => Pairs /\ Reach /\ Gone

\* Nobody who is named by an entry comes or goes.
LEMMA NobodyGoes ==
  ASSUME Sound, Pairs, Reach, Gone, NEW u \in User, TradeStep(u) \/ RoomStep(u), ~deserted',
         NEW w \in User, trades[w] # NoTrade
  PROVE  uid'[trades[w].partner] = uid[trades[w].partner]
<1> DEFINE p == trades[w].partner
<1>0. /\ p \in User /\ trades[p] # NoTrade /\ uid[p] = trades[w].at /\ trades[w].at \in Nat
      /\ uid \in [User -> Uid]
  BY DEF Pairs, Reach, Sound, World, Entries, EntryTypes, Trade
<1>1. CASE EnterRoom(u)
  BY <1>0, <1>1 DEF EnterRoom
<1>2. CASE Cleanup(u) \/ Kick(u)
  BY <1>0, <1>2 DEF Cleanup, Kick, WalkOut, Desert
<1>3. CASE Out(u)
  BY <1>0, <1>3 DEF Out, WalkOut, Gone, Leaves
<1>4. CASE ~(EnterRoom(u) \/ Out(u) \/ Cleanup(u) \/ Kick(u))
  BY <1>4 DEF TradeStep, RoomStep, TradeStart, StartInsert, OfferItem, OfferPush,
       Decline, DeclineWrite, Accept, Begin, AcceptTooLate, Decide, Give, Take, SwapEnds,
       TradeAbort, AbortCheck, AbortRemove, AbortStatus, LeaveRoom, Login, Fail,
       PlaceItem, PickUpItem, roomVars
<1> QED
  BY <1>1, <1>2, <1>3, <1>4

LEMMA ReachStep ==
  ASSUME Sound, Pairs, Reach, Gone, NEW u \in User, TradeStep(u) \/ RoomStep(u),
         ~muddled', ~deserted'
  PROVE  Reach'
<1>1. CASE StartInsert(u)
  <2> DEFINE v == task[u].with
  <2>1. UNCHANGED uid /\ uid[u] = task[u].own /\ uid[v] = task[u].at
    BY <1>1 DEF StartInsert, roomVars
  <2>2. \A n \in {task[u].at, task[u].own} : \A o \in User :
          NewTrade(o, n).partner = o /\ NewTrade(o, n).at = n
    BY DEF NewTrade
  <2>3. /\ v \in User /\ \A w \in User \ {u, v} : trades'[w] = trades[w]
        /\ u # v => trades'[u] = NewTrade(v, task[u].at)
        /\ trades'[v] = NewTrade(u, task[u].own)
    BY <1>1, InsertPairs
  <2> QED
    BY <2>1, <2>2, <2>3 DEF Reach
<1>2. CASE AbortRemove(u)
  <2>1. UNCHANGED uid
    BY <1>2 DEF AbortRemove, roomVars
  <2>2. \A w \in User : trades'[w] = NoTrade \/ trades'[w] = trades[w]
    BY <1>2, RemovePairs
  <2> QED
    BY <2>1, <2>2 DEF Reach
<1>3. CASE ~StartInsert(u) /\ ~AbortRemove(u)
  BY <1>3, SameEntries, NobodyGoes DEF Reach, SameEntry
<1> QED
  BY <1>1, <1>2, <1>3

\* A step leaves the other sessions where they are.
LEMMA OthersKept ==
  ASSUME Tasks, NEW u \in User, TradeStep(u) \/ RoomStep(u), NEW w \in User \ {u}
  PROVE  task'[w] = task[w]
<1>1. CASE TradeStep(u)
  BY <1>1 DEF Tasks, TradeStep, TradeStart, StartInsert, OfferItem, OfferPush, Decline,
       DeclineWrite, Accept, Begin, AcceptTooLate, Decide, Give, Take, SwapEnds, TradeAbort,
       AbortCheck, AbortRemove, AbortStatus, AbortRead, Rest, Goto
<1>2. CASE RoomStep(u)
  BY <1>2 DEF Tasks, RoomStep, EnterRoom, LeaveRoom, Out, Cleanup, Login, Kick, Fail,
       PlaceItem, PickUpItem, Rest
<1> QED
  BY <1>1, <1>2

\* A session that leaves has no entry left when it is on its way out.
LEMMA OwnWayOut ==
  ASSUME Sound, Pairs, Reach, Gone, NEW u \in User, TradeStep(u) \/ RoomStep(u),
         Leaves(u)'
  PROVE  task'[u].then = "out" /\ (trades'[u] = NoTrade \/ (trades[u] = NoTrade /\ ~StartInsert(u)))
<1>0. task \in [User -> Local] /\ task[u] \in Local
  BY DEF Sound, Tasks
<1>1. CASE LeaveRoom(u)
  BY <1>0, <1>1 DEF LeaveRoom, Leaves, Pc, Local, Packet, StartInsert
<1>2. CASE AbortCheck(u)
  <2>1. CASE AbortRead(u)
    BY <1>0, <2>1 DEF AbortRead, Leaves, Pc, Local
  <2>2. CASE ~AbortRead(u)
    <3>1. Goto(u, task[u].then) /\ ~Trades(u)
      BY <1>2, <2>2 DEF AbortCheck
    <3>2. task'[u].pc = task[u].then /\ task'[u].then = task[u].then
      BY <1>0, <3>1 DEF Goto, Local
    <3>3. trades[u] = NoTrade
      BY <3>1 DEF Trades, StandsThere, Reach, Pairs
    <3> QED
      BY <1>0, <1>2, <3>2, <3>3 DEF Leaves, Pc, Local, AbortCheck, StartInsert
  <2> QED
    BY <2>1, <2>2
<1>3. CASE AbortRemove(u)
  <2>1. task'[u].pc = "status" /\ task'[u].then = task[u].then
    BY <1>0, <1>3 DEF AbortRemove, Goto, Local
  <2>2. trades'[u] = NoTrade
    BY <1>3 DEF AbortRemove, Sound, Entries, EntryTypes, Tasks, Local
  <2> QED
    BY <2>1, <2>2 DEF Leaves, Pc
<1>4. CASE AbortStatus(u)
  <2>1. task'[u].pc = task[u].then /\ task'[u].then = task[u].then
    BY <1>0, <1>4 DEF AbortStatus, Goto, Local
  <2>2. Leaves(u)
    BY <1>0, <1>4, <2>1 DEF AbortStatus, Leaves, Pc, Local
  <2> QED
    BY <1>4, <2>1, <2>2 DEF Gone, AbortStatus, StartInsert
<1>5. CASE Kick(u) \/ EnterRoom(u) \/ \E i \in Item : PlaceItem(u, i) \/ PickUpItem(u, i)
  <2>1. UNCHANGED <<task, trades>> /\ ~StartInsert(u)
    BY <1>5 DEF Kick, EnterRoom, PlaceItem, PickUpItem, StartInsert, Packet, WalkOut, Rest,
         AtRest, Pc, Sound, Tasks
  <2> QED
    BY <2>1 DEF Gone, Leaves, Pc
<1>6. CASE \/ StartInsert(u) \/ OfferPush(u) \/ DeclineWrite(u) \/ AcceptTooLate(u)
           \/ Out(u) \/ Login(u) \/ Fail(u)
  BY <1>0, <1>6 DEF StartInsert, OfferPush, DeclineWrite, AcceptTooLate, Out, Login, Fail,
       Rest, AtRest, Leaves, Pc
<1>7. CASE \/ \E v \in User : TradeStart(u, v)
           \/ \E i \in Item : OfferItem(u, i)
           \/ Decline(u) \/ Accept(u) \/ TradeAbort(u) \/ Cleanup(u)
  <2>1. ASSUME NEW v \in User, TradeStart(u, v)
        PROVE  task'[u].pc = "insert"
    BY <1>0, <2>1 DEF TradeStart, Local
  <2>2. ASSUME NEW i \in Item, OfferItem(u, i)
        PROVE  task'[u].pc = "push"
    BY <1>0, <2>2 DEF OfferItem, Local
  <2>3. Decline(u) \/ Accept(u) => task'[u].pc \in {"decline", "decide"}
    BY <1>0 DEF Decline, Accept, Begin, Local
  <2>4. TradeAbort(u) => task'[u].pc = "remove"
    BY <1>0 DEF TradeAbort, AbortRead, Local
  <2>5. Cleanup(u) => task'[u].pc = "read"
    BY <1>0 DEF Cleanup, Local
  <2> QED
    BY <1>7, <2>1, <2>2, <2>3, <2>4, <2>5 DEF Leaves, Pc
<1>8. CASE Decide(u) \/ Give(u) \/ Take(u) \/ SwapEnds(u)
  BY <1>0, <1>8 DEF Decide, Give, Take, SwapEnds, Rest, AtRest, Goto, Leaves, Pc, Local
<1> QED
  BY <1>1, <1>2, <1>3, <1>4, <1>5, <1>6, <1>7, <1>8 DEF TradeStep, RoomStep

LEMMA GoneStep ==
  ASSUME Sound, Pairs, Reach, Gone, NEW u \in User, TradeStep(u) \/ RoomStep(u),
         ~muddled', ~deserted'
  PROVE  Gone'
<1> SUFFICES ASSUME NEW w \in User, Leaves(w)'
             PROVE  task'[w].then = "out" /\ trades'[w] = NoTrade
  BY DEF Gone
<1>0. ASSUME trades[w] = NoTrade, ~(StartInsert(u) /\ w \in Parties(u))
      PROVE  trades'[w] = NoTrade
  <2>1. CASE StartInsert(u)
    BY <1>0, <2>1, InsertPairs DEF Parties
  <2>2. CASE AbortRemove(u)
    BY <1>0, <2>2, RemovePairs
  <2>3. CASE ~StartInsert(u) /\ ~AbortRemove(u)
    BY <1>0, <2>3, SameEntries DEF SameEntry
  <2> QED
    BY <2>1, <2>2, <2>3
<1>1. CASE w = u
  BY <1>0, <1>1, OwnWayOut
<1>2. CASE w # u
  <2>1. task'[w] = task[w]
    BY <1>2, OthersKept DEF Sound
  <2>2. task[w].then = "out" /\ trades[w] = NoTrade
    BY <2>1 DEF Gone, Leaves, Pc
  <2>3. ~(StartInsert(u) /\ w \in Parties(u))
    BY <1>2, <2>2 DEF StartInsert, Parties
  <2> QED
    BY <1>0, <2>1, <2>2, <2>3
<1> QED
  BY <1>1, <1>2

LEMMA EndsStep == Sound /\ Ends /\ [Next]_vars => Ends'
<1> SUFFICES ASSUME Sound, Ends, [Next]_vars, ~muddled', ~deserted'
             PROVE  Pairs' /\ Reach' /\ Gone'
  BY DEF Ends
<1>1. CASE UNCHANGED vars
  BY <1>1 DEF vars, roomVars, historyVars, Ends, Pairs, Reach, Gone, Leaves, Pc
<1>2. ASSUME NEW u \in User, TradeStep(u) \/ RoomStep(u)
      PROVE  Pairs' /\ Reach' /\ Gone'
  <2>1. ~muddled /\ ~deserted
    BY <1>2, StaysMuddled DEF Sound
  <2> QED
    BY <1>2, <2>1, PairsStep, ReachStep, GoneStep DEF Ends
<1> QED
  BY <1>1, <1>2 DEF Next

\* Whoever has a trade can end it, unless somebody was taken out of one.
THEOREM TradesCanEnd == Spec => []CanAbort
<1>1. Init => Sound /\ Ends
  BY SoundInit DEF Init, Ends, Pairs, Reach, Gone, Leaves, Pc, AtRest
<1>2. Sound /\ Ends /\ [Next]_vars => (Sound /\ Ends)'
  BY SoundStep, EndsStep
<1>3. Ends => CanAbort
  BY DEF Ends, Reach, CanAbort
<1> QED
  BY <1>1, <1>2, <1>3, PTL DEF Spec

-----------------------------------------------------------------------------
(* What a swap takes                                                       *)

\* As long as no swap is overlapped: what is offered belongs to a party, what is
\* about to be offered to who offers it, and a swap is that of its session's entry.
OffersOwned ==
  \A w \in User : trades[w] # NoTrade =>
    \A i \in trades[w].items : owner[i] \in {w, trades[w].partner}
SwapOf(w) ==
  /\ trades[w] # NoTrade /\ trades[w].partner = task[w].with
  /\ \A i \in task[w].give \cup task[w].take : owner[i] \in {w, task[w].with}
SwapsOwned == \A w \in User : Pc(w) = "swap" => SwapOf(w)
PushesOwned == \A w \in User : Pc(w) = "push" => \A i \in task[w].give : owner[i] = w
Owned == ~muddled /\ ~overlapped => Pairs /\ OffersOwned /\ SwapsOwned /\ PushesOwned

\* Which steps take a session to a swap or to a push.
LEMMA ToSwapOrPush ==
  ASSUME Tasks, NEW u \in User, TradeStep(u) \/ RoomStep(u)
  PROVE  \/ UNCHANGED task
         \/ Pc(u)' \notin {"swap", "push"}
         \/ \E i \in Item : OfferItem(u, i)
         \/ Decide(u) \/ Give(u) \/ Take(u)
<1>0. task \in [User -> Local] /\ task[u] \in Local
  BY DEF Tasks
<1>1. CASE \/ StartInsert(u) \/ OfferPush(u) \/ DeclineWrite(u) \/ AcceptTooLate(u)
           \/ Out(u) \/ Login(u) \/ Fail(u)
  BY <1>0, <1>1 DEF StartInsert, OfferPush, DeclineWrite, AcceptTooLate, Out, Login, Fail,
       Rest, AtRest, Pc
<1>2. ASSUME NEW v \in User, TradeStart(u, v)
      PROVE  Pc(u)' = "insert"
  BY <1>0, <1>2 DEF TradeStart, Pc, Local
<1>3. Decline(u) \/ Accept(u) => Pc(u)' \in {"decline", "decide"}
  BY <1>0 DEF Decline, Accept, Begin, Pc, Local
<1>4. AbortRead(u) => Pc(u)' = "remove"
  BY <1>0 DEF AbortRead, Pc, Local
<1>5. \A q \in PC : Goto(u, q) => Pc(u)' = q
  BY <1>0 DEF Goto, Pc, Local
<1>6. task[u].then \in {"ready", "out", "offline"}
  BY <1>0 DEF Local
<1>7. SwapEnds(u) \/ TradeAbort(u) \/ AbortCheck(u) \/ AbortRemove(u) \/ AbortStatus(u) =>
        Pc(u)' \notin {"swap", "push"}
  BY <1>4, <1>5, <1>6 DEF SwapEnds, TradeAbort, AbortCheck, AbortRemove, AbortStatus, PC
<1>8. LeaveRoom(u) \/ Cleanup(u) => Pc(u)' \in {"abort", "out", "read"}
  BY <1>0 DEF LeaveRoom, Cleanup, Pc, Local
<1>9. CASE EnterRoom(u) \/ Kick(u) \/ \E i \in Item : PlaceItem(u, i) \/ PickUpItem(u, i)
  BY <1>9 DEF EnterRoom, Kick, PlaceItem, PickUpItem
<1> QED
  BY <1>1, <1>2, <1>3, <1>7, <1>8, <1>9 DEF TradeStep, RoomStep

LEMMA OwnersKept ==
  ASSUME NEW u \in User, TradeStep(u) \/ RoomStep(u), ~Give(u), ~Take(u)
  PROVE  UNCHANGED owner
  BY DEF TradeStep, RoomStep, TradeStart, StartInsert, OfferItem, OfferPush,
       Decline, DeclineWrite, Accept, Begin, AcceptTooLate, Decide, SwapEnds,
       TradeAbort, AbortCheck, AbortRemove, AbortStatus, EnterRoom, LeaveRoom, Out, Cleanup,
       Login, Kick, Fail, PlaceItem, PickUpItem, itemVars

\* An item that is handed over is one of the swap, and goes to one of its parties.
LEMMA HandedOver ==
  ASSUME Sound, NEW u \in User, Give(u) \/ Take(u)
  PROVE  \E i \in task[u].give \cup task[u].take :
           /\ i \in Item /\ owner'[i] \in {u, task[u].with}
           /\ \A j \in Item \ {i} : owner'[j] = owner[j]
           /\ ~overlapped' => \A v \in User : Pc(v) = "push" => i \notin task[v].give
           /\ UNCHANGED trades /\ Pc(u) = "swap"
           /\ task'[u].with = task[u].with /\ task'[u].pc = "swap"
           /\ task'[u].give \subseteq task[u].give /\ task'[u].take \subseteq task[u].take
<1>0. /\ task \in [User -> Local] /\ task[u] \in Local /\ owner \in [Item -> User]
  BY DEF Sound, Tasks, World
<1>1. CASE Give(u)
  <2>1. PICK i \in task[u].give :
          /\ HandOver(i, task[u].with)
          /\ task' = [task EXCEPT ![u].give = task[u].give \ {i}]
    BY <1>0, <1>1 DEF Give
  <2>2. /\ task'[u].with = task[u].with /\ task'[u].pc = task[u].pc
        /\ task'[u].give \subseteq task[u].give /\ task'[u].take = task[u].take
    BY <1>0, <2>1 DEF Local
  <2>3. i \in Item /\ Pc(u) = "swap" /\ UNCHANGED trades
    BY <1>0, <1>1 DEF Local, Give
  <2>4. /\ owner'[i] = task[u].with /\ \A j \in Item \ {i} : owner'[j] = owner[j]
        /\ ~overlapped' => \A v \in User : Pc(v) = "push" => i \notin task[v].give
    BY <1>0, <2>1, <2>3 DEF HandOver
  <2> QED
    BY <2>2, <2>3, <2>4 DEF Pc
<1>2. CASE Take(u)
  <2>1. PICK i \in task[u].take :
          /\ HandOver(i, u)
          /\ task' = [task EXCEPT ![u].take = task[u].take \ {i}]
    BY <1>0, <1>2 DEF Take
  <2>2. /\ task'[u].with = task[u].with /\ task'[u].pc = task[u].pc
        /\ task'[u].take \subseteq task[u].take /\ task'[u].give = task[u].give
    BY <1>0, <2>1 DEF Local
  <2>3. i \in Item /\ Pc(u) = "swap" /\ UNCHANGED trades
    BY <1>0, <1>2 DEF Local, Take
  <2>4. /\ owner'[i] = u /\ \A j \in Item \ {i} : owner'[j] = owner[j]
        /\ ~overlapped' => \A v \in User : Pc(v) = "push" => i \notin task[v].give
    BY <1>0, <2>1, <2>3 DEF HandOver
  <2> QED
    BY <2>2, <2>3, <2>4 DEF Pc
<1> QED
  BY <1>1, <1>2

\* In a swap nothing changes hands but between the parties of one trade, so what
\* another trade offers or swaps is not among it.
LEMMA HandOverStep ==
  ASSUME Sound, Pairs, OffersOwned, SwapsOwned, PushesOwned,
         NEW u \in User, Give(u) \/ Take(u), ~overlapped'
  PROVE  OffersOwned' /\ SwapsOwned' /\ PushesOwned'
<1>0. TradeStep(u) /\ Tasks
  BY DEF TradeStep, Sound
<1>1. PICK i \in task[u].give \cup task[u].take :
           /\ i \in Item /\ owner'[i] \in {u, task[u].with}
           /\ \A j \in Item \ {i} : owner'[j] = owner[j]
           /\ ~overlapped' => \A v \in User : Pc(v) = "push" => i \notin task[v].give
           /\ UNCHANGED trades /\ Pc(u) = "swap"
           /\ task'[u].with = task[u].with /\ task'[u].pc = "swap"
           /\ task'[u].give \subseteq task[u].give /\ task'[u].take \subseteq task[u].take
  BY HandedOver
<1>2. /\ trades[u] # NoTrade /\ trades[u].partner = task[u].with
      /\ owner[i] \in {u, task[u].with}
  BY <1>1 DEF SwapsOwned, SwapOf
<1>3. \A w \in User : trades[w] # NoTrade /\ owner[i] \in {w, trades[w].partner} =>
        owner'[i] \in {w, trades[w].partner}
  BY <1>1, <1>2 DEF Pairs
<1>4. OffersOwned'
  <2> SUFFICES ASSUME NEW w \in User, trades[w] # NoTrade, NEW j \in trades[w].items
               PROVE  owner'[j] \in {w, trades[w].partner}
    BY <1>1 DEF OffersOwned
  <2>1. j \in Item /\ owner[j] \in {w, trades[w].partner}
    BY DEF OffersOwned, Sound, Entries, EntryTypes, Trade
  <2> QED
    BY <1>1, <1>3, <2>1
<1>5. SwapsOwned'
  <2> SUFFICES ASSUME NEW w \in User, Pc(w)' = "swap" PROVE SwapOf(w)'
    BY DEF SwapsOwned
  <2>1. /\ Pc(w) = "swap" /\ task'[w].with = task[w].with
        /\ task'[w].give \cup task'[w].take \subseteq task[w].give \cup task[w].take
    BY <1>0, <1>1, OthersKept DEF Pc
  <2>2. SwapOf(w)
    BY <2>1 DEF SwapsOwned
  <2>3. task[w].give \cup task[w].take \subseteq Item
    BY <1>0 DEF Tasks, Local
  <2>4. \A j \in task[w].give \cup task[w].take : owner'[j] \in {w, task[w].with}
    BY <1>1, <1>3, <2>2, <2>3 DEF SwapOf
  <2> QED
    BY <1>1, <2>1, <2>2, <2>4 DEF SwapOf
<1>6. PushesOwned'
  <2> SUFFICES ASSUME NEW w \in User, Pc(w)' = "push", NEW j \in task'[w].give
               PROVE  owner'[j] = w
    BY DEF PushesOwned
  <2>1. w # u
    BY <1>1 DEF Pc
  <2>2. Pc(w) = "push" /\ j \in task[w].give /\ j \in Item
    BY <1>0, <2>1, OthersKept DEF Pc, Tasks, Local
  <2> QED
    BY <1>1, <2>2 DEF PushesOwned
<1> QED
  BY <1>4, <1>5, <1>6

\* The other steps change no owner: a swap begins with what both have offered, and an
\* offer with what is its offerer's.
LEMMA OffersStep ==
  ASSUME Sound, Pairs, OffersOwned, PushesOwned, NEW u \in User, TradeStep(u) \/ RoomStep(u),
         UNCHANGED owner, ~muddled'
  PROVE  OffersOwned'
<1>1. CASE StartInsert(u)
  <2> DEFINE v == task[u].with
  <2>1. /\ v \in User /\ \A w \in User \ {u, v} : trades'[w] = trades[w]
        /\ u # v => trades'[u] = NewTrade(v, task[u].at)
        /\ trades'[v] = NewTrade(u, task[u].own)
    BY <1>1, InsertPairs
  <2>2. \A w \in User : trades'[w] = trades[w] \/ trades'[w].items = {}
    BY <2>1 DEF NewTrade
  <2> QED
    BY <2>2 DEF OffersOwned
<1>2. CASE AbortRemove(u)
  <2>1. \A w \in User : trades'[w] = NoTrade \/ trades'[w] = trades[w]
    BY <1>2, RemovePairs
  <2> QED
    BY <2>1 DEF OffersOwned
<1>3. CASE OfferPush(u) /\ CanPush(u)
  <2> DEFINE x == [trades[u] EXCEPT !.items = trades[u].items \cup task[u].give]
             t == [trades EXCEPT ![u] = x]
  <2>1. t \in [User -> Trade \cup {NoTrade}] /\ trades' = Unaccept(t, u)
    BY <1>3, Pushed DEF Sound, Entries
  <2>2. trades[u] \in Trade /\ trades[u] # NoTrade /\ trades \in [User -> Trade \cup {NoTrade}]
    BY <1>3 DEF CanPush, Sound, Entries, EntryTypes
  <2>3. /\ x.items = trades[u].items \cup task[u].give /\ x.partner = trades[u].partner
        /\ t[u] = x /\ \A w \in User \ {u} : t[w] = trades[w]
    BY <2>2 DEF Trade
  <2>4. \A i \in task[u].give : owner[i] = u
    BY <1>3 DEF OfferPush, PushesOwned
  <2> HIDE DEF x, t
  <2>5. \A w \in User : trades'[w] # NoTrade => /\ t[w] # NoTrade
                                                /\ trades'[w].items = t[w].items
                                                /\ trades'[w].partner = t[w].partner
    BY <2>1, UnacceptEntries
  <2>6. \A i \in trades[u].items : owner[i] \in {u, trades[u].partner}
    BY <2>2 DEF OffersOwned
  <2>7. \A i \in x.items : owner[i] \in {u, x.partner}
    BY <2>3, <2>4, <2>6
  <2>8. \A w \in User : t[w] # NoTrade => \A i \in t[w].items : owner[i] \in {w, t[w].partner}
    BY <2>3, <2>7 DEF OffersOwned
  <2> QED
    BY <2>5, <2>8 DEF OffersOwned
<1>4. CASE ~StartInsert(u) /\ ~AbortRemove(u) /\ ~(OfferPush(u) /\ CanPush(u))
  BY <1>4, SameEntries DEF OffersOwned, SameEntry
<1> QED
  BY <1>1, <1>2, <1>3, <1>4

LEMMA SwapsStep ==
  ASSUME Sound, Pairs, OffersOwned, SwapsOwned, NEW u \in User, TradeStep(u) \/ RoomStep(u),
         ~Give(u), ~Take(u), UNCHANGED owner, ~muddled', ~overlapped'
  PROVE  SwapsOwned'
<1> SUFFICES ASSUME NEW w \in User, Pc(w)' = "swap" PROVE SwapOf(w)'
  BY DEF SwapsOwned
<1>0. Tasks
  BY DEF Sound
<1>1. CASE w = u /\ Decide(u)
  <2> DEFINE p == task[u].with
             theirs == IF trades[p] = NoTrade THEN {} ELSE trades[p].items
             l == [task[u] EXCEPT !.pc = "swap", !.give = trades[u].items, !.take = theirs]
  <2>1. task[u] \in Local /\ p \in User /\ trades[u] # NoTrade
    BY <1>0, <1>1 DEF Tasks, Local, Decide
  <2>2. task'[u] = l \/ task'[u] = AtRest(u, "ready")
    BY <1>0, <1>1 DEF Decide, Rest, Tasks
  <2>3. task'[u] = l
    BY <1>1, <2>2 DEF AtRest, Pc
  <2>4. task'[u].with = p /\ task'[u].give = trades[u].items /\ task'[u].take = theirs
    BY <2>1, <2>3 DEF Local
  <2>5. BelongsTo(u, p) /\ BelongsTo(p, u)
    BY <1>1 DEF Decide, Muddles
  <2>6. trades[u].partner = p
    BY <2>1, <2>5 DEF BelongsTo
  <2>7. \A i \in trades[u].items \cup theirs : owner[i] \in {u, p}
    BY <2>1, <2>5, <2>6 DEF OffersOwned, BelongsTo
  <2>8. SameEntry(u)
    BY <1>1, SameEntries DEF Decide, StartInsert, AbortRemove
  <2> HIDE DEF p, theirs, l
  <2> QED
    BY <1>1, <2>1, <2>4, <2>6, <2>7, <2>8 DEF SwapOf, SameEntry
<1>2. CASE ~(w = u /\ Decide(u))
  <2>1. task'[w] = task[w]
    <3>1. CASE w = u
      <4>1. \A i \in Item : OfferItem(u, i) => Pc(u)' = "push"
        BY <1>0 DEF OfferItem, Pc, Tasks, Local
      <4> QED
        BY <1>0, <1>2, <3>1, <4>1, ToSwapOrPush
    <3>2. CASE w # u
      BY <1>0, <3>2, OthersKept
    <3> QED
      BY <3>1, <3>2
  <2>2. Pc(w) = "swap" /\ SwapOf(w)
    BY <2>1 DEF Pc, SwapsOwned
  <2>3. CASE StartInsert(u)
    <3>1. w \notin Parties(u)
      BY <2>2, <2>3, InsertPairs DEF Parties, SwapOf
    <3> QED
      BY <2>1, <2>2, <2>3, <3>1, InsertPairs DEF Parties, SwapOf
  <2>4. CASE AbortRemove(u)
    <3>1. w \notin Parties(u)
      BY <2>2, <2>4 DEF AbortRemove, Parties
    <3> QED
      BY <2>1, <2>2, <2>4, <3>1, RemovePairs DEF Parties, SwapOf
  <2>5. CASE ~StartInsert(u) /\ ~AbortRemove(u)
    <3>1. SameEntry(w)
      BY <2>5, SameEntries
    <3> QED
      BY <2>1, <2>2, <3>1 DEF SameEntry, SwapOf
  <2> QED
    BY <2>3, <2>4, <2>5
<1> QED
  BY <1>1, <1>2

LEMMA PushesStep ==
  ASSUME Sound, PushesOwned, NEW u \in User, TradeStep(u) \/ RoomStep(u),
         ~Give(u), ~Take(u), UNCHANGED owner
  PROVE  PushesOwned'
<1> SUFFICES ASSUME NEW w \in User, Pc(w)' = "push", NEW i \in task'[w].give
             PROVE  owner[i] = w
  BY DEF PushesOwned
<1>0. Tasks
  BY DEF Sound
<1>1. ASSUME NEW j \in Item, w = u, OfferItem(u, j)
      PROVE  owner[i] = w
  <2>1. task'[u].give = {j}
    BY <1>0, <1>1 DEF OfferItem, Tasks, Local
  <2> QED
    BY <1>1, <2>1 DEF OfferItem
<1>2. CASE ~(w = u /\ \E j \in Item : OfferItem(u, j))
  <2>1. Decide(u) => Pc(u)' # "push"
    <3>1. ASSUME Rest(u, "ready") PROVE Pc(u)' = "ready"
      BY <1>0, <3>1 DEF Rest, AtRest, Pc, Tasks
    <3>2. ASSUME NEW g, NEW k, task' = [task EXCEPT ![u].pc = "swap", ![u].give = g,
                                                    ![u].take = k]
          PROVE  Pc(u)' = "swap"
      BY <1>0, <3>2 DEF Pc, Tasks, Local
    <3> QED
      BY <3>1, <3>2 DEF Decide
  <2>2. task'[w] = task[w]
    BY <1>0, <1>2, <2>1, ToSwapOrPush, OthersKept
  <2> QED
    BY <2>2 DEF PushesOwned, Pc
<1> QED
  BY <1>1, <1>2

LEMMA OwnedStep == Sound /\ Owned /\ [Next]_vars => Owned'
<1> SUFFICES ASSUME Sound, Owned, [Next]_vars, ~muddled', ~overlapped'
             PROVE  Pairs' /\ OffersOwned' /\ SwapsOwned' /\ PushesOwned'
  BY DEF Owned
<1>1. CASE UNCHANGED vars
  BY <1>1 DEF vars, itemVars, historyVars, Owned, Pairs, OffersOwned, SwapsOwned, SwapOf,
       PushesOwned, Pc
<1>2. ASSUME NEW u \in User, TradeStep(u) \/ RoomStep(u)
      PROVE  Pairs' /\ OffersOwned' /\ SwapsOwned' /\ PushesOwned'
  <2>1. ~muddled /\ ~overlapped
    BY <1>2, StaysMuddled DEF Sound
  <2>2. Pairs /\ OffersOwned /\ SwapsOwned /\ PushesOwned
    BY <2>1 DEF Owned
  <2>3. Pairs'
    BY <1>2, <2>2, PairsStep
  <2>4. CASE Give(u) \/ Take(u)
    BY <2>2, <2>3, <2>4, HandOverStep
  <2>5. CASE ~Give(u) /\ ~Take(u)
    BY <1>2, <2>2, <2>3, <2>5, OwnersKept, OffersStep, SwapsStep, PushesStep
  <2> QED
    BY <2>4, <2>5
<1> QED
  BY <1>1, <1>2 DEF Next

\* A swap takes furniture from its two parties only, until it is overlapped.
THEOREM SwapsTakeFromParties == Spec => SwapsBetweenParties
<1> DEFINE Between ==
      \A u \in User, i \in Item :
        Pc(u) = "swap" /\ task'[u] # task[u] /\ owner'[i] # owner[i] =>
          muddled \/ overlapped \/ owner[i] \in {u, task[u].with}
<1>1. Init => Sound /\ Owned
  BY SoundInit DEF Init, Owned, Pairs, OffersOwned, SwapsOwned, PushesOwned, Pc, AtRest
<1>2. Sound /\ Owned /\ [Next]_vars => (Sound /\ Owned)'
  BY SoundStep, OwnedStep
<1>3. Sound /\ Owned /\ [Next]_vars => [Between]_vars
  <2> SUFFICES ASSUME Sound, Owned, Next, NEW w \in User, NEW j \in Item, Pc(w) = "swap",
                      task'[w] # task[w], owner'[j] # owner[j], ~muddled, ~overlapped
               PROVE  owner[j] \in {w, task[w].with}
    OBVIOUS
  <2>1. PICK u \in User : TradeStep(u) \/ RoomStep(u)
    BY DEF Next
  <2>2. w = u
    BY <2>1, OthersKept DEF Sound
  <2>3. Give(u) \/ Take(u)
    BY <2>1, OwnersKept
  <2>4. j \in task[u].give \cup task[u].take
    BY <2>3, HandedOver
  <2> QED
    BY <2>2, <2>4 DEF Owned, SwapsOwned, SwapOf
<1> QED
  BY <1>1, <1>2, <1>3, PTL DEF Spec, SwapsBetweenParties
=============================================================================
