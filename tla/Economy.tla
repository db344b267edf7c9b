------------------------------- MODULE Economy -------------------------------
(***************************************************************************)
(* Credits, tickets and furniture: the catalogue, presents, vouchers,      *)
(* credit furniture and the recycler.                                      *)
(*                                                                         *)
(* The rows of the database are all there is.  Every query is a step; any  *)
(* of them may fail, which ends the session where it is, and the queries   *)
(* of other sessions come between.  Credits are read, checked, and written *)
(* as a new amount; the id of a new item is the highest one in the table.  *)
(* Two sessions of one account overlap while a displaced one finishes its  *)
(* packet.                                                                 *)
(*                                                                         *)
(* Sources: session_impl.rs (buy_game_tickets .. recycler_redeem_or_cancel, *)
(* item_open_presentbox, item_redeem_credit), managers/catalogue_manager.rs *)
(* (handle_purchase), managers/recycler_manager.rs.                        *)
(***************************************************************************)
EXTENDS Naturals, Sequences, FiniteSets, Functions

CONSTANTS
  User, Session,
  Account,     \* whose session it is
  Offer,       \* the catalogue: [order |-> kinds of items, price |-> credits]
  Worth,       \* what an item of a kind counts for in credits
  TicketPrice, \* game_ticket_offer
  Voucher, Amount,
  MaxItems     \* bound: furniture ever inserted

Kind == {"plain", "teleporter", "marked", "credit", "box", "reward"}

ASSUME EconomyAssumption ==
  /\ Account \in [Session -> User]
  /\ Offer \subseteq [order : Seq(Kind), price : Nat \ {0}]
  /\ \A o \in Offer : o.order # <<>>
  /\ IsFiniteSet(User) /\ IsFiniteSet(Voucher)
  /\ Worth \in [Kind -> Nat] /\ Worth["box"] = 0 /\ Worth["reward"] = 0
  /\ TicketPrice \in Nat \ {0} /\ Amount \in [Voucher -> Nat] /\ MaxItems \in Nat

VARIABLES
  credits, tickets,  \* of users
  vouchers,          \* the codes that are left
  furn,              \* furniture: id |-> row
  serial,            \* AUTO_INCREMENT
  presents,          \* furniture_presents: <<box, item>>
  recycler,          \* users_recycler, and how old the session is
  task,              \* where each session is in its packet, and the locals
  paid,              \* history: users whose recycler session was rewarded
  stale,             \* history: an amount of credits was written over another
                     \* than was read, or a voucher or an item was redeemed twice
  crossed,           \* history: the highest id was that of another's item
  interrupted,       \* history: a packet failed, or a box went while it was filled
                     \* or with what is in it
  muddled            \* history: the recycler took an item that was no longer its
                     \* owner's, or two sessions of one user ran it

money == <<credits, tickets, vouchers>>
goods == <<furn, serial, presents>>
flags == <<paid, stale, crossed, interrupted, muddled>>
vars == <<money, goods, recycler, task, flags>>

\* furniture.roomid: 0, -1, -2 and the id of a room.
Where == {"hand", "wrapped", "recycler", "room"}
Row == [owner : User, at : Where, kind : Kind, var : BOOLEAN, pair : Nat]
PC == {"ready", "box", "boxid", "pay", "insert", "handle", "link", "wrap",
       "tickets", "tear", "melt", "reread", "credit",
       "open", "take", "move", "reward", "drop", "items", "unpack", "burst", "shred"}
TaskState ==
  [pc : PC, read : Nat,        \* credits as they were read
   price : Nat, gain : Nat,
   todo : Seq(Kind),           \* what is still to be inserted
   for : User, gift : BOOLEAN,
   box : Nat, one : Nat, mine : Nat,  \* ids
   code : Voucher \cup {"none"},
   left : Nat, keep : BOOLEAN, things : SUBSET Nat]

TypeOK ==
  /\ credits \in [User -> Nat] /\ tickets \in [User -> Nat]
  /\ vouchers \subseteq Voucher
  /\ serial \in Nat /\ DOMAIN furn \subseteq 1 .. serial
  /\ \A i \in DOMAIN furn : furn[i] \in Row
  /\ presents \subseteq Nat \X Nat
  /\ recycler \in [User -> {"none", "new", "ready", "expired"}]
  /\ task \in [Session -> TaskState]
  /\ paid \subseteq User
  /\ {stale, crossed, interrupted, muddled} \subseteq BOOLEAN

AtRest(s) ==
  [pc |-> "ready", read |-> 0, price |-> 0, gain |-> 0, todo |-> <<>>,
   for |-> Account[s], gift |-> FALSE, box |-> 0, one |-> 0, mine |-> 0,
   code |-> "none", left |-> 0, keep |-> FALSE, things |-> {}]

CONSTANT Endowment  \* credits of every user in the beginning
ASSUME EndowmentAssumption == Endowment \in Nat

\* What the items of an order are worth, of which a kind makes one or two, and that
\* the catalogue sells nothing below worth.
Made(k) == IF k = "teleporter" THEN 2 ELSE 1
Value(order) == SumFunction([n \in DOMAIN order |-> Made(order[n]) * Worth[order[n]]])
ASSUME PricesCover == \A o \in Offer : o.price >= Value(o.order)

Init ==
  /\ credits = [u \in User |-> Endowment] /\ tickets = [u \in User |-> 0]
  /\ vouchers = Voucher
  /\ furn = <<>> /\ serial = 0 /\ presents = {}
  /\ recycler = [u \in User |-> "none"]
  /\ task = [s \in Session |-> AtRest(s)]
  /\ paid = {} /\ stale = FALSE /\ crossed = FALSE /\ interrupted = FALSE
  /\ muddled = FALSE

-----------------------------------------------------------------------------
(* Tables                                                                  *)

Pc(s) == task[s].pc
Rest(s) == task' = [task EXCEPT ![s] = AtRest(s)]
Goto(s, p) == task' = [task EXCEPT ![s].pc = p]

NewRow(u, w, k, p) == [owner |-> u, at |-> w, kind |-> k, var |-> FALSE, pair |-> p]
Insert(row) ==
  /\ serial < MaxItems
  /\ serial' = serial + 1
  /\ furn' = [i \in DOMAIN furn \cup {serial + 1} |->
                IF i = serial + 1 THEN row ELSE furn[i]]
Delete(S) == furn' = [i \in DOMAIN furn \ S |-> furn[i]]
Put(S, w) ==
  furn' = [i \in DOMAIN furn |-> IF i \in S THEN [furn[i] EXCEPT !.at = w] ELSE furn[i]]
Exists(i) == i \in DOMAIN furn
At(i, w) == Exists(i) /\ furn[i].at = w
OwnedBy(u, w) == {i \in DOMAIN furn : furn[i].owner = u /\ furn[i].at = w}

\* last_item_id: SELECT MAX(id), 0 when there is none.
LastItemId ==
  IF \E i \in DOMAIN furn : \A j \in DOMAIN furn : j <= i
  THEN CHOOSE i \in DOMAIN furn : \A j \in DOMAIN furn : j <= i ELSE 0
Crosses(s) == crossed' = (crossed \/ LastItemId # task[s].mine)

-----------------------------------------------------------------------------
(* catalogue_purchase                                                      *)

\* Mutant: what it costs is not compared with the credits.
PurchaseOnTick(s, o, v, gift) ==
  /\ Pc(s) = "ready" /\ credits[Account[s]] > 0
  /\ (gift \/ v = Account[s])
  /\ task' = [task EXCEPT ![s] = [@ EXCEPT
       !.pc = IF gift THEN "box" ELSE "pay", !.read = credits[Account[s]],
       !.price = o.price, !.todo = o.order, !.for = v, !.gift = gift]]
  /\ UNCHANGED <<money, goods, recycler, flags>>

\* The cost and the credits are read; a gift may be for the buyer too.
Purchase(s, o, v, gift) ==
  /\ Pc(s) = "ready" /\ o.price <= credits[Account[s]]
  /\ (gift \/ v = Account[s])
  /\ task' = [task EXCEPT ![s] = [@ EXCEPT
       !.pc = IF gift THEN "box" ELSE "pay", !.read = credits[Account[s]],
       !.price = o.price, !.todo = o.order, !.for = v, !.gift = gift]]
  /\ UNCHANGED <<money, goods, recycler, flags>>

\* The box is in the hand of the receiver before it is paid for or filled.
InsertBox(s) ==
  /\ Pc(s) = "box" /\ Insert(NewRow(task[s].for, "hand", "box", 0))
  /\ task' = [task EXCEPT ![s].pc = "boxid", ![s].mine = serial + 1]
  /\ UNCHANGED <<money, presents, recycler, flags>>

BoxId(s) ==
  /\ Pc(s) = "boxid" /\ Crosses(s)
  /\ task' = [task EXCEPT ![s].pc = "pay", ![s].box = LastItemId]
  /\ UNCHANGED <<money, goods, recycler, paid, stale, interrupted, muddled>>

\* UPDATE users SET credits = what was read less the price.
Pay(s) ==
  /\ Pc(s) = "pay"
  /\ credits' = [credits EXCEPT ![Account[s]] = task[s].read - task[s].price]
  /\ stale' = (stale \/ credits[Account[s]] # task[s].read)
  /\ Goto(s, IF task[s].todo = <<>> THEN "tickets" ELSE "insert")
  /\ UNCHANGED <<tickets, vouchers, goods, recycler, paid, crossed, interrupted, muddled>>

Wrapping(s) == IF task[s].gift THEN "wrapped" ELSE "hand"
InsertItem(s) ==
  /\ Pc(s) = "insert"
  /\ Insert(NewRow(task[s].for, Wrapping(s), Head(task[s].todo), 0))
  /\ task' = [task EXCEPT ![s].pc = "handle", ![s].mine = serial + 1]
  /\ UNCHANGED <<money, presents, recycler, flags>>

\* After an item: the next one of a deal, or the end of the packet.
Proceed(s) ==
  task' = [task EXCEPT ![s] =
    IF Len(task[s].todo) = 1 THEN AtRest(s)
    ELSE [@ EXCEPT !.pc = "insert", !.todo = Tail(task[s].todo)]]
WrapOrProceed(s) == IF task[s].gift THEN Goto(s, "wrap") ELSE Proceed(s)

\* handle_purchase of an item that gets a number, a preset or an inscription.
HandleMarked(s) ==
  /\ Pc(s) = "handle" /\ Head(task[s].todo) = "marked"
  /\ furn' = [i \in DOMAIN furn |->
                IF i = LastItemId THEN [furn[i] EXCEPT !.var = TRUE] ELSE furn[i]]
  /\ Crosses(s) /\ WrapOrProceed(s)
  /\ UNCHANGED <<money, serial, presents, recycler, paid, stale, interrupted, muddled>>

HandlePlain(s) ==
  /\ Pc(s) = "handle" /\ Head(task[s].todo) \notin {"marked", "teleporter"}
  /\ WrapOrProceed(s)
  /\ UNCHANGED <<money, goods, recycler, flags>>

\* ... of a teleporter: a second one with the id of the first ...
HandleTeleporter(s) ==
  /\ Pc(s) = "handle" /\ Head(task[s].todo) = "teleporter"
  /\ Insert(NewRow(task[s].for, Wrapping(s), "teleporter", LastItemId))
  /\ Crosses(s)
  /\ task' = [task EXCEPT ![s].pc = "link", ![s].one = LastItemId,
                          ![s].mine = serial + 1]
  /\ UNCHANGED <<money, presents, recycler, paid, stale, interrupted, muddled>>

\* Mutant: the first one is not told.
LinkNothing(s) ==
  /\ Pc(s) = "link" /\ Crosses(s)
  /\ task' = [task EXCEPT ![s].mine = LastItemId,
       ![s].pc = IF task[s].gift THEN "wrap" ELSE "ready"]
  /\ UNCHANGED <<money, goods, recycler, paid, stale, interrupted, muddled>>

\* ... whose id the first one gets.
LinkTeleporters(s) ==
  /\ Pc(s) = "link" /\ Crosses(s)
  /\ furn' = [i \in DOMAIN furn |->
       IF i = task[s].one THEN [furn[i] EXCEPT !.pair = LastItemId] ELSE furn[i]]
  /\ IF task[s].gift
     THEN task' = [task EXCEPT ![s].pc = "wrap", ![s].mine = LastItemId]
     ELSE Proceed(s)
  /\ UNCHANGED <<money, serial, presents, recycler, paid, stale, interrupted, muddled>>

\* Mutant: of a pair only the second one goes into the box.
WrapLast(s) ==
  /\ Pc(s) = "wrap" /\ Crosses(s) /\ Proceed(s)
  /\ presents' = presents \cup {<<task[s].box, LastItemId>>}
  /\ UNCHANGED <<money, furn, serial, recycler, paid, stale, interrupted, muddled>>

Wrap(s) ==
  /\ Pc(s) = "wrap" /\ Proceed(s)
  /\ IF Head(task[s].todo) = "teleporter"
     THEN /\ presents' = presents \cup
                {<<task[s].box, task[s].one>>, <<task[s].box, task[s].mine>>}
          /\ UNCHANGED crossed
     ELSE /\ presents' = presents \cup {<<task[s].box, LastItemId>>} /\ Crosses(s)
  /\ UNCHANGED <<money, furn, serial, recycler, paid, stale, interrupted, muddled>>

-----------------------------------------------------------------------------
(* buy_game_tickets, redeem_voucher, item_redeem_credit                    *)

\* An order of nothing; the tickets may be for another user.
BuyTickets(s, v) ==
  /\ Pc(s) = "ready" /\ TicketPrice <= credits[Account[s]]
  /\ task' = [task EXCEPT ![s] = [@ EXCEPT
       !.pc = "pay", !.read = credits[Account[s]], !.price = TicketPrice, !.for = v]]
  /\ UNCHANGED <<money, goods, recycler, flags>>

AddTickets(s) ==
  /\ Pc(s) = "tickets" /\ Rest(s)
  /\ tickets' = [tickets EXCEPT ![task[s].for] = @ + 1]
  /\ UNCHANGED <<credits, vouchers, goods, recycler, flags>>

FindVoucher(s, c) ==
  /\ Pc(s) = "ready" /\ c \in vouchers
  /\ task' = [task EXCEPT ![s].pc = "tear", ![s].code = c, ![s].gain = Amount[c]]
  /\ UNCHANGED <<money, goods, recycler, flags>>

\* Mutant: the voucher is left for the next user.
KeepVoucher(s) ==
  /\ Pc(s) = "tear" /\ Goto(s, "reread")
  /\ UNCHANGED <<money, goods, recycler, flags>>

\* DELETE finds nothing when another session was faster, and nobody asks.
DeleteVoucher(s) ==
  LET c == task[s].code IN
  /\ Pc(s) = "tear" /\ Goto(s, "reread")
  /\ vouchers' = vouchers \ {c} /\ stale' = (stale \/ c \notin vouchers)
  /\ UNCHANGED <<credits, tickets, goods, recycler, paid, crossed, interrupted, muddled>>

\* The owner of the room finds it in the copy.
RedeemCredit(s, i) ==
  /\ Pc(s) = "ready" /\ At(i, "room") /\ furn[i].kind = "credit"
  /\ task' = [task EXCEPT ![s].pc = "melt", ![s].one = i, ![s].gain = Worth["credit"]]
  /\ UNCHANGED <<money, goods, recycler, flags>>

Melt(s) ==
  LET i == task[s].one IN
  /\ Pc(s) = "melt" /\ Delete({i}) /\ Goto(s, "reread")
  /\ stale' = (stale \/ ~Exists(i))
  /\ UNCHANGED <<money, serial, presents, recycler, paid, crossed, interrupted, muddled>>

ReadCredits(s) ==
  /\ Pc(s) = "reread"
  /\ task' = [task EXCEPT ![s].pc = "credit", ![s].read = credits[Account[s]]]
  /\ UNCHANGED <<money, goods, recycler, flags>>

WriteCredits(s) ==
  /\ Pc(s) = "credit" /\ Rest(s)
  /\ credits' = [credits EXCEPT ![Account[s]] = task[s].read + task[s].gain]
  /\ stale' = (stale \/ credits[Account[s]] # task[s].read)
  /\ UNCHANGED <<tickets, vouchers, goods, recycler, paid, crossed, interrupted, muddled>>

-----------------------------------------------------------------------------
(* item_open_presentbox                                                    *)

\* A box that goes while a purchase still fills it.
BeingFilled(b) == \E s \in Session : task[s].gift /\ b \in {task[s].box, task[s].mine}

\* Whatever stands in the room; the rows are read once.
OpenPresent(s, b) ==
  /\ Pc(s) = "ready" /\ At(b, "room")
  /\ task' = [task EXCEPT ![s].pc = "unpack", ![s].box = b,
                          ![s].things = {i \in DOMAIN furn : <<b, i>> \in presents}]
  /\ interrupted' = (interrupted \/ BeingFilled(b))
  /\ UNCHANGED <<money, goods, recycler, paid, stale, crossed, muddled>>

Unpack(s, i) ==
  /\ Pc(s) = "unpack" /\ i \in task[s].things
  /\ Put({i}, "hand")
  /\ task' = [task EXCEPT ![s].things = @ \ {i}]
  /\ UNCHANGED <<money, serial, presents, recycler, flags>>

\* remove_floor_item deletes the box when everything is out of it.
Burst(s) ==
  /\ Pc(s) = "unpack" /\ task[s].things = {}
  /\ Delete({task[s].box}) /\ Goto(s, "shred")
  /\ UNCHANGED <<money, serial, presents, recycler, flags>>

Shred(s) ==
  /\ Pc(s) = "shred" /\ Rest(s)
  /\ presents' = {p \in presents : p[1] # task[s].box}
  /\ UNCHANGED <<money, furn, serial, recycler, flags>>

-----------------------------------------------------------------------------
(* recycler_proceed, recycler_redeem_or_cancel                             *)

RecyclerPC == {"open", "take", "move", "reward", "drop", "items"}
OthersOf(s) == {t \in Session \ {s} : Account[t] = Account[s]}
Muddles(s) == muddled' = (muddled \/ \E t \in OthersOf(s) : Pc(t) \in RecyclerPC)

RecyclerProceed(s, n) ==
  /\ Pc(s) = "ready" /\ recycler[Account[s]] = "none" /\ n > 0
  /\ task' = [task EXCEPT ![s].pc = "open", ![s].left = n]
  /\ Muddles(s)
  /\ UNCHANGED <<money, goods, recycler, paid, stale, crossed, interrupted>>

\* The user is the primary key: a second INSERT fails.
CreateSession(s) ==
  /\ Pc(s) = "open" /\ recycler[Account[s]] = "none"
  /\ recycler' = [recycler EXCEPT ![Account[s]] = "new"]
  /\ paid' = paid \ {Account[s]}
  /\ Goto(s, "take")
  /\ UNCHANGED <<money, goods, stale, crossed, interrupted, muddled>>

FindItem(s, i) ==
  /\ Pc(s) = "take" /\ At(i, "hand") /\ furn[i].owner = Account[s]
  /\ task' = [task EXCEPT ![s].pc = "move", ![s].one = i]
  /\ UNCHANGED <<money, goods, recycler, flags>>

\* UPDATE furniture SET roomid = '-2' WHERE id = ...
MoveItem(s) ==
  LET i == task[s].one IN
  /\ Pc(s) = "move" /\ Put({i}, "recycler")
  /\ muddled' = (muddled \/ ~At(i, "hand") \/ furn[i].owner # Account[s])
  /\ IF task[s].left = 1 THEN Rest(s)
     ELSE task' = [task EXCEPT ![s].pc = "take", ![s].left = task[s].left - 1]
  /\ UNCHANGED <<money, serial, presents, recycler, paid, stale, crossed, interrupted>>

\* An item that is not there costs those that have been taken.
BadItem(s) ==
  /\ Pc(s) = "take" /\ Goto(s, "drop")
  /\ UNCHANGED <<money, goods, recycler, flags>>

RedeemOrCancel(s, redeem) ==
  LET u == Account[s] IN
  /\ Pc(s) = "ready" /\ recycler[u] # "none"
  /\ task' = [task EXCEPT ![s].keep = ~redeem,
       ![s].pc = IF redeem /\ recycler[u] = "ready" THEN "reward" ELSE "drop"]
  /\ Muddles(s)
  /\ UNCHANGED <<money, goods, recycler, paid, stale, crossed, interrupted>>

\* Mutant: the session goes on after the reward.
RewardAndRest(s) ==
  /\ Pc(s) = "reward" /\ Rest(s)
  /\ Insert(NewRow(Account[s], "hand", "reward", 0))
  /\ paid' = paid \cup {Account[s]}
  /\ UNCHANGED <<money, presents, recycler, stale, crossed, interrupted, muddled>>

RewardSession(s) ==
  /\ Pc(s) = "reward" /\ Goto(s, "drop")
  /\ Insert(NewRow(Account[s], "hand", "reward", 0))
  /\ paid' = paid \cup {Account[s]}
  /\ UNCHANGED <<money, presents, recycler, stale, crossed, interrupted, muddled>>

\* drop_session: the session, and then the items.
DropSession(s) ==
  /\ Pc(s) = "drop" /\ Goto(s, "items")
  /\ recycler' = [recycler EXCEPT ![Account[s]] = "none"]
  /\ UNCHANGED <<money, goods, flags>>

Filled(b) == \E i \in DOMAIN furn : <<b, i>> \in presents /\ At(i, "wrapped")
DropItems(s) ==
  LET S == OwnedBy(Account[s], "recycler") IN
  /\ Pc(s) = "items" /\ Rest(s)
  /\ IF task[s].keep THEN Put(S, "hand") ELSE Delete(S)
  /\ interrupted' = (interrupted \/ (~task[s].keep /\
                       \E b \in S : Filled(b) \/ BeingFilled(b)))
  /\ UNCHANGED <<money, serial, presents, recycler, paid, stale, crossed, muddled>>

TimePasses(u) ==
  /\ recycler[u] \in {"new", "ready"}
  /\ recycler' = [recycler EXCEPT ![u] = IF @ = "new" THEN "ready" ELSE "expired"]
  /\ UNCHANGED <<money, goods, task, flags>>

-----------------------------------------------------------------------------
(* The rest of the hotel: items change hands and places; a packet fails    *)

\* Placed in a room, picked up by the owner of the room, swapped.
MoveAbout(i, w, v) ==
  /\ \/ At(i, "hand") /\ w \in {"hand", "room"} /\ (w = "room" => v = furn[i].owner)
     \/ At(i, "room") /\ w = "hand"
  /\ furn' = [furn EXCEPT ![i].at = w, ![i].owner = v]
  /\ UNCHANGED <<money, serial, presents, recycler, task, flags>>

\* The session is over; the user may log in again.
Fail(s) ==
  /\ Pc(s) # "ready" /\ Rest(s)
  /\ interrupted' = TRUE /\ muddled' = (muddled \/ Pc(s) \in RecyclerPC)
  /\ UNCHANGED <<money, goods, recycler, paid, stale, crossed>>

-----------------------------------------------------------------------------

Shop(s) ==
  \/ \E o \in Offer, v \in User, gift \in BOOLEAN : Purchase(s, o, v, gift)
  \/ InsertBox(s) \/ BoxId(s) \/ Pay(s) \/ InsertItem(s)
  \/ HandleMarked(s) \/ HandlePlain(s) \/ HandleTeleporter(s)
  \/ LinkTeleporters(s) \/ Wrap(s)
  \/ \E v \in User : BuyTickets(s, v)
  \/ AddTickets(s)
Redeem(s) ==
  \/ \E c \in Voucher : FindVoucher(s, c)
  \/ \E i \in DOMAIN furn : RedeemCredit(s, i) \/ OpenPresent(s, i) \/ Unpack(s, i)
  \/ DeleteVoucher(s) \/ Melt(s) \/ ReadCredits(s) \/ WriteCredits(s)
  \/ Burst(s) \/ Shred(s)
Recycle(s) ==
  \/ \E n \in 1 .. MaxItems : RecyclerProceed(s, n)
  \/ \E i \in DOMAIN furn : FindItem(s, i)
  \/ \E redeem \in BOOLEAN : RedeemOrCancel(s, redeem)
  \/ CreateSession(s) \/ MoveItem(s) \/ BadItem(s) \/ RewardSession(s)
  \/ DropSession(s) \/ DropItems(s)

Next ==
  \/ \E s \in Session : Shop(s) \/ Redeem(s) \/ Recycle(s) \/ Fail(s)
  \/ \E u \in User : TimePasses(u)
  \/ \E i \in DOMAIN furn, w \in Where, v \in User : MoveAbout(i, w, v)

Spec == Init /\ [][Next]_vars

-----------------------------------------------------------------------------
(* Properties                                                              *)

\* What all credits, tickets, vouchers and items are worth together.
Wealth ==
  SumFunction([u \in User |-> credits[u] + TicketPrice * tickets[u]])
  + SumFunction([i \in DOMAIN furn |-> Worth[furn[i].kind]])
  + SumFunctionOnSet(Amount, vouchers)
Beginning == SumFunction([u \in User |-> Endowment]) + SumFunction(Amount)

\* Nothing comes from nothing: whatever is bought, given, redeemed or recycled, by
\* several users at once, and wherever a query fails, all of it together is never
\* worth more than what was there in the beginning.  (Unless credits were written
\* over an amount that had changed since it was read, or a voucher or an item was
\* redeemed that another session had taken meanwhile.)
NothingForFree == ~stale => Wealth <= Beginning

Handles(s, i) == i \in {task[s].mine, task[s].one}
UnderWay(i) == \E s \in Session : Handles(s, i) /\ Pc(s) \in {"handle", "link", "wrap"}

\* What was bought is complete when the purchase is over: a marked item has its
\* number, preset or inscription, and the two teleporters of a pair know each other.
\* (Unless a highest id was another's, or a packet failed.)
GoodsComplete ==
  crossed \/ interrupted \/
  \A i \in DOMAIN furn :
    LET f == furn[i] IN
    \/ UnderWay(i)
    \/ /\ f.kind = "marked" => f.var
       /\ f.kind = "teleporter" =>
            f.pair # 0 /\ (Exists(f.pair) => furn[f.pair].pair = i)

\* No present is lost: what is wrapped is in a box that somebody can still open, or
\* its purchase goes on.  (The same exceptions, and boxes that went while they were
\* filled or that the recycler took with what is in them.)
GiftsArrive ==
  crossed \/ interrupted \/
  \A i \in DOMAIN furn :
    At(i, "wrapped") =>
      UnderWay(i) \/ \E b \in DOMAIN furn : <<b, i>> \in presents

\* The recycler holds items only for a session that has not had its reward, or that
\* is being dropped: nobody gets items back for which there was a reward, and none
\* are forgotten when a session ends.  (Unless an item was no longer the user's when
\* it was moved, two sessions of a user ran the recycler, or one failed there.)
RecyclerHolds ==
  muddled \/
  \A u \in User :
    OwnedBy(u, "recycler") # {} =>
      \/ recycler[u] # "none" /\ u \notin paid
      \/ \E s \in Session : Account[s] = u /\ Pc(s) \in {"drop", "items"}
=============================================================================
