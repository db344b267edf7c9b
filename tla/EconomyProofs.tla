---------------------------- MODULE EconomyProofs ----------------------------
(***************************************************************************)
(* Proofs about Economy, for all sets of users, sessions, offers and       *)
(* vouchers, whatever things cost and however much furniture there is.     *)
(*                                                                         *)
(* In this order: types; what the recycler holds (Books); what a step does *)
(* to the locals, ids and rows (Numbered, Ages, Lasts); complete goods     *)
(* (Goods); presents (Gifts); and the sum of everything (Covered).         *)
(***************************************************************************)
EXTENDS Economy, SequenceTheorems, Sums, TLAPS

\* What the steps of a packet rely on: a purchase that goes on was affordable when
\* the credits were read, an item that is handled is one of the order, and the
\* recycler stops at the last item.
Able ==
  \A s \in Session :
    /\ Pc(s) \in {"box", "boxid", "pay"} => task[s].price <= task[s].read
    /\ Pc(s) \in {"box", "boxid", "insert", "handle", "link", "wrap"} =>
         task[s].todo # <<>>
    /\ Pc(s) \in {"open", "take", "move"} => task[s].left > 0

-----------------------------------------------------------------------------
\* last_item_id answers a number, also for an empty table.
LEMMA LastItemIdNat == TypeOK => LastItemId \in Nat
  BY DEF TypeOK, LastItemId

\* The first state is well typed.
LEMMA TypeInit == Init => TypeOK /\ Able
<1> SUFFICES ASSUME Init PROVE TypeOK /\ Able
  OBVIOUS
<1>1. \A s \in Session : AtRest(s) \in TaskState
  BY EconomyAssumption DEF AtRest, TaskState, PC
<1>2. task \in [Session -> TaskState]
  BY <1>1 DEF Init
<1>3. credits \in [User -> Nat] /\ tickets \in [User -> Nat]
  BY EndowmentAssumption DEF Init
<1>4. DOMAIN furn = {}
  BY DEF Init
<1>5. TypeOK
  BY <1>2, <1>3, <1>4 DEF Init, TypeOK
<1>6. Able
  BY DEF Init, Able, Pc, AtRest
<1> QED
  BY <1>5, <1>6

\* A session takes new locals that rely on nothing false.
Sound(t) ==
  /\ t \in TaskState
  /\ t.pc \in {"box", "boxid", "pay"} => t.price <= t.read
  /\ t.pc \in {"box", "boxid", "insert", "handle", "link", "wrap"} => t.todo # <<>>
  /\ t.pc \in {"open", "take", "move"} => t.left > 0

LEMMA TaskTyped ==
  ASSUME TypeOK, Able, NEW s \in Session, NEW t, Sound(t),
         task' = [task EXCEPT ![s] = t]
  PROVE  task' \in [Session -> TaskState] /\ Able'
  BY DEF TypeOK, Able, Pc, Sound

\* The locals that a session has already are sound.
LEMMA TaskSound ==
  ASSUME TypeOK, Able, NEW s \in Session
  PROVE  Sound(task[s])
  BY DEF TypeOK, Able, Pc, Sound

\* The end of a packet.
LEMMA RestTyped ==
  ASSUME TypeOK, Able, NEW s \in Session, Rest(s)
  PROVE  task' \in [Session -> TaskState] /\ Able'
<1>1. Sound(AtRest(s))
  BY EconomyAssumption DEF AtRest, TaskState, PC, Sound
<1> QED
  BY <1>1, TaskTyped DEF Rest

\* Going to a step that relies on nothing new.
LEMMA GotoTyped ==
  ASSUME TypeOK, Able, NEW s \in Session, NEW p \in PC, Goto(s, p),
         p \notin {"box", "boxid", "pay", "open"},
         p \in {"insert", "handle", "link", "wrap"} => task[s].todo # <<>>,
         p \in {"take", "move"} => task[s].left > 0
  PROVE  task' \in [Session -> TaskState] /\ Able'
<1> DEFINE t == [task[s] EXCEPT !.pc = p]
<1>1. Sound(t)
  BY DEF TypeOK, TaskState, Sound
<1>2. task' = [task EXCEPT ![s] = t]
  BY DEF Goto
<1> QED
  BY <1>1, <1>2, TaskTyped

\* The rest of an order.
LEMMA TailSound ==
  ASSUME NEW q \in Seq(Kind), q # <<>>, Len(q) # 1
  PROVE  Tail(q) \in Seq(Kind) /\ Tail(q) # <<>>
<1>1. Tail(q) \in Seq(Kind) /\ Len(Tail(q)) = Len(q) - 1
  BY HeadTailProperties
<1>2. Len(q) \in Nat \ {0} /\ Len(<<>>) = 0
  BY EmptySeq
<1>3. Len(Tail(q)) # Len(<<>>)
  BY <1>1, <1>2
<1> QED
  BY <1>1, <1>3

\* After an item comes the next one, which there is, or the end.
LEMMA ProceedTyped ==
  ASSUME TypeOK, Able, NEW s \in Session, Proceed(s), task[s].todo # <<>>
  PROVE  task' \in [Session -> TaskState] /\ Able'
<1>1. CASE Len(task[s].todo) = 1
  BY <1>1, RestTyped DEF Proceed, Rest
<1>2. CASE Len(task[s].todo) # 1
  <2> DEFINE t == [task[s] EXCEPT !.pc = "insert", !.todo = Tail(task[s].todo)]
  <2>1. task[s] \in TaskState /\ task[s].todo \in Seq(Kind)
    BY DEF TypeOK, TaskState
  <2>2. /\ Tail(task[s].todo) \in Seq(Kind)
        /\ Tail(task[s].todo) # <<>>
    BY <2>1, <1>2, TailSound
  <2>3. Sound(t)
    BY <2>1, <2>2 DEF TaskState, PC, Sound
  <2>4. task' = [task EXCEPT ![s] = t]
    BY <1>2 DEF Proceed
  <2> QED
    BY <2>3, <2>4, TaskTyped
<1> QED
  BY <1>1, <1>2

\* What a purchase does to the locals of its session.
LEMMA ShopTask ==
  ASSUME TypeOK, Able, NEW s \in Session, Shop(s)
  PROVE  task' \in [Session -> TaskState] /\ Able'
<1>0. /\ task[s] \in TaskState /\ Sound(task[s]) /\ LastItemId \in Nat /\ serial + 1 \in Nat
      /\ \A u \in User : credits[u] \in Nat
      /\ Account[s] \in User
  BY TaskSound, LastItemIdNat, EconomyAssumption DEF TypeOK
<1>1. ASSUME NEW o \in Offer, NEW v \in User, NEW gift \in BOOLEAN, Purchase(s, o, v, gift)
      PROVE  task' \in [Session -> TaskState] /\ Able'
  <2> DEFINE p == IF gift THEN "box" ELSE "pay"
             c == credits[Account[s]]
             t == [task[s] EXCEPT !.pc = p, !.read = c, !.price = o.price,
                                  !.todo = o.order, !.for = v, !.gift = gift]
  <2>1. o.price \in Nat /\ o.order \in Seq(Kind) /\ o.order # <<>>
    BY EconomyAssumption
  <2>2. p \in {"box", "pay"} /\ c \in Nat
    BY <1>0
  <2>3. task' = [task EXCEPT ![s] = t] /\ o.price <= c
    BY <1>1 DEF Purchase
  <2> HIDE DEF p, c
  <2>4. t \in TaskState
    BY <1>0, <2>1, <2>2 DEF TaskState, PC
  <2>5. t.price = o.price /\ t.read = c /\ t.todo = o.order /\ t.pc = p
    BY <1>0 DEF TaskState
  <2>6. Sound(t)
    BY <2>1, <2>2, <2>3, <2>4, <2>5 DEF Sound
  <2> QED
    BY <2>3, <2>6, TaskTyped
<1>2. CASE InsertBox(s)
  <2> DEFINE t == [task[s] EXCEPT !.pc = "boxid", !.mine = serial + 1]
  <2>1. Sound(t)
    BY <1>0, <1>2 DEF TaskState, PC, Sound, InsertBox, Pc
  <2>2. task' = [task EXCEPT ![s] = t]
    BY <1>2 DEF InsertBox, TypeOK
  <2> QED
    BY <2>1, <2>2, TaskTyped
<1>3. CASE BoxId(s)
  <2> DEFINE t == [task[s] EXCEPT !.pc = "pay", !.box = LastItemId]
  <2>1. Sound(t)
    BY <1>0, <1>3 DEF TaskState, PC, Sound, BoxId, Pc
  <2>2. task' = [task EXCEPT ![s] = t]
    BY <1>3 DEF BoxId, TypeOK
  <2> QED
    BY <2>1, <2>2, TaskTyped
<1>4. CASE Pay(s)
  BY <1>4, GotoTyped DEF Pay, PC
<1>5. CASE InsertItem(s)
  <2> DEFINE t == [task[s] EXCEPT !.pc = "handle", !.mine = serial + 1]
  <2>1. Sound(t)
    BY <1>0, <1>5 DEF TaskState, PC, Sound, InsertItem, Pc
  <2>2. task' = [task EXCEPT ![s] = t]
    BY <1>5 DEF InsertItem, TypeOK
  <2> QED
    BY <2>1, <2>2, TaskTyped
<1>6. CASE HandleMarked(s) \/ HandlePlain(s)
  <2>1. task[s].todo # <<>> /\ WrapOrProceed(s)
    BY <1>0, <1>6 DEF HandleMarked, HandlePlain, Sound, Pc
  <2>2. CASE Goto(s, "wrap")
    BY <2>1, <2>2, GotoTyped DEF PC
  <2>3. CASE Proceed(s)
    BY <2>1, <2>3, ProceedTyped
  <2> QED
    BY <2>1, <2>2, <2>3 DEF WrapOrProceed
<1>7. CASE HandleTeleporter(s)
  <2> DEFINE t == [task[s] EXCEPT !.pc = "link", !.one = LastItemId, !.mine = serial + 1]
  <2>1. Sound(t)
    BY <1>0, <1>7 DEF TaskState, PC, Sound, HandleTeleporter, Pc
  <2>2. task' = [task EXCEPT ![s] = t]
    BY <1>7 DEF HandleTeleporter, TypeOK
  <2> QED
    BY <2>1, <2>2, TaskTyped
<1>8. CASE LinkTeleporters(s)
  <2>1. task[s].todo # <<>>
    BY <1>0, <1>8 DEF LinkTeleporters, Sound, Pc
  <2>2. CASE task[s].gift
    <3> DEFINE t == [task[s] EXCEPT !.pc = "wrap", !.mine = LastItemId]
    <3>1. Sound(t)
      BY <1>0, <2>1 DEF TaskState, PC, Sound
    <3>2. task' = [task EXCEPT ![s] = t]
      BY <1>8, <2>2 DEF LinkTeleporters, TypeOK
    <3> QED
      BY <3>1, <3>2, TaskTyped
  <2>3. CASE ~task[s].gift
    BY <1>8, <2>1, <2>3, ProceedTyped DEF LinkTeleporters
  <2> QED
    BY <2>2, <2>3
<1>9. CASE Wrap(s)
  BY <1>0, <1>9, ProceedTyped DEF Wrap, Sound, Pc
<1>10. ASSUME NEW v \in User, BuyTickets(s, v)
       PROVE  task' \in [Session -> TaskState] /\ Able'
  <2> DEFINE t == [task[s] EXCEPT
       !.pc = "pay", !.read = credits[Account[s]], !.price = TicketPrice, !.for = v]
  <2>1. Sound(t)
    BY <1>0, <1>10, EconomyAssumption DEF TaskState, PC, Sound, BuyTickets
  <2>2. task' = [task EXCEPT ![s] = t]
    BY <1>10 DEF BuyTickets
  <2> QED
    BY <2>1, <2>2, TaskTyped
<1>11. CASE AddTickets(s)
  BY <1>11, RestTyped DEF AddTickets
<1> QED
  BY <1>1, <1>2, <1>3, <1>4, <1>5, <1>6, <1>7, <1>8, <1>9, <1>10, <1>11 DEF Shop

\* What redeeming and opening do to the locals.
LEMMA RedeemTask ==
  ASSUME TypeOK, Able, NEW s \in Session, Redeem(s)
  PROVE  task' \in [Session -> TaskState] /\ Able'
<1>0. /\ task[s] \in TaskState /\ Sound(task[s])
      /\ \A u \in User : credits[u] \in Nat
      /\ Account[s] \in User /\ DOMAIN furn \subseteq Nat
  BY TaskSound, EconomyAssumption DEF TypeOK
<1>1. ASSUME NEW c \in Voucher, FindVoucher(s, c)
      PROVE  task' \in [Session -> TaskState] /\ Able'
  <2> DEFINE t == [task[s] EXCEPT !.pc = "tear", !.code = c, !.gain = Amount[c]]
  <2>1. Sound(t)
    BY <1>0, EconomyAssumption DEF TaskState, PC, Sound
  <2>2. task' = [task EXCEPT ![s] = t]
    BY <1>1 DEF FindVoucher, TypeOK
  <2> QED
    BY <2>1, <2>2, TaskTyped
<1>2. ASSUME NEW i \in DOMAIN furn, RedeemCredit(s, i)
      PROVE  task' \in [Session -> TaskState] /\ Able'
  <2> DEFINE t == [task[s] EXCEPT !.pc = "melt", !.one = i, !.gain = Worth["credit"]]
  <2>1. Worth["credit"] \in Nat
    BY EconomyAssumption DEF Kind
  <2>2. Sound(t)
    BY <1>0, <2>1 DEF TaskState, PC, Sound
  <2>3. task' = [task EXCEPT ![s] = t]
    BY <1>2 DEF RedeemCredit, TypeOK
  <2> QED
    BY <2>2, <2>3, TaskTyped
<1>3. ASSUME NEW b \in DOMAIN furn, OpenPresent(s, b)
      PROVE  task' \in [Session -> TaskState] /\ Able'
  <2> DEFINE t == [task[s] EXCEPT !.pc = "unpack", !.box = b,
                     !.things = {i \in DOMAIN furn : <<b, i>> \in presents}]
  <2>1. Sound(t)
    BY <1>0 DEF TaskState, PC, Sound
  <2>2. task' = [task EXCEPT ![s] = t]
    BY <1>3 DEF OpenPresent, TypeOK
  <2> QED
    BY <2>1, <2>2, TaskTyped
<1>4. ASSUME NEW i \in DOMAIN furn, Unpack(s, i)
      PROVE  task' \in [Session -> TaskState] /\ Able'
  <2> DEFINE t == [task[s] EXCEPT !.things = task[s].things \ {i}]
  <2>1. Sound(t)
    BY <1>0 DEF TaskState, PC, Sound
  <2>2. task' = [task EXCEPT ![s] = t]
    BY <1>4 DEF Unpack, TypeOK
  <2> QED
    BY <2>1, <2>2, TaskTyped
<1>5. CASE DeleteVoucher(s) \/ Melt(s) \/ Burst(s)
  BY <1>5, GotoTyped DEF DeleteVoucher, Melt, Burst, PC
<1>6. CASE ReadCredits(s)
  <2> DEFINE t == [task[s] EXCEPT !.pc = "credit", !.read = credits[Account[s]]]
  <2>1. Sound(t)
    BY <1>0 DEF TaskState, PC, Sound
  <2>2. task' = [task EXCEPT ![s] = t]
    BY <1>6 DEF ReadCredits, TypeOK
  <2> QED
    BY <2>1, <2>2, TaskTyped
<1>7. CASE WriteCredits(s) \/ Shred(s)
  BY <1>7, RestTyped DEF WriteCredits, Shred
<1> QED
  BY <1>1, <1>2, <1>3, <1>4, <1>5, <1>6, <1>7 DEF Redeem

\* What the recycler does to the locals.
LEMMA RecycleTask ==
  ASSUME TypeOK, Able, NEW s \in Session, Recycle(s)
  PROVE  task' \in [Session -> TaskState] /\ Able'
<1>0. /\ task[s] \in TaskState /\ Sound(task[s]) /\ DOMAIN furn \subseteq Nat
      /\ MaxItems \in Nat
  BY TaskSound, EconomyAssumption DEF TypeOK
<1>1. ASSUME NEW n \in 1 .. MaxItems, RecyclerProceed(s, n)
      PROVE  task' \in [Session -> TaskState] /\ Able'
  <2> DEFINE t == [task[s] EXCEPT !.pc = "open", !.left = n]
  <2>1. n \in Nat /\ n > 0
    BY <1>0
  <2>2. t \in TaskState /\ t.pc = "open" /\ t.left = n
    BY <1>0, <2>1 DEF TaskState, PC
  <2>3. Sound(t)
    BY <2>1, <2>2 DEF Sound
  <2>4. task' = [task EXCEPT ![s] = t]
    BY <1>1 DEF RecyclerProceed, TypeOK
  <2> QED
    BY <2>3, <2>4, TaskTyped
<1>2. ASSUME NEW i \in DOMAIN furn, FindItem(s, i)
      PROVE  task' \in [Session -> TaskState] /\ Able'
  <2> DEFINE t == [task[s] EXCEPT !.pc = "move", !.one = i]
  <2>1. Sound(t)
    BY <1>0, <1>2 DEF TaskState, PC, Sound, FindItem, Pc
  <2>2. task' = [task EXCEPT ![s] = t]
    BY <1>2 DEF FindItem, TypeOK
  <2> QED
    BY <2>1, <2>2, TaskTyped
<1>3. ASSUME NEW redeem \in BOOLEAN, RedeemOrCancel(s, redeem)
      PROVE  task' \in [Session -> TaskState] /\ Able'
  <2> DEFINE p == IF redeem /\ recycler[Account[s]] = "ready" THEN "reward" ELSE "drop"
             t == [task[s] EXCEPT !.keep = ~redeem, !.pc = p]
  <2>1. p \in {"reward", "drop"}
    OBVIOUS
  <2>2. task' = [task EXCEPT ![s] = t]
    BY <1>3 DEF RedeemOrCancel, TypeOK
  <2> HIDE DEF p
  <2>3. Sound(t)
    BY <1>0, <2>1 DEF TaskState, PC, Sound
  <2> QED
    BY <2>2, <2>3, TaskTyped
<1>4. CASE CreateSession(s)
  BY <1>0, <1>4, GotoTyped DEF CreateSession, PC, Sound, Pc
<1>5. CASE MoveItem(s)
  <2>1. CASE task[s].left = 1
    BY <1>5, <2>1, RestTyped DEF MoveItem
  <2>2. CASE task[s].left # 1
    <3> DEFINE t == [task[s] EXCEPT !.pc = "take", !.left = task[s].left - 1]
    <3>1. task[s].left - 1 \in Nat /\ task[s].left - 1 > 0
      BY <1>0, <1>5, <2>2 DEF TaskState, Sound, MoveItem, Pc
    <3>2. t \in TaskState /\ t.pc = "take" /\ t.left = task[s].left - 1
      BY <1>0, <3>1 DEF TaskState, PC
    <3>3. Sound(t)
      BY <3>1, <3>2 DEF Sound
    <3>4. task' = [task EXCEPT ![s] = t]
      BY <1>5, <2>2 DEF MoveItem, TypeOK
    <3> QED
      BY <3>3, <3>4, TaskTyped
  <2> QED
    BY <2>1, <2>2
<1>6. CASE BadItem(s) \/ RewardSession(s) \/ DropSession(s)
  BY <1>6, GotoTyped DEF BadItem, RewardSession, DropSession, PC
<1>7. CASE DropItems(s)
  BY <1>7, RestTyped DEF DropItems
<1> QED
  BY <1>1, <1>2, <1>3, <1>4, <1>5, <1>6, <1>7 DEF Recycle

\* The locals keep their types in every step.
LEMMA TaskStep ==
  ASSUME TypeOK, Able, [Next]_vars
  PROVE  task' \in [Session -> TaskState] /\ Able'
<1>1. ASSUME NEW s \in Session, Fail(s)
      PROVE  task' \in [Session -> TaskState] /\ Able'
  BY <1>1, RestTyped DEF Fail
<1>2. ASSUME UNCHANGED task
      PROVE  task' \in [Session -> TaskState] /\ Able'
  BY <1>2 DEF TypeOK, Able, Pc
<1>3. ASSUME NEW u \in User, TimePasses(u)
      PROVE  task' \in [Session -> TaskState] /\ Able'
  BY <1>2, <1>3 DEF TimePasses
<1>4. ASSUME NEW i \in DOMAIN furn, NEW w \in Where, NEW v \in User, MoveAbout(i, w, v)
      PROVE  task' \in [Session -> TaskState] /\ Able'
  BY <1>2, <1>4 DEF MoveAbout
<1> QED
  BY <1>1, <1>2, <1>3, <1>4, ShopTask, RedeemTask, RecycleTask DEF Next, vars

-----------------------------------------------------------------------------
\* The table of furniture is well typed.
Rows ==
  /\ serial \in Nat /\ DOMAIN furn \subseteq 1 .. serial
  /\ \A i \in DOMAIN furn : furn[i] \in Row

\* INSERT of a row, UPDATE of its place, and DELETE keep the table well typed.
LEMMA InsertTyped ==
  ASSUME Rows, NEW row \in Row, Insert(row)
  PROVE  Rows'
<1>1. serial' \in Nat /\ 1 .. serial \subseteq 1 .. serial' /\ serial + 1 \in 1 .. serial'
  BY DEF Rows, Insert
<1>2. DOMAIN furn' = DOMAIN furn \cup {serial + 1}
  BY DEF Insert
<1>3. \A i \in DOMAIN furn' : furn'[i] \in Row
  BY <1>2 DEF Rows, Insert
<1> QED
  BY <1>1, <1>2, <1>3 DEF Rows

LEMMA PutTyped ==
  ASSUME Rows, NEW S, NEW w \in Where, Put(S, w), UNCHANGED serial
  PROVE  Rows'
  BY DEF Rows, Put, Row

LEMMA DeleteTyped ==
  ASSUME Rows, NEW S, Delete(S), UNCHANGED serial
  PROVE  Rows'
  BY DEF Rows, Delete

LEMMA NewRowTyped ==
  ASSUME NEW u \in User, NEW w \in Where, NEW k \in Kind, NEW p \in Nat
  PROVE  NewRow(u, w, k, p) \in Row
  BY DEF NewRow, Row

\* The table keeps its types in every step.
LEMMA RowsStep ==
  ASSUME TypeOK, Able, [Next]_vars
  PROVE  Rows'
<1>0. Rows
  BY DEF TypeOK, Rows
<1>1. ASSUME UNCHANGED <<furn, serial>>
      PROVE  Rows'
  BY <1>0, <1>1 DEF Rows
<1>2. ASSUME NEW s \in Session, Shop(s)
      PROVE  Rows'
  <2>0. /\ task[s] \in TaskState /\ Sound(task[s]) /\ LastItemId \in Nat
        /\ task[s].for \in User /\ Wrapping(s) \in Where
        /\ {"hand", "wrapped"} \subseteq Where /\ {"box", "teleporter"} \subseteq Kind
    BY TaskSound, LastItemIdNat DEF TypeOK, TaskState, Wrapping, Where, Kind
  <2>1. CASE InsertBox(s)
    <3>1. NewRow(task[s].for, "hand", "box", 0) \in Row
      BY <2>0, NewRowTyped
    <3> QED
      BY <1>0, <2>1, <3>1, InsertTyped DEF InsertBox
  <2>2. CASE InsertItem(s)
    <3>1. task[s].todo \in Seq(Kind) /\ task[s].todo # <<>>
      BY <2>0, <2>2 DEF TaskState, Sound, InsertItem, Pc
    <3>2. Head(task[s].todo) \in Kind
      BY <3>1, HeadTailProperties
    <3>3. NewRow(task[s].for, Wrapping(s), Head(task[s].todo), 0) \in Row
      BY <2>0, <3>2, NewRowTyped
    <3> QED
      BY <1>0, <2>2, <3>3, InsertTyped DEF InsertItem
  <2>3. CASE HandleTeleporter(s)
    <3>1. NewRow(task[s].for, Wrapping(s), "teleporter", LastItemId) \in Row
      BY <2>0, NewRowTyped
    <3> QED
      BY <1>0, <2>3, <3>1, InsertTyped DEF HandleTeleporter
  <2>4. CASE HandleMarked(s)
    BY <1>0, <2>4 DEF HandleMarked, Rows, Row
  <2>5. CASE LinkTeleporters(s)
    BY <1>0, <2>0, <2>5 DEF LinkTeleporters, Rows, Row
  <2>6. ASSUME ~InsertBox(s), ~InsertItem(s), ~HandleTeleporter(s), ~HandleMarked(s),
               ~LinkTeleporters(s)
        PROVE  UNCHANGED <<furn, serial>>
    BY <1>2, <2>6 DEF Shop, Purchase, BoxId, Pay, HandlePlain, Wrap, BuyTickets,
                     AddTickets, goods
  <2> QED
    BY <1>1, <2>1, <2>2, <2>3, <2>4, <2>5, <2>6
<1>3. ASSUME NEW s \in Session, Redeem(s)
      PROVE  Rows'
  <2>1. CASE Melt(s)
    BY <1>0, <2>1, DeleteTyped DEF Melt
  <2>2. CASE Burst(s)
    BY <1>0, <2>2, DeleteTyped DEF Burst
  <2>3. ASSUME NEW i \in DOMAIN furn, Unpack(s, i)
        PROVE  Rows'
    BY <1>0, <2>3, PutTyped DEF Unpack, Where
  <2>4. ASSUME ~Melt(s), ~Burst(s), \A i \in DOMAIN furn : ~Unpack(s, i)
        PROVE  UNCHANGED <<furn, serial>>
    BY <1>3, <2>4 DEF Redeem, FindVoucher, RedeemCredit, OpenPresent, DeleteVoucher,
                     ReadCredits, WriteCredits, Shred, goods
  <2> QED
    BY <1>1, <2>1, <2>2, <2>3, <2>4
<1>4. ASSUME NEW s \in Session, Recycle(s)
      PROVE  Rows'
  <2>1. CASE MoveItem(s)
    BY <1>0, <2>1, PutTyped DEF MoveItem, Where
  <2>2. CASE RewardSession(s)
    <3>1. NewRow(Account[s], "hand", "reward", 0) \in Row
      BY EconomyAssumption, NewRowTyped DEF Where, Kind
    <3> QED
      BY <1>0, <2>2, <3>1, InsertTyped DEF RewardSession
  <2>3. CASE DropItems(s)
    BY <1>0, <2>3, PutTyped, DeleteTyped DEF DropItems, Where
  <2>4. ASSUME ~MoveItem(s), ~RewardSession(s), ~DropItems(s)
        PROVE  UNCHANGED <<furn, serial>>
    BY <1>4, <2>4 DEF Recycle, RecyclerProceed, FindItem, RedeemOrCancel,
                     CreateSession, BadItem, DropSession, goods
  <2> QED
    BY <1>1, <2>1, <2>2, <2>3, <2>4
<1>5. ASSUME NEW i \in DOMAIN furn, NEW w \in Where, NEW v \in User, MoveAbout(i, w, v)
      PROVE  Rows'
  <2>1. furn' = [furn EXCEPT ![i] = [furn[i] EXCEPT !.at = w, !.owner = v]]
    BY <1>0, <1>5 DEF MoveAbout, Rows
  <2>2. [furn[i] EXCEPT !.at = w, !.owner = v] \in Row
    BY <1>0 DEF Rows, Row
  <2> QED
    BY <1>0, <1>5, <2>1, <2>2 DEF MoveAbout, Rows
<1>6. ASSUME NEW s \in Session, Fail(s)
      PROVE  Rows'
  BY <1>1, <1>6 DEF Fail, goods
<1>7. ASSUME NEW u \in User, TimePasses(u)
      PROVE  Rows'
  BY <1>1, <1>7 DEF TimePasses, goods
<1> QED
  BY <1>1, <1>2, <1>3, <1>4, <1>5, <1>6, <1>7 DEF Next, vars, goods

-----------------------------------------------------------------------------
\* Everything but the furniture and the locals is well typed.
Others ==
  /\ credits \in [User -> Nat] /\ tickets \in [User -> Nat]
  /\ vouchers \subseteq Voucher /\ presents \subseteq Nat \X Nat
  /\ recycler \in [User -> {"none", "new", "ready", "expired"}]
  /\ paid \subseteq User
  /\ {stale, crossed, interrupted, muddled} \subseteq BOOLEAN

\* The rest keeps its types in every step; a price is never more than what was read.
LEMMA OthersStep ==
  ASSUME TypeOK, Able, [Next]_vars
  PROVE  Others'
<1>0. Others
  BY DEF TypeOK, Others
<1>1. ASSUME NEW s \in Session, Shop(s)
      PROVE  Others'
  <2>0. /\ task[s] \in TaskState /\ Sound(task[s]) /\ LastItemId \in Nat
        /\ Account[s] \in User
    BY TaskSound, LastItemIdNat, EconomyAssumption DEF TypeOK
  <2>1. CASE Pay(s)
    <3>1. task[s].read - task[s].price \in Nat
      BY <2>0, <2>1 DEF TaskState, Sound, Pay, Pc
    <3> QED
      BY <1>0, <2>1, <3>1 DEF Pay, Others, goods
  <2>2. CASE Wrap(s)
    <3>1. {task[s].box, task[s].one, task[s].mine} \subseteq Nat
      BY <2>0 DEF TaskState
    <3>2. presents' \subseteq Nat \X Nat
      BY <1>0, <2>0, <2>2, <3>1 DEF Wrap, Others
    <3>3. crossed' \in BOOLEAN
      BY <1>0, <2>2 DEF Wrap, Crosses, Others
    <3> QED
      BY <1>0, <2>2, <3>2, <3>3 DEF Wrap, Others, money
  <2>3. CASE AddTickets(s)
    <3>1. \A n \in Nat : n + 1 \in Nat
      OBVIOUS
    <3>2. tickets' \in [User -> Nat]
      BY <1>0, <2>3, <3>1 DEF AddTickets, Others
    <3> QED
      BY <1>0, <2>3, <3>2 DEF AddTickets, Others, goods, flags
  <2>4. CASE BoxId(s) \/ HandleMarked(s) \/ HandleTeleporter(s) \/ LinkTeleporters(s)
    <3>1. crossed' \in BOOLEAN
      BY <2>4 DEF BoxId, HandleMarked, HandleTeleporter, LinkTeleporters, Crosses
    <3> QED
      BY <1>0, <2>4, <3>1 DEF BoxId, HandleMarked, HandleTeleporter, LinkTeleporters,
                             Others, money, goods
  <2>5. CASE InsertBox(s) \/ InsertItem(s) \/ HandlePlain(s)
    BY <1>0, <2>5 DEF InsertBox, InsertItem, HandlePlain, Others, money, goods, flags
  <2>6. ASSUME (\E o \in Offer, v \in User, gift \in BOOLEAN : Purchase(s, o, v, gift))
               \/ \E v \in User : BuyTickets(s, v)
        PROVE  Others'
    BY <1>0, <2>6 DEF Purchase, BuyTickets, Others, money, goods, flags
  <2> QED
    BY <1>1, <2>1, <2>2, <2>3, <2>4, <2>5, <2>6 DEF Shop
<1>2. ASSUME NEW s \in Session, Redeem(s)
      PROVE  Others'
  <2>0. task[s] \in TaskState /\ Account[s] \in User
    BY EconomyAssumption DEF TypeOK
  <2>1. CASE WriteCredits(s)
    <3>1. task[s].read + task[s].gain \in Nat
      BY <2>0 DEF TaskState
    <3>2. stale' \in BOOLEAN
      BY <2>1 DEF WriteCredits
    <3> QED
      BY <1>0, <2>1, <3>1, <3>2 DEF WriteCredits, Others, goods
  <2>2. CASE DeleteVoucher(s) \/ Melt(s)
    <3>1. stale' \in BOOLEAN
      BY <2>2 DEF DeleteVoucher, Melt
    <3> QED
      BY <1>0, <2>2, <3>1 DEF DeleteVoucher, Melt, Others, money, goods
  <2>3. ASSUME NEW b \in DOMAIN furn, OpenPresent(s, b)
        PROVE  Others'
    <3>1. interrupted' \in BOOLEAN
      BY <2>3 DEF OpenPresent
    <3> QED
      BY <1>0, <2>3, <3>1 DEF OpenPresent, Others, money, goods
  <2>4. CASE Shred(s)
    BY <1>0, <2>4 DEF Shred, Others, money, flags
  <2>5. CASE ReadCredits(s) \/ Burst(s)
    BY <1>0, <2>5 DEF ReadCredits, Burst, Others, money, goods, flags
  <2>6. ASSUME (\E c \in Voucher : FindVoucher(s, c))
               \/ \E i \in DOMAIN furn : RedeemCredit(s, i) \/ Unpack(s, i)
        PROVE  Others'
    BY <1>0, <2>6 DEF FindVoucher, RedeemCredit, Unpack, Others, money, goods, flags
  <2> QED
    BY <1>2, <2>1, <2>2, <2>3, <2>4, <2>5, <2>6 DEF Redeem
<1>3. ASSUME NEW s \in Session, Recycle(s)
      PROVE  Others'
  <2>0. Account[s] \in User
    BY EconomyAssumption
  <2>1. CASE CreateSession(s)
    BY <1>0, <2>0, <2>1 DEF CreateSession, Others, money, goods
  <2>2. CASE MoveItem(s)
    <3>1. muddled' \in BOOLEAN
      BY <2>2 DEF MoveItem
    <3> QED
      BY <1>0, <2>2, <3>1 DEF MoveItem, Others, money
  <2>3. CASE RewardSession(s)
    BY <1>0, <2>0, <2>3 DEF RewardSession, Others, money
  <2>4. CASE DropSession(s)
    BY <1>0, <2>4 DEF DropSession, Others, money, goods, flags
  <2>5. CASE DropItems(s)
    <3>1. interrupted' \in BOOLEAN
      BY <2>5 DEF DropItems
    <3> QED
      BY <1>0, <2>5, <3>1 DEF DropItems, Others, money
  <2>6. ASSUME (\E n \in 1 .. MaxItems : RecyclerProceed(s, n))
               \/ \E redeem \in BOOLEAN : RedeemOrCancel(s, redeem)
        PROVE  Others'
    <3>1. muddled' \in BOOLEAN
      BY <2>6 DEF RecyclerProceed, RedeemOrCancel, Muddles
    <3> QED
      BY <1>0, <2>6, <3>1 DEF RecyclerProceed, RedeemOrCancel, Others, money, goods
  <2>7. ASSUME BadItem(s) \/ \E i \in DOMAIN furn : FindItem(s, i)
        PROVE  Others'
    BY <1>0, <2>7 DEF BadItem, FindItem, Others, money, goods, flags
  <2> QED
    BY <1>3, <2>1, <2>2, <2>3, <2>4, <2>5, <2>6, <2>7 DEF Recycle
<1>4. ASSUME NEW s \in Session, Fail(s)
      PROVE  Others'
  <2>1. interrupted' \in BOOLEAN /\ muddled' \in BOOLEAN
    BY <1>4 DEF Fail
  <2> QED
    BY <1>0, <1>4, <2>1 DEF Fail, Others, money, goods
<1>5. ASSUME NEW u \in User, TimePasses(u)
      PROVE  Others'
  BY <1>0, <1>5 DEF TimePasses, Others, money, goods, flags
<1>6. ASSUME NEW i \in DOMAIN furn, NEW w \in Where, NEW v \in User, MoveAbout(i, w, v)
      PROVE  Others'
  BY <1>0, <1>6 DEF MoveAbout, Others, money, flags
<1>7. CASE UNCHANGED vars
  BY <1>0, <1>7 DEF Others, vars, money, goods, flags
<1> QED
  BY <1>1, <1>2, <1>3, <1>4, <1>5, <1>6, <1>7 DEF Next

LEMMA TypeStep ==
  ASSUME TypeOK, Able, [Next]_vars
  PROVE  TypeOK' /\ Able'
  BY TaskStep, RowsStep, OthersStep DEF TypeOK, Rows, Others

\* In every behaviour the tables and the locals keep their types: no amount of
\* credits is ever written that is below zero.
THEOREM TypeCorrect == Spec => []TypeOK
<1>1. Init => TypeOK /\ Able
  BY TypeInit
<1>2. TypeOK /\ Able /\ [Next]_vars => (TypeOK /\ Able)'
  BY TypeStep
<1> QED
  BY <1>1, <1>2, PTL DEF Spec

-----------------------------------------------------------------------------
\* The recycler's books.  While nothing is muddled, one session of a user at most is
\* in the recycler, and one that takes items there has a session that is not rewarded.
OneRecycles ==
  \A s, t \in Session :
    Account[s] = Account[t] /\ Pc(s) \in RecyclerPC /\ Pc(t) \in RecyclerPC => s = t
TakesForSession ==
  \A s \in Session :
    Pc(s) \in {"take", "move"} => recycler[Account[s]] # "none" /\ Account[s] \notin paid
Books == ~muddled => OneRecycles /\ TakesForSession /\ RecyclerHolds

\* A step outside the recycler leaves its books alone, enters it nowhere, and puts
\* nothing into it.
Apart ==
  /\ UNCHANGED <<recycler, paid>> /\ (muddled => muddled')
  /\ \A t \in Session : Pc(t)' = Pc(t) \/ {Pc(t), Pc(t)'} \cap RecyclerPC = {}
  /\ \A u \in User : OwnedBy(u, "recycler")' \subseteq OwnedBy(u, "recycler")

LEMMA ApartKeepsBooks ==
  ASSUME TypeOK, Books, Apart
  PROVE  Books'
<1> SUFFICES ASSUME ~muddled' PROVE OneRecycles' /\ TakesForSession' /\ RecyclerHolds'
  BY DEF Books
<1>1. ~muddled /\ OneRecycles /\ TakesForSession /\ RecyclerHolds
  BY DEF Books, Apart
<1>2. \A t \in Session : Pc(t) \in RecyclerPC \/ Pc(t)' \in RecyclerPC => Pc(t)' = Pc(t)
  BY DEF Apart
<1>3. OneRecycles'
  BY <1>1, <1>2 DEF OneRecycles
<1>4. TakesForSession'
  BY <1>1, <1>2 DEF TakesForSession, Apart, RecyclerPC
<1>5. ASSUME NEW u \in User, OwnedBy(u, "recycler")' # {}
      PROVE  \/ recycler'[u] # "none" /\ u \notin paid'
             \/ \E s \in Session : Account[s] = u /\ Pc(s)' \in {"drop", "items"}
  <2>1. OwnedBy(u, "recycler") # {}
    BY <1>5 DEF Apart
  <2>2. \/ recycler[u] # "none" /\ u \notin paid
        \/ \E s \in Session : Account[s] = u /\ Pc(s) \in {"drop", "items"}
    BY <1>1, <2>1 DEF RecyclerHolds
  <2> QED
    BY <1>2, <2>2 DEF Apart, RecyclerPC
<1>6. RecyclerHolds'
  BY <1>5 DEF RecyclerHolds
<1> QED
  BY <1>3, <1>4, <1>6

\* What is neither put into the recycler nor changes hands is not held anew.
LEMMA InsertHoldsNothing ==
  ASSUME Rows, NEW u \in User, NEW w \in {"hand", "wrapped"}, NEW k, NEW p, NEW v,
         Insert(NewRow(v, w, k, p))
  PROVE  OwnedBy(u, "recycler")' \subseteq OwnedBy(u, "recycler")
  BY DEF Insert, NewRow, OwnedBy, Rows

LEMMA PutHoldsNothing ==
  ASSUME Rows, NEW u \in User, NEW S, NEW w, Put(S, w), w # "recycler"
  PROVE  OwnedBy(u, "recycler")' \subseteq OwnedBy(u, "recycler")
  BY DEF Put, OwnedBy, Rows, Row

LEMMA DeleteHoldsNothing ==
  ASSUME Rows, NEW u \in User, NEW S, Delete(S)
  PROVE  OwnedBy(u, "recycler")' \subseteq OwnedBy(u, "recycler")
  BY DEF Delete, OwnedBy, Rows

\* A session that goes to another step, and the others, which stay.
LEMMA PcOfGoto ==
  ASSUME TypeOK, NEW s \in Session, NEW p, Goto(s, p)
  PROVE  Pc(s)' = p /\ \A t \in Session \ {s} : Pc(t)' = Pc(t)
  BY DEF Goto, TypeOK, TaskState, Pc

LEMMA PcOfRest ==
  ASSUME TypeOK, NEW s \in Session, Rest(s)
  PROVE  Pc(s)' = "ready" /\ \A t \in Session \ {s} : Pc(t)' = Pc(t)
  BY DEF Rest, AtRest, TypeOK, Pc

LEMMA PcOfProceed ==
  ASSUME TypeOK, NEW s \in Session, Proceed(s)
  PROVE  Pc(s)' \in {"ready", "insert"} /\ \A t \in Session \ {s} : Pc(t)' = Pc(t)
  BY DEF Proceed, AtRest, TypeOK, TaskState, Pc

\* Purchases, redeeming and presents are apart from the recycler.
Outside(s) ==
  /\ {Pc(s), Pc(s)'} \cap RecyclerPC = {}
  /\ \A t \in Session \ {s} : Pc(t)' = Pc(t)

LEMMA PcOfTask ==
  ASSUME TypeOK, NEW s \in Session, NEW t, task' = [task EXCEPT ![s] = t]
  PROVE  Pc(s)' = t.pc /\ \A r \in Session \ {s} : Pc(r)' = Pc(r)
  BY DEF TypeOK, Pc

LEMMA ShopOutside ==
  ASSUME TypeOK, NEW s \in Session, Shop(s)
  PROVE  Outside(s)
<1> USE DEF RecyclerPC, Outside
<1>0. task[s] \in TaskState
  BY DEF TypeOK
<1>1. ASSUME NEW o \in Offer, NEW v \in User, NEW gift \in BOOLEAN, Purchase(s, o, v, gift)
      PROVE  Outside(s)
  BY <1>1 DEF Purchase, TypeOK, TaskState, Pc
<1>2. CASE InsertBox(s)
  <2> DEFINE t == [task[s] EXCEPT !.pc = "boxid", !.mine = serial + 1]
  <2>1. task' = [task EXCEPT ![s] = t] /\ t.pc = "boxid"
    BY <1>0, <1>2 DEF InsertBox, TypeOK, TaskState
  <2> QED
    BY <1>2, <2>1, PcOfTask DEF InsertBox
<1>3. CASE BoxId(s)
  <2> DEFINE t == [task[s] EXCEPT !.pc = "pay", !.box = LastItemId]
  <2>1. task' = [task EXCEPT ![s] = t] /\ t.pc = "pay"
    BY <1>0, <1>3 DEF BoxId, TypeOK, TaskState
  <2> QED
    BY <1>3, <2>1, PcOfTask DEF BoxId
<1>4. CASE InsertItem(s)
  <2> DEFINE t == [task[s] EXCEPT !.pc = "handle", !.mine = serial + 1]
  <2>1. task' = [task EXCEPT ![s] = t] /\ t.pc = "handle"
    BY <1>0, <1>4 DEF InsertItem, TypeOK, TaskState
  <2> QED
    BY <1>4, <2>1, PcOfTask DEF InsertItem
<1>5. CASE Pay(s)
  <2>1. PICK p \in {"tickets", "insert"} : Goto(s, p)
    BY <1>5 DEF Pay
  <2> QED
    BY <1>5, <2>1, PcOfGoto DEF Pay
<1>6. CASE HandleMarked(s) \/ HandlePlain(s)
  <2>1. Pc(s) = "handle" /\ (Goto(s, "wrap") \/ Proceed(s))
    BY <1>6 DEF HandleMarked, HandlePlain, WrapOrProceed
  <2> QED
    BY <2>1, PcOfGoto, PcOfProceed
<1>7. CASE HandleTeleporter(s)
  <2> DEFINE t == [task[s] EXCEPT !.pc = "link", !.one = LastItemId, !.mine = serial + 1]
  <2>1. task' = [task EXCEPT ![s] = t] /\ t.pc = "link"
    BY <1>0, <1>7 DEF HandleTeleporter, TypeOK, TaskState
  <2> QED
    BY <1>7, <2>1, PcOfTask DEF HandleTeleporter
<1>8. CASE LinkTeleporters(s)
  <2> DEFINE t == [task[s] EXCEPT !.pc = "wrap", !.mine = LastItemId]
  <2>1. Pc(s) = "link" /\ (task' = [task EXCEPT ![s] = t] \/ Proceed(s))
    BY <1>8 DEF LinkTeleporters, TypeOK
  <2>2. t.pc = "wrap"
    BY <1>0 DEF TaskState
  <2> QED
    BY <2>1, <2>2, PcOfTask, PcOfProceed
<1>9. CASE Wrap(s)
  BY <1>9, PcOfProceed DEF Wrap
<1>10. ASSUME NEW v \in User, BuyTickets(s, v)
      PROVE  Outside(s)
  BY <1>10 DEF BuyTickets, TypeOK, TaskState, Pc
<1>11. CASE AddTickets(s)
  BY <1>11, PcOfRest DEF AddTickets
<1> QED
  BY <1>1, <1>2, <1>3, <1>4, <1>5, <1>6, <1>7, <1>8, <1>9, <1>10, <1>11 DEF Shop

LEMMA RedeemOutside ==
  ASSUME TypeOK, NEW s \in Session, Redeem(s)
  PROVE  Outside(s)
<1> USE DEF RecyclerPC, Outside
<1>0. task[s] \in TaskState
  BY DEF TypeOK
<1>1. ASSUME NEW c \in Voucher, FindVoucher(s, c)
      PROVE  Outside(s)
  BY <1>1 DEF FindVoucher, TypeOK, TaskState, Pc
<1>2. ASSUME NEW i \in DOMAIN furn, RedeemCredit(s, i)
      PROVE  Outside(s)
  BY <1>2 DEF RedeemCredit, TypeOK, TaskState, Pc
<1>3. ASSUME NEW b \in DOMAIN furn, OpenPresent(s, b)
      PROVE  Outside(s)
  <2> DEFINE t == [task[s] EXCEPT !.pc = "unpack", !.box = b,
                     !.things = {i \in DOMAIN furn : <<b, i>> \in presents}]
  <2>1. task' = [task EXCEPT ![s] = t] /\ t.pc = "unpack"
    BY <1>0, <1>3 DEF OpenPresent, TypeOK, TaskState
  <2> QED
    BY <1>3, <2>1, PcOfTask DEF OpenPresent
<1>4. ASSUME NEW i \in DOMAIN furn, Unpack(s, i)
      PROVE  Outside(s)
  <2> DEFINE t == [task[s] EXCEPT !.things = task[s].things \ {i}]
  <2>1. task' = [task EXCEPT ![s] = t] /\ t.pc = Pc(s)
    BY <1>0, <1>4 DEF Unpack, TypeOK, TaskState, Pc
  <2> QED
    BY <1>4, <2>1, PcOfTask DEF Unpack
<1>5. CASE DeleteVoucher(s) \/ Melt(s) \/ Burst(s)
  BY <1>5, PcOfGoto DEF DeleteVoucher, Melt, Burst
<1>6. CASE ReadCredits(s)
  BY <1>6 DEF ReadCredits, TypeOK, TaskState, Pc
<1>7. CASE WriteCredits(s) \/ Shred(s)
  BY <1>7, PcOfRest DEF WriteCredits, Shred
<1> QED
  BY <1>1, <1>2, <1>3, <1>4, <1>5, <1>6, <1>7 DEF Redeem

LEMMA ShopApart ==
  ASSUME TypeOK, NEW s \in Session, Shop(s)
  PROVE  Apart
<1>0. Rows /\ Wrapping(s) \in {"hand", "wrapped"}
  BY DEF TypeOK, Rows, Wrapping
<1>1. UNCHANGED <<recycler, paid>> /\ UNCHANGED muddled
  BY DEF Shop, Purchase, InsertBox, BoxId, Pay, InsertItem, HandleMarked, HandlePlain,
         HandleTeleporter, LinkTeleporters, Wrap, BuyTickets, AddTickets, flags
<1>2. ASSUME NEW u \in User
      PROVE  OwnedBy(u, "recycler")' \subseteq OwnedBy(u, "recycler")
  <2>1. CASE InsertBox(s) \/ InsertItem(s) \/ HandleTeleporter(s)
    BY <1>0, <2>1, InsertHoldsNothing DEF InsertBox, InsertItem, HandleTeleporter
  <2>2. CASE HandleMarked(s)
    BY <1>0, <2>2 DEF HandleMarked, OwnedBy, Rows, Row
  <2>3. CASE LinkTeleporters(s)
    BY <1>0, <2>3 DEF LinkTeleporters, OwnedBy, Rows, Row
  <2>4. ASSUME ~InsertBox(s), ~InsertItem(s), ~HandleTeleporter(s), ~HandleMarked(s),
               ~LinkTeleporters(s)
        PROVE  UNCHANGED furn
    BY <2>4 DEF Shop, Purchase, BoxId, Pay, HandlePlain, Wrap, BuyTickets, AddTickets,
                goods
  <2> QED
    BY <2>1, <2>2, <2>3, <2>4 DEF OwnedBy
<1> QED
  BY <1>1, <1>2, ShopOutside DEF Apart, Outside

LEMMA RedeemApart ==
  ASSUME TypeOK, NEW s \in Session, Redeem(s)
  PROVE  Apart
<1>0. Rows
  BY DEF TypeOK, Rows
<1>1. UNCHANGED <<recycler, paid>> /\ UNCHANGED muddled
  BY DEF Redeem, FindVoucher, RedeemCredit, OpenPresent, Unpack, DeleteVoucher, Melt,
         ReadCredits, WriteCredits, Burst, Shred, flags
<1>2. ASSUME NEW u \in User
      PROVE  OwnedBy(u, "recycler")' \subseteq OwnedBy(u, "recycler")
  <2>1. CASE Melt(s) \/ Burst(s)
    BY <1>0, <2>1, DeleteHoldsNothing DEF Melt, Burst
  <2>2. ASSUME NEW i \in DOMAIN furn, Unpack(s, i)
        PROVE  OwnedBy(u, "recycler")' \subseteq OwnedBy(u, "recycler")
    BY <1>0, <2>2, PutHoldsNothing DEF Unpack
  <2>3. ASSUME ~Melt(s), ~Burst(s), \A i \in DOMAIN furn : ~Unpack(s, i)
        PROVE  UNCHANGED furn
    BY <2>3 DEF Redeem, FindVoucher, RedeemCredit, OpenPresent, DeleteVoucher,
                ReadCredits, WriteCredits, Shred, goods
  <2> QED
    BY <2>1, <2>2, <2>3 DEF OwnedBy
<1> QED
  BY <1>1, <1>2, RedeemOutside DEF Apart, Outside

LEMMA MoveAboutApart ==
  ASSUME TypeOK, NEW i \in DOMAIN furn, NEW w \in Where, NEW v \in User,
         MoveAbout(i, w, v)
  PROVE  Apart
<1>1. ASSUME NEW u \in User
      PROVE  OwnedBy(u, "recycler")' \subseteq OwnedBy(u, "recycler")
  <2>1. w # "recycler"
    BY DEF MoveAbout
  <2>2. furn' = [furn EXCEPT ![i] = [furn[i] EXCEPT !.at = w, !.owner = v]]
    BY DEF MoveAbout, TypeOK
  <2>3. furn'[i].at = w /\ \A j \in DOMAIN furn \ {i} : furn'[j] = furn[j]
    BY <2>2 DEF TypeOK, Row
  <2> QED
    BY <2>1, <2>2, <2>3 DEF OwnedBy
<1>2. UNCHANGED <<recycler, paid, muddled, task>>
  BY DEF MoveAbout, flags
<1> QED
  BY <1>1, <1>2 DEF Apart, Pc

-----------------------------------------------------------------------------
\* The steps of the recycler keep its books, each for its own reason.
LEMMA RecycleBooks ==
  ASSUME TypeOK, Books, NEW s \in Session, Recycle(s)
  PROVE  Books'
<1> DEFINE u == Account[s]
<1> SUFFICES ASSUME ~muddled' PROVE OneRecycles' /\ TakesForSession' /\ RecyclerHolds'
  BY DEF Books
<1>0. u \in User /\ task[s] \in TaskState /\ Rows
  BY EconomyAssumption DEF TypeOK, Rows
<1>1. ~muddled
  BY DEF Recycle, RecyclerProceed, FindItem, RedeemOrCancel, CreateSession, MoveItem,
         BadItem, RewardSession, DropSession, DropItems, Muddles, flags
<1>2. OneRecycles /\ TakesForSession /\ RecyclerHolds
  BY <1>1 DEF Books
<1> HIDE DEF u
\* A session enters the recycler when no other of its user is in it.
<1>3. ASSUME NEW p \in {"open", "reward", "drop"}, Pc(s) = "ready", Pc(s)' = p,
             \A t \in Session \ {s} : Pc(t)' = Pc(t), Muddles(s),
             UNCHANGED <<furn, recycler, paid>>
      PROVE  OneRecycles' /\ TakesForSession' /\ RecyclerHolds'
  <2>1. \A t \in Session \ {s} : Account[t] = Account[s] => Pc(t) \notin RecyclerPC
    BY <1>3 DEF Muddles, OthersOf
  <2>2. OneRecycles'
    BY <1>2, <1>3, <2>1 DEF OneRecycles
  <2>3. TakesForSession'
    BY <1>2, <1>3 DEF TakesForSession
  <2>4. RecyclerHolds'
    BY <1>1, <1>2, <1>3 DEF RecyclerHolds, OwnedBy
  <2> QED
    BY <2>2, <2>3, <2>4
<1>4. ASSUME NEW n \in 1 .. MaxItems, RecyclerProceed(s, n)
      PROVE  OneRecycles' /\ TakesForSession' /\ RecyclerHolds'
  <2> DEFINE t == [task[s] EXCEPT !.pc = "open", !.left = n]
  <2>1. task' = [task EXCEPT ![s] = t] /\ t.pc = "open"
    BY <1>0, <1>4 DEF RecyclerProceed, TypeOK, TaskState
  <2>2. Pc(s)' = "open" /\ \A r \in Session \ {s} : Pc(r)' = Pc(r)
    BY <2>1, PcOfTask
  <2> QED
    BY <1>3, <1>4, <2>2 DEF RecyclerProceed, goods
<1>5. ASSUME NEW redeem \in BOOLEAN, RedeemOrCancel(s, redeem)
      PROVE  OneRecycles' /\ TakesForSession' /\ RecyclerHolds'
  <2> DEFINE p == IF redeem /\ recycler[u] = "ready" THEN "reward" ELSE "drop"
             t == [task[s] EXCEPT !.keep = ~redeem, !.pc = p]
  <2>1. p \in {"reward", "drop"}
    OBVIOUS
  <2>2. task' = [task EXCEPT ![s] = t] /\ t.pc = p
    BY <1>0, <1>5 DEF RedeemOrCancel, TypeOK, TaskState, u
  <2> HIDE DEF p
  <2>3. Pc(s)' = p /\ \A r \in Session \ {s} : Pc(r)' = Pc(r)
    BY <2>2, PcOfTask
  <2> QED
    BY <1>3, <1>5, <2>1, <2>3 DEF RedeemOrCancel, goods
\* Inside the recycler a session stays the only one of its user.
<1>6. ASSUME Pc(s) \in RecyclerPC, \A t \in Session \ {s} : Pc(t)' = Pc(t)
      PROVE  /\ OneRecycles'
             /\ \A t \in Session \ {s} : Pc(t)' \in RecyclerPC => Account[t] # u
  BY <1>2, <1>6 DEF OneRecycles, u
<1>7. CASE CreateSession(s)
  <2>1. Pc(s) = "open" /\ Pc(s)' = "take" /\ \A t \in Session \ {s} : Pc(t)' = Pc(t)
    BY <1>7, PcOfGoto DEF CreateSession
  <2>2. /\ recycler'[u] = "new" /\ u \notin paid' /\ paid' \subseteq paid
        /\ \A v \in User \ {u} : recycler'[v] = recycler[v]
        /\ UNCHANGED furn
    BY <1>0, <1>7 DEF CreateSession, TypeOK, goods, u
  <2>3. OneRecycles'
    BY <1>6, <2>1 DEF RecyclerPC
  <2>4. TakesForSession'
    BY <1>2, <2>1, <2>2, EconomyAssumption DEF TakesForSession, u
  <2>5. RecyclerHolds'
    BY <1>1, <1>2, <2>1, <2>2 DEF RecyclerHolds, OwnedBy
  <2> QED
    BY <2>3, <2>4, <2>5
<1>8. ASSUME NEW i \in DOMAIN furn, FindItem(s, i)
      PROVE  OneRecycles' /\ TakesForSession' /\ RecyclerHolds'
  <2> DEFINE t == [task[s] EXCEPT !.pc = "move", !.one = i]
  <2>1. task' = [task EXCEPT ![s] = t] /\ t.pc = "move"
    BY <1>0, <1>8 DEF FindItem, TypeOK, TaskState
  <2>2. Pc(s)' = "move" /\ \A r \in Session \ {s} : Pc(r)' = Pc(r)
    BY <2>1, PcOfTask
  <2>3. Pc(s) = "take" /\ UNCHANGED <<furn, recycler, paid>>
    BY <1>8 DEF FindItem, goods, flags
  <2>4. OneRecycles'
    BY <1>6, <2>2, <2>3 DEF RecyclerPC
  <2>5. TakesForSession'
    BY <1>2, <2>2, <2>3 DEF TakesForSession
  <2>6. RecyclerHolds'
    BY <1>1, <1>2, <2>2, <2>3 DEF RecyclerHolds, OwnedBy
  <2> QED
    BY <2>4, <2>5, <2>6
\* What is moved was in the user's hand, and the session is there.
<1>9. CASE MoveItem(s)
  <2>0. Pc(s) = "move" /\ UNCHANGED <<recycler, paid>>
    BY <1>9 DEF MoveItem
  <2>1. Pc(s)' \in {"ready", "take"} /\ \A r \in Session \ {s} : Pc(r)' = Pc(r)
    <3>1. CASE Rest(s)
      BY <3>1, PcOfRest
    <3>2. CASE ~Rest(s)
      <4> DEFINE t == [task[s] EXCEPT !.pc = "take", !.left = task[s].left - 1]
      <4>1. task' = [task EXCEPT ![s] = t] /\ t.pc = "take"
        BY <1>0, <1>9, <3>2 DEF MoveItem, TypeOK, TaskState
      <4> QED
        BY <4>1, PcOfTask
    <3> QED
      BY <3>1, <3>2
  <2>2. OneRecycles'
    BY <1>6, <2>0, <2>1 DEF RecyclerPC
  <2>3. TakesForSession'
    BY <1>2, <2>0, <2>1 DEF TakesForSession
  <2>4. recycler[u] # "none" /\ u \notin paid
    BY <1>2, <2>0 DEF TakesForSession, u
  <2>5. \A v \in User \ {u} : OwnedBy(v, "recycler")' \subseteq OwnedBy(v, "recycler")
    <3>1. furn[task[s].one].owner = u
      BY <1>9 DEF MoveItem, u
    <3> QED
      BY <1>0, <1>9, <3>1 DEF MoveItem, Put, OwnedBy, Rows, Row
  <2>6. ASSUME NEW v \in User, OwnedBy(v, "recycler")' # {}
        PROVE  \/ recycler'[v] # "none" /\ v \notin paid'
               \/ \E t \in Session : Account[t] = v /\ Pc(t)' \in {"drop", "items"}
    <3>1. CASE v = u
      BY <2>0, <2>4, <3>1
    <3>2. CASE v # u
      <4>1. OwnedBy(v, "recycler") # {}
        BY <2>5, <2>6, <3>2
      <4> QED
        BY <1>1, <1>2, <2>0, <2>1, <4>1 DEF RecyclerHolds
    <3> QED
      BY <3>1, <3>2
  <2>7. RecyclerHolds'
    BY <2>6 DEF RecyclerHolds
  <2> QED
    BY <2>2, <2>3, <2>7
<1>10. CASE BadItem(s)
  <2>1. /\ Pc(s) = "take" /\ Pc(s)' = "drop" /\ \A t \in Session \ {s} : Pc(t)' = Pc(t)
        /\ UNCHANGED <<furn, recycler, paid>>
    BY <1>10, PcOfGoto DEF BadItem, goods, flags
  <2>2. OneRecycles'
    BY <1>6, <2>1 DEF RecyclerPC
  <2>3. TakesForSession'
    BY <1>2, <2>1 DEF TakesForSession
  <2>4. RecyclerHolds'
    BY <1>1, <1>2, <2>1 DEF RecyclerHolds, OwnedBy
  <2> QED
    BY <2>2, <2>3, <2>4
\* Who is rewarded drops the session at once.
<1>11. CASE RewardSession(s)
  <2>1. /\ Pc(s) = "reward" /\ Pc(s)' = "drop" /\ \A t \in Session \ {s} : Pc(t)' = Pc(t)
        /\ UNCHANGED recycler /\ paid' = paid \cup {u}
    BY <1>11, PcOfGoto DEF RewardSession, u
  <2>2. OneRecycles' /\ \A t \in Session \ {s} : Pc(t)' \in RecyclerPC => Account[t] # u
    BY <1>6, <2>1 DEF RecyclerPC
  <2>3. TakesForSession'
    BY <1>2, <2>1, <2>2 DEF TakesForSession, RecyclerPC
  <2>4. \A v \in User : OwnedBy(v, "recycler")' \subseteq OwnedBy(v, "recycler")
    BY <1>0, <1>11, InsertHoldsNothing DEF RewardSession
  <2>5. ASSUME NEW v \in User, OwnedBy(v, "recycler")' # {}
        PROVE  \/ recycler'[v] # "none" /\ v \notin paid'
               \/ \E t \in Session : Account[t] = v /\ Pc(t)' \in {"drop", "items"}
    <3>1. CASE v = u
      BY <2>1, <3>1 DEF u
    <3>2. CASE v # u
      <4>1. OwnedBy(v, "recycler") # {}
        BY <2>4, <2>5
      <4> QED
        BY <1>1, <1>2, <2>1, <3>2, <4>1 DEF RecyclerHolds
    <3> QED
      BY <3>1, <3>2
  <2>6. RecyclerHolds'
    BY <2>5 DEF RecyclerHolds
  <2> QED
    BY <2>2, <2>3, <2>6
<1>12. CASE DropSession(s)
  <2>1. /\ Pc(s) = "drop" /\ Pc(s)' = "items" /\ \A t \in Session \ {s} : Pc(t)' = Pc(t)
        /\ UNCHANGED <<furn, paid>>
        /\ \A v \in User \ {u} : recycler'[v] = recycler[v]
    BY <1>0, <1>12, PcOfGoto DEF DropSession, goods, flags, TypeOK, u
  <2>2. OneRecycles' /\ \A t \in Session \ {s} : Pc(t)' \in RecyclerPC => Account[t] # u
    BY <1>6, <2>1 DEF RecyclerPC
  <2>3. TakesForSession'
    BY <1>2, <2>1, <2>2, EconomyAssumption DEF TakesForSession, RecyclerPC
  <2>4. RecyclerHolds'
    BY <1>1, <1>2, <2>1 DEF RecyclerHolds, OwnedBy, u
  <2> QED
    BY <2>2, <2>3, <2>4
\* After the items are dropped nothing of the user's is held.
<1>13. CASE DropItems(s)
  <2>1. /\ Pc(s) = "items" /\ Pc(s)' = "ready" /\ \A t \in Session \ {s} : Pc(t)' = Pc(t)
        /\ UNCHANGED <<recycler, paid>>
    BY <1>13, PcOfRest DEF DropItems
  <2>2. OneRecycles'
    BY <1>6, <2>1 DEF RecyclerPC
  <2>3. TakesForSession'
    BY <1>2, <2>1 DEF TakesForSession
  <2>4. OwnedBy(u, "recycler")' = {}
    <3>1. CASE Put(OwnedBy(u, "recycler"), "hand")
      BY <1>0, <3>1 DEF Put, OwnedBy, Rows, Row
    <3>2. CASE Delete(OwnedBy(u, "recycler"))
      BY <3>2 DEF Delete, OwnedBy
    <3> QED
      BY <1>13, <3>1, <3>2 DEF DropItems, u
  <2>5. \A v \in User : OwnedBy(v, "recycler")' \subseteq OwnedBy(v, "recycler")
    BY <1>0, <1>13, PutHoldsNothing, DeleteHoldsNothing DEF DropItems
  <2>6. ASSUME NEW v \in User, OwnedBy(v, "recycler")' # {}
        PROVE  \/ recycler'[v] # "none" /\ v \notin paid'
               \/ \E t \in Session : Account[t] = v /\ Pc(t)' \in {"drop", "items"}
    <3>1. v # u /\ OwnedBy(v, "recycler") # {}
      BY <2>4, <2>5, <2>6
    <3> QED
      BY <1>1, <1>2, <2>1, <3>1 DEF RecyclerHolds, u
  <2>7. RecyclerHolds'
    BY <2>6 DEF RecyclerHolds
  <2> QED
    BY <2>2, <2>3, <2>7
<1> QED
  BY <1>4, <1>5, <1>7, <1>8, <1>9, <1>10, <1>11, <1>12, <1>13 DEF Recycle

\* Time turns a session into a ready and an expired one, never into none; a packet
\* that fails in the recycler muddles it.
LEMMA BooksStep ==
  ASSUME TypeOK, Books, [Next]_vars
  PROVE  Books'
<1>1. ASSUME NEW u \in User, TimePasses(u)
      PROVE  Books'
  <2>1. \A v \in User : recycler[v] # "none" => recycler'[v] # "none"
    BY <1>1 DEF TimePasses, TypeOK
  <2>2. UNCHANGED <<furn, task, paid, muddled>>
    BY <1>1 DEF TimePasses, goods, flags
  <2>3. OneRecycles => OneRecycles'
    BY <2>2 DEF OneRecycles, Pc
  <2>4. TakesForSession => TakesForSession'
    BY <2>1, <2>2, EconomyAssumption DEF TakesForSession, Pc
  <2>5. RecyclerHolds => RecyclerHolds'
    BY <2>1, <2>2 DEF RecyclerHolds, OwnedBy, Pc
  <2> QED
    BY <2>2, <2>3, <2>4, <2>5 DEF Books
<1>2. ASSUME NEW s \in Session, Fail(s)
      PROVE  Books'
  <2>1. CASE Pc(s) \in RecyclerPC
    BY <1>2, <2>1 DEF Fail, Books
  <2>2. CASE Pc(s) \notin RecyclerPC
    <3>1. Pc(s)' = "ready" /\ \A t \in Session \ {s} : Pc(t)' = Pc(t)
      BY <1>2, PcOfRest DEF Fail
    <3>2. UNCHANGED <<furn, recycler, paid>> /\ (muddled => muddled')
      BY <1>2 DEF Fail, goods
    <3>3. Apart
      BY <2>2, <3>1, <3>2 DEF Apart, OwnedBy, RecyclerPC
    <3> QED
      BY <3>3, ApartKeepsBooks
  <2> QED
    BY <2>1, <2>2
<1>3. CASE UNCHANGED vars
  <2>1. Apart
    BY <1>3 DEF vars, goods, flags, Apart, OwnedBy, Pc
  <2> QED
    BY <2>1, ApartKeepsBooks
<1> QED
  BY <1>1, <1>2, <1>3, ApartKeepsBooks, ShopApart, RedeemApart, MoveAboutApart,
     RecycleBooks DEF Next

\* The recycler never holds what was rewarded, nor what no session asks for: for any
\* number of users, sessions and items.
THEOREM RecyclerHoldsForSessions == Spec => []RecyclerHolds
<1>1. Init => TypeOK /\ Able /\ Books
  <2>1. Init => Books
    BY DEF Init, Books, OneRecycles, TakesForSession, RecyclerHolds, OwnedBy, Pc, AtRest,
           RecyclerPC
  <2> QED
    BY <2>1, TypeInit
<1>2. TypeOK /\ Able /\ Books /\ [Next]_vars => (TypeOK /\ Able /\ Books)'
  BY TypeStep, BooksStep
<1>3. Books => RecyclerHolds
  BY DEF Books, RecyclerHolds
<1> QED
  BY <1>1, <1>2, <1>3, PTL DEF Spec
-----------------------------------------------------------------------------
\* What a step does to the locals of one session; the others keep theirs.
Elsewhere(s) == \A r \in Session \ {s} : task'[r] = task[r]
Becomes(s, p, m, o, b) ==
  /\ Elsewhere(s) /\ Pc(s)' = p
  /\ task'[s].mine = m /\ task'[s].one = o /\ task'[s].box = b
  /\ task'[s].gift = task[s].gift /\ task'[s].todo = task[s].todo
Ends(s) == Elsewhere(s) /\ task'[s] = AtRest(s)
NextItem(s) ==
  LET t == task[s] IN
  /\ Elsewhere(s) /\ Pc(s)' = "insert"
  /\ task'[s].mine = t.mine /\ task'[s].one = t.one /\ task'[s].box = t.box
  /\ task'[s].gift = t.gift /\ task'[s].todo = Tail(t.todo)

LEMMA Locals ==
  ASSUME TypeOK, NEW s \in Session, NEW t, task' = [task EXCEPT ![s] = t]
  PROVE  task'[s] = t /\ Elsewhere(s)
  BY DEF TypeOK, Elsewhere

LEMMA GotoBecomes ==
  ASSUME TypeOK, NEW s \in Session, NEW p, Goto(s, p)
  PROVE  Becomes(s, p, task[s].mine, task[s].one, task[s].box)
<1> DEFINE t == [task[s] EXCEPT !.pc = p]
<1>1. task' = [task EXCEPT ![s] = t]
  BY DEF Goto
<1>2. task[s] \in TaskState
  BY DEF TypeOK
<1>3. /\ t.pc = p /\ t.mine = task[s].mine /\ t.one = task[s].one /\ t.box = task[s].box
      /\ t.gift = task[s].gift /\ t.todo = task[s].todo
  BY <1>2 DEF TaskState
<1> QED
  BY <1>1, <1>3, Locals DEF Becomes, Pc

LEMMA RestEnds ==
  ASSUME TypeOK, NEW s \in Session, Rest(s)
  PROVE  Ends(s)
  BY Locals DEF Rest, Ends

LEMMA ProceedEndsOrGoesOn ==
  ASSUME TypeOK, NEW s \in Session, Proceed(s)
  PROVE  Ends(s) \/ NextItem(s)
<1>1. CASE Len(task[s].todo) = 1
  BY <1>1, RestEnds DEF Proceed, Rest
<1>2. CASE Len(task[s].todo) # 1
  <2> DEFINE t == [task[s] EXCEPT !.pc = "insert", !.todo = Tail(task[s].todo)]
  <2>1. task' = [task EXCEPT ![s] = t]
    BY <1>2 DEF Proceed
  <2>2. task[s] \in TaskState
    BY DEF TypeOK
  <2>3. /\ t.pc = "insert" /\ t.mine = task[s].mine /\ t.one = task[s].one
        /\ t.box = task[s].box /\ t.gift = task[s].gift /\ t.todo = Tail(task[s].todo)
    BY <2>2 DEF TaskState
  <2> QED
    BY <2>1, <2>3, Locals DEF NextItem, Pc
<1> QED
  BY <1>1, <1>2

\* The locals after each step of a purchase.
LEMMA AfterPurchase ==
  ASSUME TypeOK, NEW s \in Session, NEW o \in Offer, NEW v \in User, NEW gift \in BOOLEAN,
         Purchase(s, o, v, gift)
  PROVE  /\ Elsewhere(s) /\ Pc(s)' = (IF gift THEN "box" ELSE "pay")
         /\ task'[s].gift = gift /\ task'[s].todo = o.order
         /\ task'[s].mine = task[s].mine /\ task'[s].one = task[s].one
         /\ task'[s].box = task[s].box
<1> DEFINE p == IF gift THEN "box" ELSE "pay"
           t == [task[s] EXCEPT !.pc = p, !.read = credits[Account[s]],
                  !.price = o.price, !.todo = o.order, !.for = v, !.gift = gift]
<1>1. task' = [task EXCEPT ![s] = t]
  BY DEF Purchase
<1>2. task[s] \in TaskState
  BY DEF TypeOK
<1> HIDE DEF p
<1>3. /\ t.pc = p /\ t.mine = task[s].mine /\ t.one = task[s].one /\ t.box = task[s].box
      /\ t.gift = gift /\ t.todo = o.order
  BY <1>2 DEF TaskState
<1>4. task'[s] = t /\ Elsewhere(s)
  BY <1>1, Locals
<1> QED
  BY <1>3, <1>4 DEF Pc, p

LEMMA AfterBuyTickets ==
  ASSUME TypeOK, NEW s \in Session, NEW v \in User, BuyTickets(s, v)
  PROVE  Becomes(s, "pay", task[s].mine, task[s].one, task[s].box)
<1> DEFINE t == [task[s] EXCEPT !.pc = "pay", !.read = credits[Account[s]],
                  !.price = TicketPrice, !.for = v]
<1>1. task' = [task EXCEPT ![s] = t]
  BY DEF BuyTickets
<1>2. task[s] \in TaskState
  BY DEF TypeOK
<1>3. /\ t.pc = "pay" /\ t.mine = task[s].mine /\ t.one = task[s].one
      /\ t.box = task[s].box /\ t.gift = task[s].gift /\ t.todo = task[s].todo
  BY <1>2 DEF TaskState
<1> QED
  BY <1>1, <1>3, Locals DEF Becomes, Pc

\* Two of the locals get new values: the place in the packet and the item at hand, ...
LEMMA AfterInsert ==
  ASSUME TypeOK, NEW s \in Session, NEW p, NEW m,
         task' = [task EXCEPT ![s].pc = p, ![s].mine = m]
  PROVE  Becomes(s, p, m, task[s].one, task[s].box)
<1> DEFINE t == [task[s] EXCEPT !.pc = p, !.mine = m]
<1>1. task[s] \in TaskState
  BY DEF TypeOK
<1>2. task' = [task EXCEPT ![s] = t]
  BY DEF TypeOK
<1>3. /\ t.pc = p /\ t.mine = m /\ t.one = task[s].one
      /\ t.box = task[s].box /\ t.gift = task[s].gift /\ t.todo = task[s].todo
  BY <1>1 DEF TaskState
<1> QED
  BY <1>2, <1>3, Locals DEF Becomes, Pc

\* ... or the box, ...
LEMMA AfterBoxId ==
  ASSUME TypeOK, NEW s \in Session, BoxId(s)
  PROVE  Becomes(s, "pay", task[s].mine, task[s].one, LastItemId)
<1> DEFINE t == [task[s] EXCEPT !.pc = "pay", !.box = LastItemId]
<1>1. task[s] \in TaskState
  BY DEF TypeOK
<1>2. task' = [task EXCEPT ![s] = t]
  BY DEF TypeOK, BoxId
<1>3. /\ t.pc = "pay" /\ t.mine = task[s].mine /\ t.one = task[s].one
      /\ t.box = LastItemId /\ t.gift = task[s].gift /\ t.todo = task[s].todo
  BY <1>1 DEF TaskState
<1> QED
  BY <1>2, <1>3, Locals DEF Becomes, Pc

\* ... or both teleporters of a pair.
LEMMA AfterHandleTeleporter ==
  ASSUME TypeOK, NEW s \in Session, HandleTeleporter(s)
  PROVE  Becomes(s, "link", serial + 1, LastItemId, task[s].box)
<1> DEFINE t == [task[s] EXCEPT !.pc = "link", !.one = LastItemId, !.mine = serial + 1]
<1>1. task[s] \in TaskState
  BY DEF TypeOK
<1>2. task' = [task EXCEPT ![s] = t]
  BY DEF TypeOK, HandleTeleporter
<1>3. /\ t.pc = "link" /\ t.mine = serial + 1 /\ t.one = LastItemId
      /\ t.box = task[s].box /\ t.gift = task[s].gift /\ t.todo = task[s].todo
  BY <1>1 DEF TaskState
<1> QED
  BY <1>2, <1>3, Locals DEF Becomes, Pc

\* What the steps of a purchase do to the locals, all together.
LEMMA ShopLocals ==
  ASSUME TypeOK, NEW s \in Session
  PROVE  LET t == task[s] IN
         /\ InsertBox(s) => Becomes(s, "boxid", serial + 1, t.one, t.box)
         /\ BoxId(s) => Becomes(s, "pay", t.mine, t.one, LastItemId)
         /\ Pay(s) => \E p \in {"tickets", "insert"} : Becomes(s, p, t.mine, t.one, t.box)
         /\ InsertItem(s) => Becomes(s, "handle", serial + 1, t.one, t.box)
         /\ HandleMarked(s) \/ HandlePlain(s) =>
              IF t.gift THEN Becomes(s, "wrap", t.mine, t.one, t.box)
                        ELSE Ends(s) \/ NextItem(s)
         /\ HandleTeleporter(s) => Becomes(s, "link", serial + 1, LastItemId, t.box)
         /\ LinkTeleporters(s) =>
              IF t.gift THEN Becomes(s, "wrap", LastItemId, t.one, t.box)
                        ELSE Ends(s) \/ NextItem(s)
         /\ Wrap(s) => Ends(s) \/ NextItem(s)
         /\ (\E v \in User : BuyTickets(s, v)) => Becomes(s, "pay", t.mine, t.one, t.box)
         /\ AddTickets(s) => Ends(s)
<1> DEFINE t == task[s]
<1>1. ASSUME Pay(s)
      PROVE  \E p \in {"tickets", "insert"} : Becomes(s, p, t.mine, t.one, t.box)
  <2>1. PICK p \in {"tickets", "insert"} : Goto(s, p)
    BY <1>1 DEF Pay
  <2> QED
    BY <2>1, GotoBecomes
<1>2. ASSUME HandleMarked(s) \/ HandlePlain(s)
      PROVE  IF t.gift THEN Becomes(s, "wrap", t.mine, t.one, t.box)
                       ELSE Ends(s) \/ NextItem(s)
  BY <1>2, GotoBecomes, ProceedEndsOrGoesOn DEF HandleMarked, HandlePlain, WrapOrProceed
<1>3. ASSUME LinkTeleporters(s)
      PROVE  IF t.gift THEN Becomes(s, "wrap", LastItemId, t.one, t.box)
                       ELSE Ends(s) \/ NextItem(s)
  BY <1>3, AfterInsert, ProceedEndsOrGoesOn DEF LinkTeleporters
<1>4. InsertBox(s) => Becomes(s, "boxid", serial + 1, t.one, t.box)
  BY AfterInsert DEF InsertBox
<1>5. InsertItem(s) => Becomes(s, "handle", serial + 1, t.one, t.box)
  BY AfterInsert DEF InsertItem
<1>6. Wrap(s) => Ends(s) \/ NextItem(s)
  BY ProceedEndsOrGoesOn DEF Wrap
<1>7. AddTickets(s) => Ends(s)
  BY RestEnds DEF AddTickets
<1> QED
  BY <1>1, <1>2, <1>3, <1>4, <1>5, <1>6, <1>7, AfterBoxId, AfterHandleTeleporter,
     AfterBuyTickets

\* The locals after each step of redeeming and opening.
LEMMA RedeemLocals ==
  ASSUME TypeOK, NEW s \in Session
  PROVE  LET t == task[s] IN
         /\ (\E c \in Voucher : FindVoucher(s, c)) => Becomes(s, "tear", t.mine, t.one, t.box)
         /\ \A i \in DOMAIN furn :
              /\ RedeemCredit(s, i) => Becomes(s, "melt", t.mine, i, t.box)
              /\ OpenPresent(s, i) =>
                   /\ Becomes(s, "unpack", t.mine, t.one, i)
                   /\ task'[s].things = {j \in DOMAIN furn : <<i, j>> \in presents}
              /\ Unpack(s, i) =>
                   /\ Becomes(s, "unpack", t.mine, t.one, t.box)
                   /\ task'[s].things = t.things \ {i}
         /\ DeleteVoucher(s) \/ Melt(s) => Becomes(s, "reread", t.mine, t.one, t.box)
         /\ ReadCredits(s) => Becomes(s, "credit", t.mine, t.one, t.box)
         /\ Burst(s) => Becomes(s, "shred", t.mine, t.one, t.box)
         /\ WriteCredits(s) \/ Shred(s) => Ends(s)
<1>0. task[s] \in TaskState
  BY DEF TypeOK
<1>1. ASSUME NEW c \in Voucher, FindVoucher(s, c)
      PROVE  Becomes(s, "tear", task[s].mine, task[s].one, task[s].box)
  <2> DEFINE t == [task[s] EXCEPT !.pc = "tear", !.code = c, !.gain = Amount[c]]
  <2>1. task' = [task EXCEPT ![s] = t]
    BY <1>1 DEF FindVoucher, TypeOK
  <2>2. /\ t.pc = "tear" /\ t.mine = task[s].mine /\ t.one = task[s].one
        /\ t.box = task[s].box /\ t.gift = task[s].gift /\ t.todo = task[s].todo
    BY <1>0 DEF TaskState
  <2> QED
    BY <2>1, <2>2, Locals DEF Becomes, Pc
<1>2. ASSUME NEW i \in DOMAIN furn, RedeemCredit(s, i)
      PROVE  Becomes(s, "melt", task[s].mine, i, task[s].box)
  <2> DEFINE t == [task[s] EXCEPT !.pc = "melt", !.one = i, !.gain = Worth["credit"]]
  <2>1. task' = [task EXCEPT ![s] = t]
    BY <1>2 DEF RedeemCredit, TypeOK
  <2>2. /\ t.pc = "melt" /\ t.mine = task[s].mine /\ t.one = i
        /\ t.box = task[s].box /\ t.gift = task[s].gift /\ t.todo = task[s].todo
    BY <1>0 DEF TaskState
  <2> QED
    BY <2>1, <2>2, Locals DEF Becomes, Pc
<1>3. ASSUME NEW i \in DOMAIN furn, OpenPresent(s, i)
      PROVE  /\ Becomes(s, "unpack", task[s].mine, task[s].one, i)
             /\ task'[s].things = {j \in DOMAIN furn : <<i, j>> \in presents}
  <2> DEFINE t == [task[s] EXCEPT !.pc = "unpack", !.box = i,
                     !.things = {j \in DOMAIN furn : <<i, j>> \in presents}]
  <2>1. task' = [task EXCEPT ![s] = t]
    BY <1>3 DEF OpenPresent, TypeOK
  <2>2. /\ t.pc = "unpack" /\ t.mine = task[s].mine /\ t.one = task[s].one
        /\ t.box = i /\ t.gift = task[s].gift /\ t.todo = task[s].todo
        /\ t.things = {j \in DOMAIN furn : <<i, j>> \in presents}
    BY <1>0 DEF TaskState
  <2> QED
    BY <2>1, <2>2, Locals DEF Becomes, Pc
<1>4. ASSUME NEW i \in DOMAIN furn, Unpack(s, i)
      PROVE  /\ Becomes(s, "unpack", task[s].mine, task[s].one, task[s].box)
             /\ task'[s].things = task[s].things \ {i}
  <2> DEFINE t == [task[s] EXCEPT !.things = task[s].things \ {i}]
  <2>1. task' = [task EXCEPT ![s] = t] /\ task[s].pc = "unpack"
    BY <1>4 DEF Unpack, TypeOK, Pc
  <2>2. /\ t.pc = task[s].pc /\ t.mine = task[s].mine /\ t.one = task[s].one
        /\ t.box = task[s].box /\ t.gift = task[s].gift /\ t.todo = task[s].todo
        /\ t.things = task[s].things \ {i}
    BY <1>0 DEF TaskState
  <2> QED
    BY <2>1, <2>2, Locals DEF Becomes, Pc
<1>5. ASSUME ReadCredits(s)
      PROVE  Becomes(s, "credit", task[s].mine, task[s].one, task[s].box)
  <2> DEFINE t == [task[s] EXCEPT !.pc = "credit", !.read = credits[Account[s]]]
  <2>1. task' = [task EXCEPT ![s] = t]
    BY <1>5 DEF ReadCredits, TypeOK
  <2>2. /\ t.pc = "credit" /\ t.mine = task[s].mine /\ t.one = task[s].one
        /\ t.box = task[s].box /\ t.gift = task[s].gift /\ t.todo = task[s].todo
    BY <1>0 DEF TaskState
  <2> QED
    BY <2>1, <2>2, Locals DEF Becomes, Pc
<1>6. DeleteVoucher(s) \/ Melt(s) => Becomes(s, "reread", task[s].mine, task[s].one, task[s].box)
  BY GotoBecomes DEF DeleteVoucher, Melt
<1>7. Burst(s) => Becomes(s, "shred", task[s].mine, task[s].one, task[s].box)
  BY GotoBecomes DEF Burst
<1>8. WriteCredits(s) \/ Shred(s) => Ends(s)
  BY RestEnds DEF WriteCredits, Shred
<1> QED
  BY <1>1, <1>2, <1>3, <1>4, <1>5, <1>6, <1>7, <1>8

\* The locals after each step of the recycler.
InRecycler(s) ==
  \E p \in RecyclerPC, i \in DOMAIN furn \cup {task[s].one} :
    Becomes(s, p, task[s].mine, i, task[s].box)

LEMMA RecycleLocals ==
  ASSUME TypeOK, NEW s \in Session, Recycle(s)
  PROVE  /\ Pc(s) \in RecyclerPC \cup {"ready"}
         /\ Ends(s) \/ InRecycler(s)
<1> USE DEF RecyclerPC, InRecycler
<1>0. task[s] \in TaskState
  BY DEF TypeOK
<1>1. ASSUME NEW n \in 1 .. MaxItems, RecyclerProceed(s, n)
      PROVE  Pc(s) = "ready" /\ InRecycler(s)
  <2> DEFINE t == [task[s] EXCEPT !.pc = "open", !.left = n]
  <2>1. task' = [task EXCEPT ![s] = t]
    BY <1>1 DEF RecyclerProceed, TypeOK
  <2>2. /\ t.pc = "open" /\ t.mine = task[s].mine /\ t.one = task[s].one
        /\ t.box = task[s].box /\ t.gift = task[s].gift /\ t.todo = task[s].todo
    BY <1>0 DEF TaskState
  <2>3. Becomes(s, "open", task[s].mine, task[s].one, task[s].box)
    BY <2>1, <2>2, Locals DEF Becomes, Pc
  <2> QED
    BY <1>1, <2>3 DEF RecyclerProceed
<1>2. ASSUME NEW i \in DOMAIN furn, FindItem(s, i)
      PROVE  Pc(s) = "take" /\ InRecycler(s)
  <2> DEFINE t == [task[s] EXCEPT !.pc = "move", !.one = i]
  <2>1. task' = [task EXCEPT ![s] = t]
    BY <1>2 DEF FindItem, TypeOK
  <2>2. /\ t.pc = "move" /\ t.mine = task[s].mine /\ t.one = i
        /\ t.box = task[s].box /\ t.gift = task[s].gift /\ t.todo = task[s].todo
    BY <1>0 DEF TaskState
  <2>3. Becomes(s, "move", task[s].mine, i, task[s].box)
    BY <2>1, <2>2, Locals DEF Becomes, Pc
  <2> QED
    BY <1>2, <2>3 DEF FindItem
<1>3. ASSUME NEW redeem \in BOOLEAN, RedeemOrCancel(s, redeem)
      PROVE  Pc(s) = "ready" /\ InRecycler(s)
  <2> DEFINE p == IF redeem /\ recycler[Account[s]] = "ready" THEN "reward" ELSE "drop"
             t == [task[s] EXCEPT !.keep = ~redeem, !.pc = p]
  <2>1. task' = [task EXCEPT ![s] = t]
    BY <1>3 DEF RedeemOrCancel, TypeOK
  <2>2. p \in {"reward", "drop"}
    OBVIOUS
  <2> HIDE DEF p
  <2>3. /\ t.pc = p /\ t.mine = task[s].mine /\ t.one = task[s].one
        /\ t.box = task[s].box /\ t.gift = task[s].gift /\ t.todo = task[s].todo
    BY <1>0 DEF TaskState
  <2>4. task'[s] = t /\ Elsewhere(s)
    BY <2>1, Locals
  <2>5. Becomes(s, p, task[s].mine, task[s].one, task[s].box)
    BY <2>3, <2>4 DEF Becomes, Pc
  <2> QED
    BY <1>3, <2>2, <2>5 DEF RedeemOrCancel
<1>4. ASSUME CreateSession(s) \/ BadItem(s) \/ RewardSession(s) \/ DropSession(s)
      PROVE  Pc(s) \in RecyclerPC /\ InRecycler(s)
  <2>1. PICK p \in RecyclerPC : Goto(s, p)
    BY <1>4 DEF CreateSession, BadItem, RewardSession, DropSession
  <2>2. Becomes(s, p, task[s].mine, task[s].one, task[s].box)
    BY <2>1, GotoBecomes
  <2> QED
    BY <1>4, <2>2 DEF CreateSession, BadItem, RewardSession, DropSession
<1>5. ASSUME MoveItem(s)
      PROVE  Pc(s) = "move" /\ (Ends(s) \/ InRecycler(s))
  <2>1. CASE task[s].left = 1
    BY <1>5, <2>1, RestEnds DEF MoveItem
  <2>2. CASE task[s].left # 1
    <3> DEFINE t == [task[s] EXCEPT !.pc = "take", !.left = task[s].left - 1]
    <3>1. task' = [task EXCEPT ![s] = t]
      BY <1>5, <2>2 DEF MoveItem, TypeOK
    <3>2. /\ t.pc = "take" /\ t.mine = task[s].mine /\ t.one = task[s].one
          /\ t.box = task[s].box /\ t.gift = task[s].gift /\ t.todo = task[s].todo
      BY <1>0 DEF TaskState
    <3>3. Becomes(s, "take", task[s].mine, task[s].one, task[s].box)
      BY <3>1, <3>2, Locals DEF Becomes, Pc
    <3> QED
      BY <1>5, <3>3 DEF MoveItem
  <2> QED
    BY <2>1, <2>2
<1>6. ASSUME DropItems(s)
      PROVE  Pc(s) = "items" /\ Ends(s)
  BY <1>6, RestEnds DEF DropItems
<1> QED
  BY <1>1, <1>2, <1>3, <1>4, <1>5, <1>6 DEF Recycle

-----------------------------------------------------------------------------
\* Always: ids are numbers that have been given out, a session at rest has no locals,
\* and only purchases are gifts.
Purchasing == {"box", "boxid", "pay", "insert", "handle", "link", "wrap", "tickets"}
Given(i) == i \in 0 .. serial
Orderly(s) ==
  /\ Given(task[s].mine) /\ Given(task[s].one) /\ Given(task[s].box)
  /\ Pc(s) = "ready" => task[s] = AtRest(s)
  /\ task[s].gift => Pc(s) \in Purchasing
Numbered ==
  /\ \A s \in Session : Orderly(s)
  /\ \A p \in presents : Given(p[1]) /\ Given(p[2])
  /\ \A i \in DOMAIN furn : Given(furn[i].pair)

LEMMA NumberedInit == Init => Numbered
  BY DEF Init, Numbered, Orderly, Given, AtRest, Pc

LEMMA LastItemIdGiven == TypeOK => Given(LastItemId) /\ (LastItemId # 0 => Exists(LastItemId))
  BY DEF TypeOK, LastItemId, Given, Exists

\* No number is ever taken back.
LEMMA SerialStep ==
  ASSUME TypeOK, [Next]_vars
  PROVE  serial' \in Nat /\ serial <= serial' /\ serial' <= serial + 1
<1>1. serial' \in {serial, serial + 1}
  <2>1. ASSUME NEW s \in Session, Shop(s)
        PROVE  serial' \in {serial, serial + 1}
    BY <2>1 DEF Shop, Purchase, InsertBox, BoxId, Pay, InsertItem, HandleMarked, HandlePlain,
      HandleTeleporter, LinkTeleporters, Wrap, BuyTickets, AddTickets, Insert, goods
  <2>2. ASSUME NEW s \in Session, Redeem(s)
        PROVE  serial' = serial
    BY <2>2 DEF Redeem, FindVoucher, RedeemCredit, OpenPresent, Unpack, DeleteVoucher, Melt,
      ReadCredits, WriteCredits, Burst, Shred, goods
  <2>3. ASSUME NEW s \in Session, Recycle(s)
        PROVE  serial' \in {serial, serial + 1}
    BY <2>3 DEF Recycle, RecyclerProceed, FindItem, RedeemOrCancel, CreateSession, MoveItem,
      BadItem, RewardSession, DropSession, DropItems, Insert, goods
  <2> QED
    BY <2>1, <2>2, <2>3 DEF Next, Fail, TimePasses, MoveAbout, goods, vars
<1> QED
  BY <1>1 DEF TypeOK

LEMMA GivenStep ==
  ASSUME TypeOK, [Next]_vars
  PROVE  \A i : Given(i) => Given(i)'
  BY SerialStep DEF Given, TypeOK

LEMMA OrderlyBecomes ==
  ASSUME TypeOK, NEW s \in Session, NEW p, NEW m, NEW o, NEW b, Becomes(s, p, m, o, b),
         Given(m)', Given(o)', Given(b)', p # "ready", task[s].gift => p \in Purchasing
  PROVE  Orderly(s)'
  BY DEF Becomes, Orderly, Pc

LEMMA OrderlyEnds ==
  ASSUME TypeOK, NEW s \in Session, Ends(s), serial' \in Nat
  PROVE  Orderly(s)'
  BY DEF Ends, Orderly, Pc, AtRest, Given

LEMMA OrderlyShop ==
  ASSUME TypeOK, Numbered, [Next]_vars, NEW s \in Session, Shop(s)
  PROVE  Elsewhere(s) /\ Orderly(s)'
<1> DEFINE t == task[s]
<1>0. /\ serial' \in Nat /\ \A i : Given(i) => Given(i)'
      /\ Given(t.mine) /\ Given(t.one) /\ Given(t.box) /\ Given(LastItemId)
  BY SerialStep, GivenStep, LastItemIdGiven DEF Numbered, Orderly
<1>1. CASE Ends(s)
  BY <1>0, <1>1, OrderlyEnds DEF Ends
<1>2. CASE NextItem(s)
  BY <1>0, <1>2 DEF NextItem, Orderly, Pc, Purchasing
<1>3. ASSUME NEW o \in Offer, NEW v \in User, NEW gift \in BOOLEAN, Purchase(s, o, v, gift)
      PROVE  Elsewhere(s) /\ Orderly(s)'
  <2>1. Given(task[s].mine)' /\ Given(task[s].one)' /\ Given(task[s].box)'
    BY <1>0, <1>3, AfterPurchase
  <2>2. Pc(s)' \in {"box", "pay"} /\ Elsewhere(s)
    BY <1>3, AfterPurchase
  <2> QED
    BY <2>1, <2>2 DEF Orderly, Purchasing
<1>4. CASE InsertBox(s) \/ InsertItem(s) \/ HandleTeleporter(s)
  <2>1. serial + 1 \in 0 .. serial'
    BY <1>4 DEF InsertBox, InsertItem, HandleTeleporter, Insert, TypeOK
  <2> QED
    BY <1>0, <1>4, <2>1, ShopLocals, OrderlyBecomes DEF Becomes, Purchasing, Given
<1>5. CASE BoxId(s)
  BY <1>0, <1>5, ShopLocals, OrderlyBecomes DEF Becomes, Purchasing
<1>6. CASE Pay(s)
  <2>1. PICK p \in {"tickets", "insert"} : Becomes(s, p, t.mine, t.one, t.box)
    BY <1>6, ShopLocals
  <2> QED
    BY <1>0, <2>1, OrderlyBecomes DEF Becomes, Purchasing
<1>7. CASE HandleMarked(s) \/ HandlePlain(s) \/ LinkTeleporters(s)
  <2>1. \/ Ends(s) \/ NextItem(s)
        \/ \E m \in {LastItemId, t.mine} : Becomes(s, "wrap", m, t.one, t.box)
    BY <1>7, ShopLocals
  <2> QED
    BY <1>0, <1>1, <1>2, <2>1, OrderlyBecomes DEF Becomes, Purchasing
<1>8. CASE Wrap(s) \/ AddTickets(s)
  BY <1>1, <1>2, <1>8, ShopLocals
<1>9. ASSUME NEW v \in User, BuyTickets(s, v)
      PROVE  Elsewhere(s) /\ Orderly(s)'
  <2>1. Becomes(s, "pay", t.mine, t.one, t.box)
    BY <1>9, AfterBuyTickets
  <2> QED
    BY <1>0, <2>1, OrderlyBecomes DEF Becomes, Purchasing
<1> QED
  BY <1>1, <1>2, <1>3, <1>4, <1>5, <1>6, <1>7, <1>8, <1>9 DEF Shop

\* Whoever redeems, opens or recycles buys nothing meanwhile.
LEMMA OrderlyAside ==
  ASSUME TypeOK, Numbered, [Next]_vars, NEW s \in Session, Redeem(s) \/ Recycle(s)
  PROVE  /\ Elsewhere(s) /\ Orderly(s)'
         /\ {Pc(s), Pc(s)'} \cap Purchasing = {} /\ ~task[s].gift /\ ~task'[s].gift
<1> DEFINE t == task[s]
<1>0. /\ serial' \in Nat /\ \A i : Given(i) => Given(i)'
      /\ Given(t.mine) /\ Given(t.one) /\ Given(t.box)
      /\ \A i \in DOMAIN furn : Given(i)
  BY SerialStep, GivenStep DEF Numbered, Orderly, TypeOK, Given
<1>1. Pc(s) \notin Purchasing
  <2>1. Redeem(s) => Pc(s) \in {"ready", "tear", "melt", "reread", "credit", "unpack", "shred"}
    BY DEF Redeem, FindVoucher, RedeemCredit, OpenPresent, Unpack, DeleteVoucher, Melt,
      ReadCredits, WriteCredits, Burst, Shred
  <2>2. Recycle(s) => Pc(s) \in RecyclerPC \cup {"ready"}
    BY RecycleLocals
  <2> QED
    BY <2>1, <2>2 DEF Purchasing, RecyclerPC
<1>2. ~task[s].gift
  BY <1>1 DEF Numbered, Orderly
<1>3. \/ Ends(s)
      \/ \E p \in RecyclerPC \cup {"tear", "melt", "unpack", "reread", "credit", "shred"},
            o \in DOMAIN furn \cup {t.one}, b \in DOMAIN furn \cup {t.box} :
           Becomes(s, p, t.mine, o, b)
  BY RedeemLocals, RecycleLocals DEF Redeem, InRecycler
<1>4. CASE Ends(s)
  <2>1. Orderly(s)'
    BY <1>0, <1>4, OrderlyEnds
  <2> QED
    BY <1>1, <1>2, <1>4, <2>1 DEF Ends, AtRest, Pc, Purchasing
<1>5. ASSUME NEW p \in RecyclerPC \cup {"tear", "melt", "unpack", "reread", "credit", "shred"},
             NEW o \in DOMAIN furn \cup {t.one}, NEW b \in DOMAIN furn \cup {t.box},
             Becomes(s, p, t.mine, o, b)
      PROVE  /\ Elsewhere(s) /\ Orderly(s)' /\ Pc(s)' \notin Purchasing /\ ~task'[s].gift
  BY <1>0, <1>2, <1>5, OrderlyBecomes DEF Becomes, Purchasing, RecyclerPC
<1> QED
  BY <1>1, <1>2, <1>3, <1>4, <1>5

\* What becomes of the furniture in a step: a new row may come under the next number,
\* and no row changes its kind or is wrapped later on.
Ages ==
  \A i \in DOMAIN furn' :
    \/ i \in DOMAIN furn /\ furn'[i].kind = furn[i].kind
       /\ (furn'[i].at = "wrapped" => furn[i].at = "wrapped")
    \/ i = serial + 1 /\ i \notin DOMAIN furn
\* The same, with what makes it complete.
Lasts ==
  \A i \in DOMAIN furn' :
    \/ i \in DOMAIN furn /\ furn'[i].kind = furn[i].kind
       /\ furn'[i].var = furn[i].var /\ furn'[i].pair = furn[i].pair
       /\ (furn'[i].at = "wrapped" => furn[i].at = "wrapped")
    \/ i = serial + 1 /\ i \notin DOMAIN furn

LEMMA InsertLasts ==
  ASSUME TypeOK, NEW row, Insert(row)
  PROVE  /\ Lasts /\ DOMAIN furn' = DOMAIN furn \cup {serial + 1}
         /\ furn'[serial + 1] = row /\ serial + 1 \notin DOMAIN furn
         /\ serial' = serial + 1
  BY DEF TypeOK, Insert, Lasts

LEMMA PutLasts ==
  ASSUME TypeOK, NEW S, NEW w, w # "wrapped", Put(S, w)
  PROVE  Lasts /\ DOMAIN furn' = DOMAIN furn
  BY DEF TypeOK, Row, Put, Lasts

LEMMA DeleteLasts ==
  ASSUME TypeOK, NEW S, Delete(S)
  PROVE  Lasts /\ DOMAIN furn' = DOMAIN furn \ S
  BY DEF TypeOK, Delete, Lasts

LEMMA RowsStay ==
  ASSUME UNCHANGED furn
  PROVE  Lasts /\ DOMAIN furn' = DOMAIN furn
  BY DEF Lasts

LEMMA RedeemLasts ==
  ASSUME TypeOK, NEW s \in Session, Redeem(s)
  PROVE  Lasts /\ DOMAIN furn' \subseteq DOMAIN furn
<1>1. CASE \E i \in DOMAIN furn : Unpack(s, i)
  BY <1>1, PutLasts DEF Unpack
<1>2. CASE Melt(s) \/ Burst(s)
  BY <1>2, DeleteLasts DEF Melt, Burst
<1>3. ASSUME ~Melt(s), ~Burst(s), \A i \in DOMAIN furn : ~Unpack(s, i)
      PROVE  UNCHANGED furn
  BY <1>3 DEF Redeem, FindVoucher, RedeemCredit, OpenPresent, DeleteVoucher,
              ReadCredits, WriteCredits, Shred, goods
<1> QED
  BY <1>1, <1>2, <1>3, RowsStay

LEMMA RecycleLasts ==
  ASSUME TypeOK, NEW s \in Session, Recycle(s)
  PROVE  /\ Lasts
         /\ serial + 1 \in DOMAIN furn' =>
              furn'[serial + 1] = NewRow(Account[s], "hand", "reward", 0)
<1>0. serial + 1 \notin DOMAIN furn
  BY DEF TypeOK
<1>1. CASE MoveItem(s)
  BY <1>0, <1>1, PutLasts DEF MoveItem
<1>2. CASE DropItems(s)
  BY <1>0, <1>2, PutLasts, DeleteLasts DEF DropItems
<1>3. CASE RewardSession(s)
  BY <1>3, InsertLasts DEF RewardSession
<1>4. ASSUME ~MoveItem(s), ~RewardSession(s), ~DropItems(s)
      PROVE  UNCHANGED furn
  BY <1>4 DEF Recycle, RecyclerProceed, FindItem, RedeemOrCancel,
              CreateSession, BadItem, DropSession, goods
<1> QED
  BY <1>0, <1>1, <1>2, <1>3, <1>4, RowsStay

LEMMA MoveAboutLasts ==
  ASSUME TypeOK, NEW i \in DOMAIN furn, NEW w \in Where, NEW v \in User, MoveAbout(i, w, v)
  PROVE  Lasts /\ DOMAIN furn' = DOMAIN furn
<1>1. furn' = [furn EXCEPT ![i] = [furn[i] EXCEPT !.at = w, !.owner = v]]
  BY DEF MoveAbout, TypeOK
<1>2. w # "wrapped"
  BY DEF MoveAbout
<1> QED
  BY <1>1, <1>2 DEF Lasts, TypeOK, Row

\* Marks and links are all that purchases change in rows that are there.
Marks(s) ==
  furn' = [i \in DOMAIN furn |->
             IF i = LastItemId THEN [furn[i] EXCEPT !.var = TRUE] ELSE furn[i]]
Links(s) ==
  furn' = [i \in DOMAIN furn |->
             IF i = task[s].one THEN [furn[i] EXCEPT !.pair = LastItemId] ELSE furn[i]]

LEMMA ShopRows ==
  ASSUME TypeOK, NEW s \in Session, Shop(s)
  PROVE  /\ InsertBox(s) => Insert(NewRow(task[s].for, "hand", "box", 0))
         /\ InsertItem(s) =>
              Insert(NewRow(task[s].for, Wrapping(s), Head(task[s].todo), 0))
         /\ HandleTeleporter(s) =>
              Insert(NewRow(task[s].for, Wrapping(s), "teleporter", LastItemId))
         /\ HandleMarked(s) => Marks(s)
         /\ LinkTeleporters(s) => Links(s)
         /\ \/ InsertBox(s) \/ InsertItem(s) \/ HandleTeleporter(s)
            \/ HandleMarked(s) \/ LinkTeleporters(s) \/ UNCHANGED furn
  BY DEF Shop, Purchase, InsertBox, BoxId, Pay, InsertItem, HandleMarked, HandlePlain,
    HandleTeleporter, LinkTeleporters, Wrap, BuyTickets, AddTickets, Marks, Links, goods

LEMMA AgesStep ==
  ASSUME TypeOK, [Next]_vars
  PROVE  Ages
<1>1. Lasts => Ages
  BY DEF Lasts, Ages
<1>2. ASSUME NEW s \in Session, Shop(s)
      PROVE  Ages
  <2>1. CASE InsertBox(s) \/ InsertItem(s) \/ HandleTeleporter(s)
    BY <1>1, <1>2, <2>1, ShopRows, InsertLasts
  <2>2. CASE Marks(s)
    BY <2>2 DEF Marks, Ages, TypeOK, Row
  <2>3. CASE Links(s)
    BY <2>3 DEF Links, Ages, TypeOK, Row
  <2> QED
    BY <1>1, <1>2, <2>1, <2>2, <2>3, ShopRows, RowsStay
<1>3. UNCHANGED furn => Ages
  BY <1>1, RowsStay
<1> QED
  BY <1>1, <1>2, <1>3, RedeemLasts, RecycleLasts, MoveAboutLasts
     DEF Next, Fail, TimePasses, goods, vars

\* What the steps do to what is in the boxes.
LEMMA PresentsStep ==
  ASSUME TypeOK, [Next]_vars
  PROVE  \/ presents' \subseteq presents
         \/ \E s \in Session : Wrap(s)
<1>1. ASSUME NEW s \in Session, Shop(s), ~Wrap(s)
      PROVE  presents' = presents
  BY <1>1 DEF Shop, Purchase, InsertBox, BoxId, Pay, InsertItem, HandleMarked, HandlePlain,
    HandleTeleporter, LinkTeleporters, BuyTickets, AddTickets, goods
<1>2. ASSUME NEW s \in Session, Redeem(s)
      PROVE  presents' \subseteq presents
  BY <1>2 DEF Redeem, FindVoucher, RedeemCredit, OpenPresent, Unpack, DeleteVoucher, Melt,
    ReadCredits, WriteCredits, Burst, Shred, goods
<1>3. ASSUME NEW s \in Session, Recycle(s)
      PROVE  presents' = presents
  BY <1>3 DEF Recycle, RecyclerProceed, FindItem, RedeemOrCancel, CreateSession, MoveItem,
    BadItem, RewardSession, DropSession, DropItems, goods
<1> QED
  BY <1>1, <1>2, <1>3 DEF Next, Fail, TimePasses, MoveAbout, goods, vars

\* What goes into a box with an item.
LEMMA WrapAdds ==
  ASSUME NEW s \in Session, Wrap(s)
  PROVE  \E S : /\ S \subseteq {task[s].one, task[s].mine, LastItemId}
                /\ presents' = presents \cup {<<task[s].box, i>> : i \in S}
<1>1. CASE Head(task[s].todo) = "teleporter"
  <2>1. presents' = presents \cup {<<task[s].box, i>> : i \in {task[s].one, task[s].mine}}
    BY <1>1 DEF Wrap
  <2> QED
    BY <2>1
<1>2. CASE Head(task[s].todo) # "teleporter"
  <2>1. presents' = presents \cup {<<task[s].box, i>> : i \in {LastItemId}}
    BY <1>2 DEF Wrap
  <2> QED
    BY <2>1
<1> QED
  BY <1>1, <1>2

LEMMA NumberedStep ==
  ASSUME TypeOK, Numbered, [Next]_vars
  PROVE  Numbered'
<1>0. /\ serial' \in Nat /\ serial <= serial' /\ \A i : Given(i) => Given(i)'
      /\ Given(LastItemId) /\ \A s \in Session : Orderly(s)
  BY SerialStep, GivenStep, LastItemIdGiven DEF Numbered
<1>1. ASSUME NEW s \in Session, NEW r \in Session
      PROVE  /\ Shop(s) \/ Redeem(s) \/ Recycle(s) \/ Fail(s) => Orderly(r)'
             /\ UNCHANGED task => Orderly(r)'
  <2>1. task'[r] = task[r] => Orderly(r)'
    BY <1>0 DEF Orderly, Pc, AtRest
  <2>2. Fail(s) => Elsewhere(s) /\ Orderly(s)'
    BY <1>0, RestEnds, OrderlyEnds DEF Fail, Ends
  <2> QED
    BY <2>1, <2>2, OrderlyShop, OrderlyAside DEF Elsewhere
<1>2. \A r \in Session : Orderly(r)'
  BY <1>1 DEF Next, TimePasses, MoveAbout, vars
<1>3. \A p \in presents' : Given(p[1])' /\ Given(p[2])'
  <2>1. \A p \in presents : p[1] \in 0 .. serial' /\ p[2] \in 0 .. serial'
    BY <1>0 DEF Numbered, Given
  <2>2. ASSUME NEW s \in Session, Wrap(s), NEW p \in presents'
        PROVE  p[1] \in 0 .. serial' /\ p[2] \in 0 .. serial'
    <3>1. PICK S : /\ S \subseteq {task[s].one, task[s].mine, LastItemId}
                   /\ presents' = presents \cup {<<task[s].box, i>> : i \in S}
      BY <2>2, WrapAdds
    <3>2. /\ task[s].one \in 0 .. serial' /\ task[s].mine \in 0 .. serial'
          /\ task[s].box \in 0 .. serial' /\ LastItemId \in 0 .. serial'
      BY <1>0 DEF Orderly, Given
    <3>3. p \in presents \/ \E i \in S : p = <<task[s].box, i>>
      BY <2>2, <3>1
    <3> QED
      BY <2>1, <3>1, <3>2, <3>3
  <2>3. \A p \in presents' : p[1] \in 0 .. serial' /\ p[2] \in 0 .. serial'
    BY <2>1, <2>2, PresentsStep
  <2> QED
    BY <2>3 DEF Given
<1>4. \A i \in DOMAIN furn' : furn'[i].pair \in 0 .. serial'
  <2>1. \A i \in DOMAIN furn : furn[i].pair \in 0 .. serial'
    BY <1>0 DEF Numbered, Given
  <2>2. LastItemId \in 0 .. serial' /\ 0 \in 0 .. serial'
    BY <1>0 DEF Given
  <2>3. ASSUME Lasts, serial + 1 \notin DOMAIN furn' \/ furn'[serial + 1].pair \in 0 .. serial'
        PROVE  \A i \in DOMAIN furn' : furn'[i].pair \in 0 .. serial'
    BY <2>1, <2>3 DEF Lasts
  <2>4. ASSUME NEW s \in Session, Shop(s)
        PROVE  \A i \in DOMAIN furn' : furn'[i].pair \in 0 .. serial'
    <3>1. CASE InsertBox(s) \/ InsertItem(s) \/ HandleTeleporter(s)
      <4>1. PICK row : Insert(row) /\ row.pair \in {0, LastItemId}
        <5>1. \A u, w, k, p : NewRow(u, w, k, p).pair = p
          BY DEF NewRow
        <5> QED
          BY <2>4, <3>1, <5>1, ShopRows
      <4>2. Lasts /\ furn'[serial + 1] = row
        BY <4>1, InsertLasts
      <4> QED
        BY <2>2, <2>3, <4>1, <4>2
    <3>2. CASE Marks(s)
      BY <2>1, <3>2 DEF Marks, TypeOK, Row
    <3>3. CASE Links(s)
      BY <2>1, <2>2, <3>3 DEF Links, TypeOK, Row
    <3> QED
      BY <2>1, <2>4, <3>1, <3>2, <3>3, ShopRows
  <2>5. serial + 1 \notin DOMAIN furn
    BY DEF TypeOK
  <2>6. ASSUME NEW s \in Session, Recycle(s)
        PROVE  \A i \in DOMAIN furn' : furn'[i].pair \in 0 .. serial'
    <3>1. NewRow(Account[s], "hand", "reward", 0).pair = 0
      BY DEF NewRow
    <3> QED
      BY <2>2, <2>3, <2>6, <3>1, RecycleLasts
  <2>7. UNCHANGED furn => \A i \in DOMAIN furn' : furn'[i].pair \in 0 .. serial'
    BY <2>1
  <2> QED
    BY <2>3, <2>4, <2>5, <2>6, <2>7, RedeemLasts, MoveAboutLasts
       DEF Next, Fail, TimePasses, goods, vars
<1> QED
  BY <1>2, <1>3, <1>4 DEF Numbered, Given
-----------------------------------------------------------------------------
\* Complete goods.  While no id was another's and no packet failed, every item is
\* complete or one session, and no other, is about to make it so.
Complete(i) ==
  /\ furn[i].kind = "marked" => furn[i].var
  /\ furn[i].kind = "teleporter" =>
       /\ furn[i].pair # 0
       /\ Exists(furn[i].pair) => furn[furn[i].pair].pair = i
Makes(s, i) ==
  \/ Pc(s) = "handle" /\ i = task[s].mine
  \/ Pc(s) = "link" /\ i \in {task[s].mine, task[s].one}
IsKind(i, k) == Exists(i) => furn[i].kind = k
IsPair(i, p) == Exists(i) => furn[i].pair = p
Making(s) ==
  LET t == task[s] IN
  /\ Pc(s) = "handle" => t.mine # 0 /\ IsKind(t.mine, Head(t.todo)) /\ IsPair(t.mine, 0)
  /\ Pc(s) = "link" =>
       /\ 0 \notin {t.mine, t.one} /\ t.mine # t.one
       /\ IsKind(t.mine, "teleporter") /\ IsPair(t.mine, t.one)
       /\ IsKind(t.one, "teleporter") /\ IsPair(t.one, 0)
       /\ Head(t.todo) = "teleporter"
Goods ==
  /\ \A s \in Session : Making(s)
  /\ \A s \in Session, t \in Session, i \in Nat : Makes(s, i) /\ Makes(t, i) => s = t
  /\ \A i \in DOMAIN furn : Complete(i) \/ \E s \in Session : Makes(s, i)
Undisturbed == ~crossed /\ ~interrupted
GoodsInv == Undisturbed => Goods

\* Where a session is after its step.
LEMMA WhereNext ==
  ASSUME TypeOK, NEW s \in Session
  PROVE  /\ Ends(s) => Elsewhere(s) /\ Pc(s)' = "ready"
         /\ NextItem(s) => Elsewhere(s) /\ Pc(s)' = "insert"
         /\ \A p, m, o, b : Becomes(s, p, m, o, b) => Elsewhere(s) /\ Pc(s)' = p
  BY DEF Ends, NextItem, Becomes, AtRest, Pc

LEMMA ShopNext ==
  ASSUME TypeOK, NEW s \in Session, Shop(s), ~InsertItem(s), ~HandleTeleporter(s)
  PROVE  Elsewhere(s) /\ Pc(s)' \notin {"handle", "link"}
<1>1. Ends(s) => Elsewhere(s) /\ Pc(s)' = "ready"
  BY WhereNext
<1>2. NextItem(s) => Elsewhere(s) /\ Pc(s)' = "insert"
  BY WhereNext
<1>3. \A p, m, o, b : Becomes(s, p, m, o, b) => Elsewhere(s) /\ Pc(s)' = p
  BY WhereNext
<1>4. CASE HandleMarked(s) \/ HandlePlain(s) \/ LinkTeleporters(s)
  BY <1>1, <1>2, <1>3, <1>4, ShopLocals
<1>5. CASE Wrap(s) \/ AddTickets(s) \/ Pay(s)
  BY <1>1, <1>2, <1>3, <1>5, ShopLocals
<1>6. CASE InsertBox(s) \/ BoxId(s) \/ \E v \in User : BuyTickets(s, v)
  BY <1>1, <1>2, <1>3, <1>6, ShopLocals
<1>7. ASSUME NEW o \in Offer, NEW v \in User, NEW gift \in BOOLEAN, Purchase(s, o, v, gift)
      PROVE  Elsewhere(s) /\ Pc(s)' \notin {"handle", "link"}
  BY <1>7, AfterPurchase
<1> QED
  BY <1>4, <1>5, <1>6, <1>7 DEF Shop

\* What a session makes it goes on making while its rows last, ...
LEMMA MakingLasts ==
  ASSUME TypeOK, Numbered, Lasts, NEW t \in Session, Making(t), task'[t] = task[t]
  PROVE  Making(t)'
<1>1. \A i \in 0 .. serial : i # serial + 1
  BY DEF TypeOK
<1>2. \A i \in 0 .. serial : \A k : IsKind(i, k) => IsKind(i, k)'
  BY <1>1 DEF Lasts, IsKind, Exists
<1>3. \A i \in 0 .. serial : \A p : IsPair(i, p) => IsPair(i, p)'
  BY <1>1 DEF Lasts, IsPair, Exists
<1>4. task[t].mine \in 0 .. serial /\ task[t].one \in 0 .. serial
  BY DEF Numbered, Orderly, Given
<1> QED
  BY <1>2, <1>3, <1>4 DEF Making, Pc

\* ... and what is complete stays so.
LEMMA CompleteLasts ==
  ASSUME TypeOK, Numbered, Lasts, NEW i \in DOMAIN furn, i \in DOMAIN furn', Complete(i)
  PROVE  Complete(i)'
<1>1. i # serial + 1 /\ furn[i].pair # serial + 1
  BY DEF TypeOK, Numbered, Given
<1>2. /\ furn'[i].kind = furn[i].kind /\ furn'[i].var = furn[i].var
      /\ furn'[i].pair = furn[i].pair
  BY <1>1 DEF Lasts
<1>3. Exists(furn[i].pair)' => Exists(furn[i].pair)
  BY <1>1, <1>2 DEF Lasts, Exists
<1>4. Exists(furn[i].pair)' => furn'[furn[i].pair].pair = furn[furn[i].pair].pair
  BY <1>1, <1>2 DEF Lasts, Exists
<1> QED
  BY <1>2, <1>3, <1>4 DEF Complete, Exists

\* A step after which its session makes nothing keeps the goods, when the others are
\* not disturbed and what it made is complete.
LEMMA Settles ==
  ASSUME Goods, NEW s \in Session, Elsewhere(s), Pc(s)' \notin {"handle", "link"},
         \A t \in Session \ {s} : Making(t)',
         \A i \in DOMAIN furn' : Complete(i)' \/ \E t \in Session \ {s} : Makes(t, i)
  PROVE  Goods'
<1>1. \A i : ~Makes(s, i)'
  BY DEF Makes
<1>2. \A t \in Session \ {s} : \A i : Makes(t, i)' <=> Makes(t, i)
  BY DEF Makes, Elsewhere, Pc
<1>3. Making(s)'
  BY DEF Making
<1>4. \A r \in Session, t \in Session, i \in Nat : Makes(r, i)' /\ Makes(t, i)' => r = t
  BY <1>1, <1>2 DEF Goods
<1>5. \A i \in DOMAIN furn' : Complete(i)' \/ \E t \in Session : Makes(t, i)'
  BY <1>2
<1> QED
  BY <1>3, <1>4, <1>5 DEF Goods

\* Steps that make nothing.
LEMMA MakesNothing ==
  ASSUME TypeOK, Numbered, Goods, Lasts, NEW s \in Session, Elsewhere(s),
         Pc(s)' \notin {"handle", "link"},
         \A i \in DOMAIN furn : Makes(s, i) /\ i \in DOMAIN furn' => Complete(i),
         serial + 1 \in DOMAIN furn' => furn'[serial + 1].kind \notin {"marked", "teleporter"}
  PROVE  Goods'
<1>1. \A t \in Session \ {s} : Making(t)'
  BY MakingLasts DEF Goods, Elsewhere
<1>2. ASSUME NEW i \in DOMAIN furn', i \in DOMAIN furn
      PROVE  Complete(i)' \/ \E t \in Session \ {s} : Makes(t, i)
  BY <1>2, CompleteLasts DEF Goods
<1>3. ASSUME NEW i \in DOMAIN furn', i \notin DOMAIN furn
      PROVE  Complete(i)'
  <2>1. i = serial + 1
    BY <1>3 DEF Lasts
  <2> QED
    BY <2>1 DEF Complete
<1> QED
  BY <1>1, <1>2, <1>3, Settles

\* Steps that begin to make a new item.
LEMMA MakesAnew ==
  ASSUME TypeOK, Numbered, Goods, NEW s \in Session, Elsewhere(s), NEW row, Insert(row),
         \A i \in Nat : Makes(s, i)' => Makes(s, i) \/ i = serial + 1,
         \A i \in DOMAIN furn \cup {serial + 1} :
           Makes(s, i) \/ i = serial + 1 => Makes(s, i)',
         Making(s)'
  PROVE  Goods'
<1>1. Lasts /\ DOMAIN furn' = DOMAIN furn \cup {serial + 1}
  BY InsertLasts
<1>2. \A t \in Session : Making(t)'
  BY <1>1, MakingLasts DEF Goods, Elsewhere
<1>3. \A t \in Session \ {s} : \A i : Makes(t, i)' <=> Makes(t, i)
  BY DEF Makes, Elsewhere, Pc
<1>4. \A t \in Session : ~Makes(t, serial + 1)
  BY DEF Makes, Numbered, Orderly, Given, TypeOK
<1>5. \A r \in Session, t \in Session, i \in Nat : Makes(r, i)' /\ Makes(t, i)' => r = t
  BY <1>3, <1>4 DEF Goods
<1>6. ASSUME NEW i \in DOMAIN furn
      PROVE  Complete(i)' \/ \E t \in Session : Makes(t, i)'
  BY <1>1, <1>3, CompleteLasts DEF Goods
<1> QED
  BY <1>1, <1>2, <1>5, <1>6 DEF Goods

\* A marked item gets its mark.
LEMMA GoodsMarked ==
  ASSUME TypeOK, Able, Numbered, Goods, NEW s \in Session, HandleMarked(s), ~crossed'
  PROVE  Goods'
<1> DEFINE m == task[s].mine
<1>1. Marks(s) /\ LastItemId = m /\ Pc(s) = "handle" /\ Head(task[s].todo) = "marked"
  BY DEF HandleMarked, Marks, Crosses
<1>2. Elsewhere(s) /\ Pc(s)' \notin {"handle", "link"}
  <2>1. Shop(s) /\ ~InsertItem(s) /\ ~HandleTeleporter(s)
    BY <1>1 DEF Shop, InsertItem, HandleTeleporter
  <2> QED
    BY <2>1, ShopNext
<1>3. /\ DOMAIN furn' = DOMAIN furn
      /\ \A i \in DOMAIN furn :
           /\ furn'[i].kind = furn[i].kind /\ furn'[i].pair = furn[i].pair
           /\ furn[i].var => furn'[i].var
           /\ i = m => furn'[i].var
  BY <1>1 DEF Marks, TypeOK, Row
<1>4. \A t \in Session \ {s} : Making(t)'
  BY <1>2, <1>3 DEF Goods, Making, IsKind, IsPair, Exists, Elsewhere, Pc
<1>5. \A i \in DOMAIN furn : Complete(i) => Complete(i)'
  BY <1>3 DEF Complete, Exists
<1>6. Exists(m) => furn[m].kind = "marked"
  BY <1>1 DEF Goods, Making, IsKind
<1>7. \A i \in DOMAIN furn : Makes(s, i) => Complete(i)'
  BY <1>1, <1>3, <1>6 DEF Makes, Complete, Exists
<1> QED
  BY <1>2, <1>3, <1>4, <1>5, <1>7, Settles DEF Goods

\* Two teleporters are linked.
LEMMA GoodsLinked ==
  ASSUME TypeOK, Able, Numbered, Goods, NEW s \in Session, LinkTeleporters(s), ~crossed'
  PROVE  Goods'
<1> DEFINE m == task[s].mine
           o == task[s].one
<1>1. Links(s) /\ LastItemId = m /\ Pc(s) = "link"
  BY DEF LinkTeleporters, Links, Crosses
<1>2. Elsewhere(s) /\ Pc(s)' \notin {"handle", "link"}
  <2>1. Shop(s) /\ ~InsertItem(s) /\ ~HandleTeleporter(s)
    BY <1>1 DEF Shop, InsertItem, HandleTeleporter
  <2> QED
    BY <2>1, ShopNext
<1>3. /\ DOMAIN furn' = DOMAIN furn
      /\ \A i \in DOMAIN furn :
           /\ furn'[i].kind = furn[i].kind /\ furn'[i].var = furn[i].var
           /\ furn'[i].pair = IF i = o THEN m ELSE furn[i].pair
  BY <1>1 DEF Links, TypeOK, Row
<1>4. /\ 0 \notin {m, o} /\ m # o /\ IsKind(m, "teleporter") /\ IsPair(m, o)
      /\ IsKind(o, "teleporter") /\ IsPair(o, 0)
  BY <1>1 DEF Goods, Making
<1>5. m \in Nat /\ o \in Nat /\ 0 \notin DOMAIN furn
  BY DEF TypeOK, Numbered, Orderly, Given
<1>6. ASSUME NEW t \in Session \ {s}
      PROVE  Making(t)'
  <2>1. ~Makes(t, o) /\ Making(t) /\ task'[t] = task[t]
    BY <1>1, <1>2, <1>5 DEF Goods, Makes, Elsewhere
  <2> QED
    BY <1>3, <2>1 DEF Making, IsKind, IsPair, Exists, Makes, Pc
<1>7. Exists(m)
  BY <1>1, <1>4, LastItemIdGiven
<1>8. \A i \in DOMAIN furn : Makes(s, i) => Complete(i)'
  <2>1. \A i : i = m => Complete(i)'
    BY <1>3, <1>4, <1>7 DEF Complete, Exists, IsPair, IsKind
  <2>2. \A i : i = o /\ Exists(i) => Complete(i)'
    BY <1>3, <1>4, <1>7 DEF Complete, Exists, IsPair, IsKind
  <2> QED
    BY <1>1, <2>1, <2>2 DEF Makes, Exists
<1>9. ASSUME NEW i \in DOMAIN furn, Complete(i), ~Makes(s, i)
      PROVE  Complete(i)'
  <2>1. i # o /\ i # m /\ i # 0
    BY <1>1, <1>5, <1>9 DEF Makes
  <2>2. furn[i].kind = "teleporter" /\ Exists(o) => furn[i].pair # o
    BY <1>4, <1>9, <2>1 DEF Complete, IsPair, Exists
  <2> QED
    BY <1>3, <1>9, <2>1, <2>2 DEF Complete, Exists
<1> QED
  BY <1>2, <1>3, <1>6, <1>8, <1>9, Settles DEF Goods

\* A purchase completes what it makes before it goes on to the next item.
LEMMA GoodsShop ==
  ASSUME TypeOK, Able, Numbered, Goods, NEW s \in Session, Shop(s), ~crossed'
  PROVE  Goods'
<1> DEFINE t == task[s]
<1>0. Given(t.mine) /\ Making(s) /\ serial + 1 # 0 /\ serial \in Nat
  BY DEF Numbered, Orderly, Goods, TypeOK
<1>1. CASE InsertBox(s)
  <2>1. PICK u : Insert(NewRow(u, "hand", "box", 0))
    BY <1>1 DEF InsertBox
  <2>2. Lasts /\ furn'[serial + 1].kind = "box"
    BY <2>1, InsertLasts DEF NewRow
  <2>3. Elsewhere(s) /\ Pc(s)' = "boxid" /\ Pc(s) = "box"
    BY <1>1, ShopLocals DEF Becomes, InsertBox
  <2> QED
    BY <2>2, <2>3, MakesNothing DEF Makes
<1>2. CASE InsertItem(s)
  <2> DEFINE row == NewRow(t.for, Wrapping(s), Head(t.todo), 0)
  <2>1. Insert(row) /\ Pc(s) = "insert"
    BY <1>2 DEF InsertItem
  <2>2. row.kind = Head(t.todo) /\ row.pair = 0
    BY DEF NewRow
  <2>3. Becomes(s, "handle", serial + 1, t.one, t.box)
    BY <1>2, ShopLocals
  <2> HIDE DEF row
  <2>4. Making(s)'
    BY <1>0, <2>1, <2>2, <2>3, InsertLasts DEF Making, Becomes, IsKind, IsPair, Exists
  <2>5. \A i : Makes(s, i)' <=> i = serial + 1
    BY <2>3 DEF Makes, Becomes
  <2>6. \A i : ~Makes(s, i)
    BY <2>1 DEF Makes
  <2> QED
    BY <2>1, <2>3, <2>4, <2>5, <2>6, MakesAnew DEF Becomes
<1>3. CASE HandleTeleporter(s)
  <2> DEFINE row == NewRow(t.for, Wrapping(s), "teleporter", LastItemId)
  <2>1. /\ Insert(row) /\ Pc(s) = "handle" /\ Head(t.todo) = "teleporter"
        /\ LastItemId = t.mine
    BY <1>3 DEF HandleTeleporter, Crosses
  <2>2. row.kind = "teleporter" /\ row.pair = LastItemId
    BY DEF NewRow
  <2>3. Becomes(s, "link", serial + 1, t.mine, t.box)
    BY <1>3, <2>1, ShopLocals
  <2> HIDE DEF row
  <2>4. /\ t.mine # 0 /\ t.mine # serial + 1
        /\ IsKind(t.mine, "teleporter") /\ IsPair(t.mine, 0)
    BY <1>0, <2>1 DEF Making, Given
  <2>5. \A i : i = t.mine => IsKind(i, "teleporter")' /\ IsPair(i, 0)'
    <3>1. \A i : i # serial + 1 /\ i \in DOMAIN furn' =>
            /\ i \in DOMAIN furn
            /\ furn'[i].kind = furn[i].kind /\ furn'[i].pair = furn[i].pair
      BY <2>1, InsertLasts DEF Lasts
    <3> QED
      BY <2>4, <3>1 DEF IsKind, IsPair, Exists
  <2>6. Making(s)'
    BY <1>0, <2>1, <2>2, <2>3, <2>4, <2>5, InsertLasts
       DEF Making, Becomes, IsKind, IsPair, Exists
  <2>7. \A i : Makes(s, i)' <=> i \in {serial + 1, t.mine}
    BY <2>3 DEF Makes, Becomes
  <2>8. \A i : Makes(s, i) <=> i = t.mine
    BY <2>1 DEF Makes
  <2> QED
    BY <2>1, <2>3, <2>6, <2>7, <2>8, MakesAnew DEF Becomes
<1>4. CASE HandlePlain(s)
  <2>1. /\ Pc(s) = "handle" /\ Head(t.todo) \notin {"marked", "teleporter"}
        /\ UNCHANGED furn
    BY <1>4 DEF HandlePlain, goods
  <2>2. Elsewhere(s) /\ Pc(s)' \notin {"handle", "link"}
    <3>1. ~InsertItem(s) /\ ~HandleTeleporter(s)
      BY <2>1, <1>4 DEF InsertItem, HandleTeleporter
    <3> QED
      BY <3>1, ShopNext
  <2>3. \A i \in DOMAIN furn : Makes(s, i) => Complete(i)
    BY <1>0, <2>1 DEF Making, Makes, IsKind, Exists, Complete
  <2>4. Lasts /\ serial + 1 \notin DOMAIN furn'
    BY <2>1, RowsStay DEF TypeOK
  <2> QED
    BY <2>2, <2>3, <2>4, MakesNothing
<1>5. ASSUME \/ \E o \in Offer, v \in User, gift \in BOOLEAN : Purchase(s, o, v, gift)
             \/ BoxId(s) \/ Pay(s) \/ Wrap(s) \/ AddTickets(s)
             \/ \E v \in User : BuyTickets(s, v)
      PROVE  Goods'
  <2>1. UNCHANGED furn /\ Pc(s) \notin {"insert", "handle", "link"}
    BY <1>5 DEF Purchase, BoxId, Pay, Wrap, AddTickets, BuyTickets, goods
  <2>2. Elsewhere(s) /\ Pc(s)' \notin {"handle", "link"}
    <3>1. ~InsertItem(s) /\ ~HandleTeleporter(s)
      BY <2>1, <1>5 DEF InsertItem, HandleTeleporter
    <3> QED
      BY <3>1, ShopNext
  <2>3. Lasts /\ serial + 1 \notin DOMAIN furn'
    BY <2>1, RowsStay DEF TypeOK
  <2> QED
    BY <2>1, <2>2, <2>3, MakesNothing DEF Makes
<1> QED
  BY <1>1, <1>2, <1>3, <1>4, <1>5, GoodsMarked, GoodsLinked DEF Shop

\* What disturbs stays so.
LEMMA DisturbedStep ==
  ASSUME TypeOK, [Next]_vars, Undisturbed'
  PROVE  Undisturbed
<1>1. ASSUME NEW s \in Session, Shop(s)
      PROVE  interrupted' = interrupted /\ (crossed' = crossed \/ Crosses(s))
  BY <1>1 DEF Shop, Purchase, InsertBox, BoxId, Pay, InsertItem, HandleMarked, HandlePlain,
    HandleTeleporter, LinkTeleporters, Wrap, BuyTickets, AddTickets, flags
<1>2. ASSUME NEW s \in Session, Redeem(s)
      PROVE  crossed' = crossed /\ \E c \in BOOLEAN : interrupted' = (interrupted \/ c)
  <2>1. CASE \E i \in DOMAIN furn : OpenPresent(s, i)
    BY <2>1 DEF OpenPresent
  <2>2. CASE ~\E i \in DOMAIN furn : OpenPresent(s, i)
    <3>1. crossed' = crossed /\ interrupted' = interrupted
      BY <1>2, <2>2 DEF Redeem, FindVoucher, RedeemCredit, Unpack, DeleteVoucher, Melt,
        ReadCredits, WriteCredits, Burst, Shred, flags
    <3> QED
      BY <3>1 DEF TypeOK
  <2> QED
    BY <2>1, <2>2
<1>3. ASSUME NEW s \in Session, Recycle(s)
      PROVE  crossed' = crossed /\ \E c \in BOOLEAN : interrupted' = (interrupted \/ c)
  <2>1. CASE DropItems(s)
    BY <2>1 DEF DropItems
  <2>2. CASE ~DropItems(s)
    <3>1. crossed' = crossed /\ interrupted' = interrupted
      BY <1>3, <2>2 DEF Recycle, RecyclerProceed, FindItem, RedeemOrCancel, CreateSession,
        MoveItem, BadItem, RewardSession, DropSession, flags
    <3> QED
      BY <3>1 DEF TypeOK
  <2> QED
    BY <2>1, <2>2
<1>4. ASSUME NEW s \in Session, Fail(s)
      PROVE  Undisturbed
  BY <1>4 DEF Fail, Undisturbed
<1>5. (\E s \in Session : Crosses(s)) => (crossed => crossed')
  BY DEF Crosses
<1>6. UNCHANGED <<crossed, interrupted>> => Undisturbed
  BY DEF Undisturbed
<1>7. ASSUME NEW s \in Session, Shop(s)
      PROVE  Undisturbed
  BY <1>1, <1>5, <1>7 DEF Undisturbed
<1>8. ASSUME NEW s \in Session, Redeem(s) \/ Recycle(s)
      PROVE  Undisturbed
  BY <1>2, <1>3, <1>8 DEF Undisturbed
<1> QED
  BY <1>4, <1>6, <1>7, <1>8 DEF Next, TimePasses, MoveAbout, flags, vars

LEMMA GoodsStep ==
  ASSUME TypeOK, Able, Numbered, GoodsInv, [Next]_vars
  PROVE  GoodsInv'
<1> SUFFICES ASSUME Undisturbed' PROVE Goods'
  BY DEF GoodsInv
<1>0. Goods /\ ~crossed' /\ serial + 1 \notin DOMAIN furn
  BY DisturbedStep DEF GoodsInv, Undisturbed, TypeOK
<1>1. ASSUME NEW s \in Session, Redeem(s) \/ Recycle(s)
      PROVE  Goods'
  <2>1. Elsewhere(s) /\ {Pc(s), Pc(s)'} \cap {"handle", "link"} = {}
    BY <1>1, OrderlyAside DEF Purchasing
  <2>2. Lasts /\ (serial + 1 \in DOMAIN furn' => furn'[serial + 1].kind = "reward")
    <3>1. \A u, w, k, p : NewRow(u, w, k, p).kind = k
      BY DEF NewRow
    <3> QED
      BY <1>0, <1>1, <3>1, RedeemLasts, RecycleLasts
  <2> QED
    BY <1>0, <2>1, <2>2, MakesNothing DEF Makes
<1>2. ASSUME UNCHANGED task, Lasts, serial + 1 \notin DOMAIN furn'
      PROVE  Goods'
  <2>1. \A t \in Session : Making(t)'
    BY <1>0, <1>2, MakingLasts DEF Goods
  <2>2. \A t \in Session : \A i : Makes(t, i)' <=> Makes(t, i)
    BY <1>2 DEF Makes, Pc
  <2>3. DOMAIN furn' \subseteq DOMAIN furn
    BY <1>2 DEF Lasts
  <2>4. \A i \in DOMAIN furn' : Complete(i)' \/ \E t \in Session : Makes(t, i)'
    BY <1>0, <1>2, <2>2, <2>3, CompleteLasts DEF Goods
  <2> QED
    BY <1>0, <2>1, <2>2, <2>4 DEF Goods
<1>3. ASSUME NEW s \in Session, Fail(s)
      PROVE  FALSE
  BY <1>3 DEF Fail, Undisturbed
<1>4. ASSUME NEW i \in DOMAIN furn, NEW w \in Where, NEW v \in User, MoveAbout(i, w, v)
      PROVE  Goods'
  BY <1>0, <1>2, <1>4, MoveAboutLasts DEF MoveAbout
<1>5. UNCHANGED <<task, furn>> => Goods'
  BY <1>0, <1>2, RowsStay
<1> QED
  BY <1>0, <1>1, <1>3, <1>4, <1>5, GoodsShop DEF Next, TimePasses, goods, vars

\* Whatever is bought, whoever buys at the same time and whatever happens to the items
\* meanwhile: as long as the highest id was the buyer's own and no packet failed, every
\* item is complete or still in the hands of the purchase that makes it.
THEOREM PurchasesComplete == Spec => []GoodsComplete
<1>1. Init => TypeOK /\ Able /\ Numbered /\ GoodsInv
  <2>1. Init => GoodsInv
    BY DEF Init, GoodsInv, Goods, Making, Makes, AtRest, Pc
  <2> QED
    BY <2>1, TypeInit, NumberedInit
<1>2. TypeOK /\ Able /\ Numbered /\ GoodsInv /\ [Next]_vars
        => (TypeOK /\ Able /\ Numbered /\ GoodsInv)'
  BY TypeStep, NumberedStep, GoodsStep
<1>3. GoodsInv => GoodsComplete
  BY DEF GoodsInv, Undisturbed, Goods, GoodsComplete, Complete, UnderWay, Handles, Makes
<1> QED
  BY <1>1, <1>2, <1>3, PTL DEF Spec

-----------------------------------------------------------------------------
\* Gifts.  While nothing is disturbed, the box of a gift is there until everything is
\* in it; nobody unpacks a box that is still being filled; who unpacks has everything
\* in his hands that is wrapped; and what is wrapped is in a box or about to be.
IsBox(b) == Exists(b) /\ furn[b].kind = "box"
Held(i) == \E b \in DOMAIN furn : <<b, i>> \in presents
Filling(s, b) == task[s].gift /\ b \in {task[s].box, task[s].mine}
Wraps(s, i) ==
  /\ task[s].gift
  /\ \/ i = task[s].mine /\ Pc(s) \in {"handle", "link", "wrap"}
     \/ /\ i = task[s].one /\ Pc(s) \in {"link", "wrap"}
        /\ Head(task[s].todo) = "teleporter"
Fills(s) ==
  /\ task[s].gift /\ Pc(s) = "boxid" => IsBox(task[s].mine)
  /\ task[s].gift /\ Pc(s) \in {"pay", "insert", "handle", "link", "wrap"} =>
       IsBox(task[s].box)
  /\ Pc(s) = "wrap" => task[s].gift
Empties(s) ==
  LET b == task[s].box IN
  /\ Pc(s) = "unpack" =>
       /\ b # 0 /\ \A t \in Session : ~Filling(t, b)
       /\ \A i \in DOMAIN furn :
            <<b, i>> \in presents /\ At(i, "wrapped") => i \in task[s].things
  /\ Pc(s) = "shred" => ~Exists(b)
  /\ Pc(s) = "melt" => IsKind(task[s].one, "credit")
Gifts ==
  /\ \A s \in Session : Fills(s) /\ Empties(s)
  /\ \A p \in presents : IsKind(p[1], "box")
  /\ \A i \in DOMAIN furn : At(i, "wrapped") => Held(i) \/ \E s \in Session : Wraps(s, i)
GiftsInv == Undisturbed => Gifts

\* A box that is there stays what it is for the gift it is for, ...
LEMMA FillsLasts ==
  ASSUME TypeOK, Numbered, Ages, NEW t \in Session, Fills(t), task'[t] = task[t],
         \A b \in DOMAIN furn : IsBox(b) /\ Filling(t, b) => b \in DOMAIN furn'
  PROVE  Fills(t)'
<1>1. \A b : b = task[t].box \/ b = task[t].mine => b # serial + 1
  BY DEF TypeOK, Numbered, Orderly, Given
<1>2. ASSUME NEW b, Filling(t, b), IsBox(b)
      PROVE  IsBox(b)'
  BY <1>1, <1>2 DEF Filling, IsBox, Exists, Ages
<1> QED
  BY <1>2 DEF Fills, Filling, Pc

\* ... and who unpacks goes on undisturbed.
LEMMA EmptiesLasts ==
  ASSUME TypeOK, Numbered, Ages, NEW t \in Session, Empties(t), task'[t] = task[t],
         \A r \in Session, b \in 1 .. serial : Filling(r, b)' => Filling(r, b),
         Pc(t) = "unpack" =>
           \A i : <<task[t].box, i>> \in presents' => <<task[t].box, i>> \in presents
  PROVE  Empties(t)'
<1> DEFINE b == task[t].box
           o == task[t].one
<1>0. /\ serial + 1 \notin 0 .. serial /\ b \in 0 .. serial /\ o \in 0 .. serial
      /\ \A p \in presents : p[2] \in 0 .. serial
  BY DEF TypeOK, Numbered, Orderly, Given
<1>1. ASSUME Pc(t) = "unpack"
      PROVE  /\ b # 0 /\ \A r \in Session : ~(Filling(r, b))
             /\ \A i \in DOMAIN furn : <<b, i>> \in presents /\ At(i, "wrapped") =>
                  i \in task[t].things
             /\ \A i : <<b, i>> \in presents' => <<b, i>> \in presents
             /\ b \in 1 .. serial
  BY <1>0, <1>1 DEF Empties, TypeOK
<1>2. ASSUME Pc(t) = "unpack", NEW r \in Session, NEW c, c = b
      PROVE  ~Filling(r, c)'
  BY <1>1, <1>2
<1>3. ASSUME Pc(t) = "unpack", NEW i \in DOMAIN furn', <<b, i>> \in presents', At(i, "wrapped")'
      PROVE  i \in task[t].things
  <2>1. <<b, i>> \in presents /\ i # serial + 1
    BY <1>0, <1>1, <1>3
  <2>2. i \in DOMAIN furn /\ At(i, "wrapped")
    BY <1>3, <2>1 DEF Ages, At, Exists
  <2> QED
    BY <1>1, <1>3, <2>1, <2>2
<1>4. Pc(t) = "shred" => b \notin DOMAIN furn'
  BY <1>0 DEF Empties, Exists, Ages
<1>5. Pc(t) = "melt" /\ o \in DOMAIN furn' => furn'[o].kind = "credit"
  BY <1>0 DEF Empties, Exists, Ages, IsKind
<1>6. Pc(t)' = Pc(t)
  BY DEF Pc
<1> QED
  BY <1>1, <1>2, <1>3, <1>4, <1>5, <1>6 DEF Empties, Exists, IsKind

\* The kind of a box that is given out.
LEMMA KindLasts ==
  ASSUME TypeOK, Ages, NEW i \in 0 .. serial, NEW k, IsKind(i, k)
  PROVE  IsKind(i, k)'
  BY DEF TypeOK, Ages, IsKind, Exists

\* What is held stays held while its box is there, and what is in it.
LEMMA HeldLasts ==
  ASSUME NEW i, Held(i),
         \A b \in DOMAIN furn : <<b, i>> \in presents =>
           b \in DOMAIN furn' /\ <<b, i>> \in presents'
  PROVE  Held(i)'
  BY DEF Held

\* Steps that belong to no purchase.
LEMMA GiftsAside ==
  ASSUME TypeOK, Numbered, Gifts, Ages, presents' \subseteq presents,
         \A t \in Session :
           \/ task'[t] = task[t]
           \/ /\ ~task[t].gift /\ ~task'[t].gift /\ Empties(t)'
              /\ {Pc(t), Pc(t)'} \cap Purchasing = {},
         \A t \in Session, b \in DOMAIN furn :
           IsBox(b) /\ Filling(t, b) => b \in DOMAIN furn',
         \A i \in DOMAIN furn' : At(i, "wrapped")' =>
           i \in DOMAIN furn /\ (Held(i) => Held(i)')
  PROVE  Gifts'
<1>1. \A t \in Session : \A b : Filling(t, b)' => Filling(t, b)
  BY DEF Filling
<1>2. ASSUME NEW t \in Session, task'[t] = task[t]
      PROVE  Fills(t)' /\ Empties(t)'
  BY <1>1, <1>2, FillsLasts, EmptiesLasts DEF Gifts
<1>3. ASSUME NEW t \in Session, task'[t] # task[t]
      PROVE  Fills(t)' /\ Empties(t)'
  BY <1>3 DEF Fills, Purchasing
<1>4. \A p \in presents' : IsKind(p[1], "box")'
  <2>1. \A p \in presents : p[1] \in 0 .. serial /\ IsKind(p[1], "box")
    BY DEF Numbered, Given, Gifts
  <2>2. \A p \in presents : p[1] \in DOMAIN furn' => furn'[p[1]].kind = "box"
    BY <2>1 DEF TypeOK, Ages, IsKind, Exists
  <2> QED
    BY <2>2 DEF IsKind, Exists
<1>5. ASSUME NEW i \in DOMAIN furn', At(i, "wrapped")'
      PROVE  Held(i)' \/ \E s \in Session : Wraps(s, i)'
  <2>1. i \in DOMAIN furn /\ At(i, "wrapped")
    BY <1>5 DEF Ages, At, Exists, TypeOK
  <2>2. CASE Held(i)
    BY <1>5, <2>2
  <2>3. ASSUME NEW s \in Session, Wraps(s, i)
        PROVE  Wraps(s, i)'
    <3>1. task'[s] = task[s]
      BY <2>3 DEF Wraps
    <3> QED
      BY <2>3, <3>1 DEF Wraps, Pc
  <2> QED
    BY <2>1, <2>2, <2>3 DEF Gifts
<1> QED
  BY <1>2, <1>3, <1>4, <1>5 DEF Gifts

\* A step that leaves the boxes alone and what is in them.
LEMMA BoxesStay ==
  ASSUME TypeOK, Gifts, Ages, UNCHANGED presents, DOMAIN furn \subseteq DOMAIN furn',
         serial + 1 \in DOMAIN furn' => furn'[serial + 1].at # "wrapped"
  PROVE  /\ \A t \in Session, b \in DOMAIN furn :
           IsBox(b) /\ Filling(t, b) => b \in DOMAIN furn'
         /\ \A i \in DOMAIN furn' : At(i, "wrapped")' =>
              i \in DOMAIN furn /\ (Held(i) => Held(i)')
<1>1. \A i : Held(i) => Held(i)'
  BY HeldLasts
<1> QED
  BY <1>1 DEF Ages, At, Exists

LEMMA GiftsRedeem ==
  ASSUME TypeOK, Numbered, Gifts, [Next]_vars, NEW s \in Session, Redeem(s), Undisturbed'
  PROVE  Gifts'
<1> DEFINE q == task[s]
<1>0. /\ Ages /\ Elsewhere(s) /\ ~task[s].gift /\ ~task'[s].gift
      /\ {Pc(s), Pc(s)'} \cap Purchasing = {}
      /\ DOMAIN furn' \subseteq DOMAIN furn /\ serial + 1 \notin DOMAIN furn
      /\ Empties(s)
  BY AgesStep, OrderlyAside, RedeemLasts DEF TypeOK, Gifts
<1>1. ASSUME Empties(s)', presents' \subseteq presents,
             \A t \in Session, b \in DOMAIN furn :
           IsBox(b) /\ Filling(t, b) => b \in DOMAIN furn',
             \A i \in DOMAIN furn' : At(i, "wrapped")' /\ Held(i) => Held(i)'
      PROVE  Gifts'
  BY <1>0, <1>1, GiftsAside DEF Elsewhere
<1>2. ASSUME Empties(s)', UNCHANGED presents, DOMAIN furn' = DOMAIN furn
      PROVE  Gifts'
  BY <1>0, <1>1, <1>2, BoxesStay
<1>3. ASSUME Pc(s)' \notin {"unpack", "shred", "melt"}
      PROVE  Empties(s)'
  BY <1>3 DEF Empties
<1>4. CASE \E c \in Voucher : FindVoucher(s, c)
  <2>1. Pc(s)' = "tear"
    BY <1>4, RedeemLocals DEF Becomes
  <2> QED
    BY <1>2, <1>3, <1>4, <2>1 DEF FindVoucher, goods
<1>5. ASSUME NEW i \in DOMAIN furn, RedeemCredit(s, i)
      PROVE  Gifts'
  <2>1. Pc(s)' = "melt" /\ task'[s].one = i
    BY <1>5, RedeemLocals DEF Becomes
  <2>2. furn[i].kind = "credit" /\ UNCHANGED furn /\ UNCHANGED presents
    BY <1>5 DEF RedeemCredit, goods
  <2>3. Empties(s)'
    BY <2>1, <2>2 DEF Empties, IsKind
  <2> QED
    BY <1>2, <2>2, <2>3
<1>6. ASSUME NEW b \in DOMAIN furn, OpenPresent(s, b)
      PROVE  Gifts'
  <2>1. /\ Pc(s)' = "unpack" /\ task'[s].box = b
        /\ task'[s].things = {i \in DOMAIN furn : <<b, i>> \in presents}
    BY <1>6, RedeemLocals DEF Becomes
  <2>2. UNCHANGED furn /\ UNCHANGED presents
    BY <1>6 DEF OpenPresent, goods
  <2>3. ~BeingFilled(b)
    BY <1>6 DEF OpenPresent, Undisturbed
  <2>4. \A t \in Session : ~Filling(t, b)'
    BY <1>0, <2>3 DEF BeingFilled, Filling, Elsewhere
  <2>5. Empties(s)'
    BY <2>1, <2>2, <2>4 DEF Empties, TypeOK
  <2> QED
    BY <1>2, <2>2, <2>5
<1>7. ASSUME NEW j \in DOMAIN furn, Unpack(s, j)
      PROVE  Gifts'
  <2>1. /\ Pc(s)' = "unpack" /\ task'[s].box = q.box
        /\ task'[s].things = q.things \ {j}
    BY <1>7, RedeemLocals DEF Becomes
  <2>2. Put({j}, "hand") /\ UNCHANGED presents /\ Pc(s) = "unpack"
    BY <1>7 DEF Unpack
  <2>3. DOMAIN furn' = DOMAIN furn /\ ~At(j, "wrapped")'
    BY <2>2 DEF Put, At, TypeOK, Row
  <2>4. \A t \in Session : \A c : Filling(t, c)' => Filling(t, c)
    BY <1>0 DEF Filling, Elsewhere
  <2>5. /\ q.box # 0 /\ \A t \in Session : ~Filling(t, q.box)
        /\ \A i \in DOMAIN furn :
             <<q.box, i>> \in presents /\ At(i, "wrapped") => i \in q.things
    BY <1>0, <2>2 DEF Empties
  <2>6. \A t \in Session : \A c : c = q.box => ~Filling(t, c)'
    BY <2>4, <2>5
  <2>7. \A i \in DOMAIN furn' :
          <<q.box, i>> \in presents' /\ At(i, "wrapped")' => i \in q.things \ {j}
    BY <1>0, <2>2, <2>3, <2>5 DEF Ages, At, Exists
  <2>8. Empties(s)'
    BY <2>1, <2>5, <2>6, <2>7 DEF Empties
  <2> QED
    BY <1>2, <2>2, <2>3, <2>8
<1>8. CASE DeleteVoucher(s) \/ ReadCredits(s) \/ WriteCredits(s)
  <2>1. Pc(s)' \notin {"unpack", "shred", "melt"}
    BY <1>8, RedeemLocals, WhereNext
  <2> QED
    BY <1>2, <1>3, <1>8, <2>1 DEF DeleteVoucher, ReadCredits, WriteCredits, goods
<1>9. CASE Melt(s)
  <2>1. Pc(s)' \notin {"unpack", "shred", "melt"}
    BY <1>9, RedeemLocals, WhereNext
  <2>2. DOMAIN furn' = DOMAIN furn \ {q.one} /\ UNCHANGED presents
    BY <1>9 DEF Melt, Delete
  <2>3. IsKind(q.one, "credit")
    BY <1>0, <1>9 DEF Empties, Melt
  <2>4. ASSUME NEW t \in Session, NEW b \in DOMAIN furn, IsBox(b)
        PROVE  b \in DOMAIN furn'
    BY <2>2, <2>3, <2>4 DEF IsBox, IsKind, Exists
  <2>5. \A b \in DOMAIN furn : \A i : <<b, i>> \in presents => b \in DOMAIN furn'
    BY <2>2, <2>3 DEF Gifts, IsKind, Exists
  <2>6. \A i : Held(i) => Held(i)'
    BY <2>2, <2>5 DEF Held
  <2> QED
    BY <1>1, <1>3, <2>1, <2>2, <2>4, <2>6
<1>10. CASE Burst(s)
  <2>1. Pc(s)' = "shred" /\ task'[s].box = q.box
    BY <1>10, RedeemLocals DEF Becomes
  <2>2. DOMAIN furn' = DOMAIN furn \ {q.box} /\ UNCHANGED presents
    BY <1>10 DEF Burst, Delete
  <2>3. /\ \A t \in Session : ~Filling(t, q.box)
        /\ \A i \in DOMAIN furn : <<q.box, i>> \in presents => ~At(i, "wrapped")
    BY <1>0, <1>10 DEF Empties, Burst
  <2>4. Empties(s)'
    BY <2>1, <2>2 DEF Empties, Exists
  <2>5. ASSUME NEW i \in DOMAIN furn', At(i, "wrapped")', Held(i)
        PROVE  Held(i)'
    <3>1. i \in DOMAIN furn /\ At(i, "wrapped")
      BY <1>0, <2>5 DEF Ages, At, Exists
    <3>2. <<q.box, i>> \notin presents
      BY <2>3, <3>1
    <3> QED
      BY <2>2, <2>5, <3>2, HeldLasts
  <2> QED
    BY <1>1, <2>2, <2>3, <2>4, <2>5
<1>11. CASE Shred(s)
  <2>1. Pc(s)' = "ready"
    BY <1>11, RedeemLocals, WhereNext
  <2>2. UNCHANGED furn /\ presents' = {p \in presents : p[1] # q.box}
    BY <1>11 DEF Shred
  <2>3. q.box \notin DOMAIN furn
    BY <1>0, <1>11 DEF Empties, Shred, Exists
  <2>4. \A i : Held(i) => Held(i)'
    BY <2>2, <2>3 DEF Held
  <2> QED
    BY <1>1, <1>3, <2>1, <2>2, <2>4
<1> QED
  BY <1>4, <1>5, <1>6, <1>7, <1>8, <1>9, <1>10, <1>11 DEF Redeem

LEMMA GiftsRecycle ==
  ASSUME TypeOK, Numbered, Gifts, [Next]_vars, NEW s \in Session, Recycle(s), Undisturbed'
  PROVE  Gifts'
<1>0. /\ Ages /\ Elsewhere(s) /\ ~task[s].gift /\ ~task'[s].gift
      /\ {Pc(s), Pc(s)'} \cap Purchasing = {}
      /\ serial + 1 \notin DOMAIN furn
  BY AgesStep, OrderlyAside DEF TypeOK
<1>1. Empties(s)'
  <2>1. Pc(s)' \in RecyclerPC \cup {"ready"}
    BY RecycleLocals, WhereNext DEF InRecycler
  <2> QED
    BY <2>1 DEF RecyclerPC, Empties
<1>2. serial + 1 \in DOMAIN furn' => furn'[serial + 1].at # "wrapped"
  <2>1. \A u, w, k, p : NewRow(u, w, k, p).at = w
    BY DEF NewRow
  <2> QED
    BY <2>1, RecycleLasts
<1>3. UNCHANGED presents
  BY DEF Recycle, RecyclerProceed, FindItem, RedeemOrCancel, CreateSession, MoveItem,
    BadItem, RewardSession, DropSession, DropItems, goods
<1>4. CASE DOMAIN furn \subseteq DOMAIN furn'
  BY <1>0, <1>1, <1>2, <1>3, <1>4, BoxesStay, GiftsAside DEF Elsewhere
<1>5. ASSUME DropItems(s), ~task[s].keep
      PROVE  Gifts'
  <2> DEFINE S == OwnedBy(Account[s], "recycler")
  <2>1. DOMAIN furn' = DOMAIN furn \ S
    BY <1>5 DEF DropItems, Delete
  <2>2. \A b \in S : ~Filled(b) /\ ~BeingFilled(b)
    BY <1>5 DEF DropItems, Undisturbed
  <2>3. \A t \in Session, b \in DOMAIN furn :
           IsBox(b) /\ Filling(t, b) => b \in DOMAIN furn'
    BY <2>1, <2>2 DEF BeingFilled, Filling
  <2>4. ASSUME NEW i \in DOMAIN furn', At(i, "wrapped")', Held(i)
        PROVE  Held(i)'
    <3>1. i \in DOMAIN furn /\ At(i, "wrapped")
      BY <1>0, <2>1, <2>4 DEF Ages, At, Exists
    <3>2. \A b \in DOMAIN furn : <<b, i>> \in presents => b \in DOMAIN furn'
      BY <2>1, <2>2, <3>1 DEF Filled
    <3> QED
      BY <1>3, <2>4, <3>2, HeldLasts
  <2> HIDE DEF S
  <2>5. DOMAIN furn' \subseteq DOMAIN furn
    BY <2>1
  <2> QED
    BY <1>0, <1>1, <1>3, <2>3, <2>4, <2>5, GiftsAside DEF Elsewhere
<1>6. DOMAIN furn \subseteq DOMAIN furn' \/ (DropItems(s) /\ ~task[s].keep)
  <2>1. CASE MoveItem(s)
    BY <2>1 DEF MoveItem, Put
  <2>2. CASE DropItems(s) /\ task[s].keep
    BY <2>2 DEF DropItems, Put
  <2>3. CASE RewardSession(s)
    BY <2>3, InsertLasts DEF RewardSession
  <2>4. ASSUME ~MoveItem(s), ~RewardSession(s), ~DropItems(s)
        PROVE  UNCHANGED furn
    BY <2>4 DEF Recycle, RecyclerProceed, FindItem, RedeemOrCancel,
                CreateSession, BadItem, DropSession, goods
  <2> QED
    BY <2>1, <2>2, <2>3, <2>4
<1> QED
  BY <1>4, <1>5, <1>6

\* Purchases take no row away.
LEMMA ShopKeepsRows ==
  ASSUME TypeOK, NEW s \in Session, Shop(s)
  PROVE  /\ DOMAIN furn \subseteq DOMAIN furn'
         /\ \/ InsertBox(s) \/ InsertItem(s) \/ HandleTeleporter(s)
            \/ serial + 1 \notin DOMAIN furn'
<1>1. CASE InsertBox(s) \/ InsertItem(s) \/ HandleTeleporter(s)
  BY <1>1, ShopRows, InsertLasts
<1>2. CASE Marks(s) \/ Links(s)
  BY <1>2 DEF Marks, Links, TypeOK
<1>3. CASE UNCHANGED furn
  BY <1>3 DEF TypeOK
<1> QED
  BY <1>1, <1>2, <1>3, ShopRows

\* A box that is there stays a box while no row is taken away.
LEMMA BoxStays ==
  ASSUME TypeOK, Ages, DOMAIN furn \subseteq DOMAIN furn', NEW b, IsBox(b)
  PROVE  IsBox(b)'
  BY DEF TypeOK, Ages, IsBox, Exists

\* Steps of a purchase: they take nothing away, wrap what is the session's own, and put
\* it into the box that the session fills.
LEMMA GiftsOn ==
  ASSUME TypeOK, Numbered, Gifts, Ages, NEW s \in Session, Elsewhere(s),
         DOMAIN furn \subseteq DOMAIN furn', presents \subseteq presents',
         \A b \in 1 .. serial : Filling(s, b)' => Filling(s, b),
         Fills(s)', Pc(s)' \notin {"unpack", "shred", "melt"},
         \A p \in presents' : p \in presents \/ (Filling(s, p[1]) /\ IsBox(p[1])),
         \A i \in DOMAIN furn : Wraps(s, i) => Held(i)' \/ Wraps(s, i)',
         \A i : i = serial + 1 /\ At(i, "wrapped")' => Wraps(s, i)'
  PROVE  Gifts'
<1>1. ASSUME NEW t \in Session \ {s}
      PROVE  Fills(t)' /\ Empties(t)'
  <2>1. task'[t] = task[t] /\ Fills(t) /\ Empties(t)
    BY DEF Elsewhere, Gifts
  <2>2. \A b \in DOMAIN furn : IsBox(b) /\ Filling(t, b) => b \in DOMAIN furn'
    OBVIOUS
  <2>3. \A r \in Session, b \in 1 .. serial : Filling(r, b)' => Filling(r, b)
    BY DEF Elsewhere, Filling
  <2>4. Pc(t) = "unpack" =>
          \A i : <<task[t].box, i>> \in presents' => <<task[t].box, i>> \in presents
    BY <2>1 DEF Empties
  <2> QED
    BY <2>1, <2>2, <2>3, <2>4, FillsLasts, EmptiesLasts
<1>2. Empties(s)'
  BY DEF Empties
<1>3. \A p \in presents' : IsKind(p[1], "box")'
  <2>1. \A p \in presents : p[1] \in 0 .. serial /\ IsKind(p[1], "box")
    BY DEF Numbered, Given, Gifts
  <2>2. \A p \in presents : p[1] \in DOMAIN furn' => furn'[p[1]].kind = "box"
    BY <2>1 DEF TypeOK, Ages, IsKind, Exists
  <2>3. \A b : IsBox(b) /\ b \in DOMAIN furn' => furn'[b].kind = "box"
    BY DEF TypeOK, Ages, IsBox, Exists
  <2> QED
    BY <2>2, <2>3 DEF IsKind, Exists
<1>4. ASSUME NEW i \in DOMAIN furn', At(i, "wrapped")'
      PROVE  Held(i)' \/ \E t \in Session : Wraps(t, i)'
  <2>1. CASE i \notin DOMAIN furn
    BY <1>4, <2>1 DEF Ages
  <2>2. ASSUME i \in DOMAIN furn, Held(i)
        PROVE  Held(i)'
    BY <2>2 DEF Held
  <2>3. ASSUME NEW t \in Session \ {s}, Wraps(t, i)
        PROVE  Wraps(t, i)'
    BY <2>3 DEF Wraps, Pc, Elsewhere
  <2>4. i \in DOMAIN furn => At(i, "wrapped")
    BY <1>4 DEF Ages, At, Exists, TypeOK
  <2> QED
    BY <2>1, <2>2, <2>3, <2>4 DEF Gifts
<1> QED
  BY <1>1, <1>2, <1>3, <1>4 DEF Gifts

LEMMA GiftsShop ==
  ASSUME TypeOK, Able, Numbered, Gifts, [Next]_vars, NEW s \in Session, Shop(s), ~crossed'
  PROVE  Gifts'
<1> DEFINE t == task[s]
<1>0. /\ Ages /\ Elsewhere(s) /\ Fills(s) /\ DOMAIN furn \subseteq DOMAIN furn'
      /\ serial \in Nat /\ serial + 1 \notin 1 .. serial
  BY AgesStep, OrderlyShop, ShopKeepsRows DEF Gifts, TypeOK
<1>1. \A b : IsBox(b) => IsBox(b)'
  BY <1>0, BoxStays
<1>2. ASSUME ~Wrap(s)
      PROVE  presents' = presents
  BY <1>2 DEF Shop, Purchase, InsertBox, BoxId, Pay, InsertItem, HandleMarked, HandlePlain,
    HandleTeleporter, LinkTeleporters, BuyTickets, AddTickets, goods
<1>3. ASSUME ~InsertBox(s), ~InsertItem(s), ~HandleTeleporter(s)
      PROVE  \A i : i = serial + 1 => ~At(i, "wrapped")'
  BY <1>3, ShopKeepsRows DEF At, Exists
<1>4. \A u, w, k, p : NewRow(u, w, k, p).at = w /\ NewRow(u, w, k, p).kind = k
  BY DEF NewRow
<1>5. ASSUME ~Wrap(s), ~InsertItem(s), ~HandleTeleporter(s),
             \A b \in 1 .. serial : Filling(s, b)' => Filling(s, b),
             Fills(s)', Pc(s)' \notin {"unpack", "shred", "melt"},
             \A i \in DOMAIN furn : Wraps(s, i) => Wraps(s, i)'
      PROVE  Gifts'
  <2>1. presents' = presents
    BY <1>2, <1>5
  <2>2. \A i : i = serial + 1 => ~At(i, "wrapped")'
    <3>1. CASE InsertBox(s)
      <4>1. PICK u : Insert(NewRow(u, "hand", "box", 0))
        BY <3>1 DEF InsertBox
      <4> QED
        BY <1>4, <4>1, InsertLasts DEF At
    <3> QED
      BY <1>3, <1>5, <3>1
  <2> QED
    BY <1>0, <1>5, <2>1, <2>2, GiftsOn
<1>6. ASSUME ~Wrap(s), ~InsertItem(s), ~HandleTeleporter(s), ~task[s].gift, ~task'[s].gift,
             Pc(s)' \notin {"unpack", "shred", "melt", "wrap"}
      PROVE  Gifts'
  BY <1>5, <1>6 DEF Filling, Fills, Wraps
<1>6a. ASSUME Pc(s) = "ready"
       PROVE  t.mine = 0 /\ t.box = 0 /\ ~t.gift
  <2>1. task[s] = AtRest(s)
    BY <1>6a DEF Numbered, Orderly
  <2>2. AtRest(s).mine = 0 /\ AtRest(s).box = 0 /\ ~AtRest(s).gift
    BY DEF AtRest
  <2> QED
    BY <2>1, <2>2
<1>7. ASSUME NEW o \in Offer, NEW v \in User, NEW gift \in BOOLEAN, Purchase(s, o, v, gift)
      PROVE  Gifts'
  <2>1. /\ Pc(s)' = (IF gift THEN "box" ELSE "pay") /\ task'[s].gift = gift
        /\ task'[s].mine = t.mine /\ task'[s].box = t.box
    BY <1>7, AfterPurchase
  <2>2. Pc(s) = "ready" /\ t.mine = 0 /\ t.box = 0
    BY <1>7, <1>6a DEF Purchase
  <2>3. \A b \in 1 .. serial : ~Filling(s, b)'
    BY <2>1, <2>2 DEF Filling
  <2>4. Fills(s)' /\ \A i : ~Wraps(s, i)
    BY <2>1, <2>2 DEF Fills, Wraps
  <2>5. ~Wrap(s) /\ ~InsertItem(s) /\ ~HandleTeleporter(s)
    BY <2>2 DEF Wrap, InsertItem, HandleTeleporter
  <2> QED
    BY <1>5, <2>1, <2>3, <2>4, <2>5
<1>8. CASE InsertBox(s)
  <2>1. Becomes(s, "boxid", serial + 1, t.one, t.box) /\ Pc(s) = "box"
    BY <1>8, ShopLocals DEF InsertBox
  <2>2. PICK u : Insert(NewRow(u, "hand", "box", 0))
    BY <1>8 DEF InsertBox
  <2>3. \A b : b = serial + 1 => IsBox(b)'
    BY <1>4, <2>2, InsertLasts DEF IsBox, Exists
  <2>4. \A b \in 1 .. serial : Filling(s, b)' => Filling(s, b)
    BY <1>0, <2>1 DEF Filling, Becomes
  <2>5. Fills(s)' /\ \A i : ~Wraps(s, i)
    BY <2>1, <2>3 DEF Fills, Becomes, Wraps
  <2>6. ~Wrap(s) /\ ~InsertItem(s) /\ ~HandleTeleporter(s) /\ Pc(s)' = "boxid"
    BY <2>1 DEF Wrap, InsertItem, HandleTeleporter, Becomes
  <2> QED
    BY <1>5, <2>4, <2>5, <2>6
<1>9. CASE BoxId(s)
  <2>1. Becomes(s, "pay", t.mine, t.one, t.mine) /\ Pc(s) = "boxid"
    BY <1>9, ShopLocals DEF BoxId, Crosses
  <2>2. \A b \in 1 .. serial : Filling(s, b)' => Filling(s, b)
    BY <2>1 DEF Filling, Becomes
  <2>3. \A b : t.gift /\ b = t.mine => IsBox(b)'
    BY <1>0, <1>1, <2>1 DEF Fills
  <2>4. Fills(s)' /\ \A i : ~Wraps(s, i)
    BY <2>1, <2>3 DEF Fills, Becomes, Wraps
  <2>5. ~Wrap(s) /\ ~InsertItem(s) /\ ~HandleTeleporter(s) /\ Pc(s)' = "pay"
    BY <2>1 DEF Wrap, InsertItem, HandleTeleporter, Becomes
  <2> QED
    BY <1>5, <2>2, <2>4, <2>5
<1>10. CASE Pay(s)
  <2>1. PICK p \in {"tickets", "insert"} : Becomes(s, p, t.mine, t.one, t.box)
    BY <1>10, ShopLocals
  <2>2. Pc(s) = "pay"
    BY <1>10 DEF Pay
  <2>3. \A b : Filling(s, b)' => Filling(s, b)
    BY <2>1 DEF Filling, Becomes
  <2>4. \A b : t.gift /\ b = t.box => IsBox(b)'
    BY <1>0, <1>1, <2>2 DEF Fills
  <2>5. Fills(s)' /\ \A i : ~Wraps(s, i)
    BY <2>1, <2>2, <2>4 DEF Fills, Becomes, Wraps
  <2>6. ~Wrap(s) /\ ~InsertItem(s) /\ ~HandleTeleporter(s) /\ Pc(s)' \in {"tickets", "insert"}
    BY <2>1, <2>2 DEF Wrap, InsertItem, HandleTeleporter, Becomes
  <2> QED
    BY <1>5, <2>3, <2>5, <2>6
<1>11. CASE InsertItem(s)
  <2> DEFINE row == NewRow(t.for, Wrapping(s), Head(t.todo), 0)
  <2>1. Becomes(s, "handle", serial + 1, t.one, t.box) /\ Pc(s) = "insert" /\ Insert(row)
    BY <1>11, ShopLocals DEF InsertItem
  <2>2. row.at = Wrapping(s)
    BY <1>4
  <2> HIDE DEF row
  <2>3. \A b \in 1 .. serial : Filling(s, b)' => Filling(s, b)
    BY <1>0, <2>1 DEF Filling, Becomes
  <2>4. \A b : t.gift /\ b = t.box => IsBox(b)'
    BY <1>0, <1>1, <2>1 DEF Fills
  <2>5. Fills(s)' /\ \A i : ~Wraps(s, i)
    BY <2>1, <2>4 DEF Fills, Becomes, Wraps
  <2>6. ~Wrap(s) /\ Pc(s)' = "handle"
    BY <2>1 DEF Wrap, Becomes
  <2>7. \A i : i = serial + 1 /\ At(i, "wrapped")' => t.gift
    BY <2>1, <2>2, InsertLasts DEF At, Wrapping
  <2>8. \A i : i = serial + 1 /\ t.gift => Wraps(s, i)'
    BY <2>1 DEF Wraps, Becomes
  <2>9. presents' = presents
    BY <1>2, <2>6
  <2> QED
    BY <1>0, <2>3, <2>5, <2>6, <2>7, <2>8, <2>9, GiftsOn
<1>12. CASE HandleMarked(s) \/ HandlePlain(s)
  <2>0. Pc(s) = "handle" /\ Head(t.todo) # "teleporter"
    BY <1>12 DEF HandleMarked, HandlePlain
  <2>1. ~Wrap(s) /\ ~InsertItem(s) /\ ~HandleTeleporter(s)
    BY <2>0 DEF Wrap, InsertItem, HandleTeleporter
  <2>2. CASE t.gift
    <3>1. Becomes(s, "wrap", t.mine, t.one, t.box)
      BY <1>12, <2>2, ShopLocals
    <3>2. \A b : Filling(s, b)' => Filling(s, b)
      BY <3>1 DEF Filling, Becomes
    <3>3. \A b : b = t.box => IsBox(b)'
      BY <1>0, <1>1, <2>0, <2>2 DEF Fills
    <3>4. Fills(s)' /\ \A i : Wraps(s, i) => Wraps(s, i)'
      BY <2>0, <2>2, <3>1, <3>3 DEF Fills, Becomes, Wraps
    <3>5. Pc(s)' = "wrap"
      BY <3>1 DEF Becomes
    <3> QED
      BY <1>5, <2>1, <3>2, <3>4, <3>5
  <2>3. CASE ~t.gift
    <3>1. Ends(s) \/ NextItem(s)
      BY <1>12, <2>3, ShopLocals
    <3>2. ~task'[s].gift /\ Pc(s)' \in {"ready", "insert"}
      BY <2>3, <3>1 DEF Ends, NextItem, AtRest, Pc
    <3> QED
      BY <1>6, <2>1, <2>3, <3>2
  <2> QED
    BY <2>2, <2>3
<1>13. CASE HandleTeleporter(s)
  <2> DEFINE row == NewRow(t.for, Wrapping(s), "teleporter", LastItemId)
  <2>1. /\ Becomes(s, "link", serial + 1, t.mine, t.box) /\ Pc(s) = "handle"
        /\ Insert(row) /\ Head(t.todo) = "teleporter"
    BY <1>13, ShopLocals DEF HandleTeleporter, Crosses
  <2>2. row.at = Wrapping(s)
    BY <1>4
  <2> HIDE DEF row
  <2>3. \A b \in 1 .. serial : Filling(s, b)' => Filling(s, b)
    BY <1>0, <2>1 DEF Filling, Becomes
  <2>4. \A b : t.gift /\ b = t.box => IsBox(b)'
    BY <1>0, <1>1, <2>1 DEF Fills
  <2>5. Fills(s)' /\ \A i : Wraps(s, i) => Wraps(s, i)'
    BY <2>1, <2>4 DEF Fills, Becomes, Wraps
  <2>6. ~Wrap(s) /\ Pc(s)' = "link"
    BY <2>1 DEF Wrap, Becomes
  <2>7. \A i : i = serial + 1 /\ At(i, "wrapped")' => t.gift
    BY <2>1, <2>2, InsertLasts DEF At, Wrapping
  <2>8. \A i : i = serial + 1 /\ t.gift => Wraps(s, i)'
    BY <2>1 DEF Wraps, Becomes
  <2>9. presents' = presents
    BY <1>2, <2>6
  <2> QED
    BY <1>0, <2>3, <2>5, <2>6, <2>7, <2>8, <2>9, GiftsOn
<1>14. CASE LinkTeleporters(s)
  <2>0. Pc(s) = "link" /\ LastItemId = t.mine
    BY <1>14 DEF LinkTeleporters, Crosses
  <2>1. ~Wrap(s) /\ ~InsertItem(s) /\ ~HandleTeleporter(s)
    BY <2>0 DEF Wrap, InsertItem, HandleTeleporter
  <2>2. CASE t.gift
    <3>1. Becomes(s, "wrap", t.mine, t.one, t.box)
      BY <1>14, <2>0, <2>2, ShopLocals
    <3>2. \A b : Filling(s, b)' => Filling(s, b)
      BY <3>1 DEF Filling, Becomes
    <3>3. \A b : b = t.box => IsBox(b)'
      BY <1>0, <1>1, <2>0, <2>2 DEF Fills
    <3>4. Fills(s)' /\ \A i : Wraps(s, i) => Wraps(s, i)'
      BY <2>0, <2>2, <3>1, <3>3 DEF Fills, Becomes, Wraps
    <3>5. Pc(s)' = "wrap"
      BY <3>1 DEF Becomes
    <3> QED
      BY <1>5, <2>1, <3>2, <3>4, <3>5
  <2>3. CASE ~t.gift
    <3>1. Ends(s) \/ NextItem(s)
      BY <1>14, <2>3, ShopLocals
    <3>2. ~task'[s].gift /\ Pc(s)' \in {"ready", "insert"}
      BY <2>3, <3>1 DEF Ends, NextItem, AtRest, Pc
    <3> QED
      BY <1>6, <2>1, <2>3, <3>2
  <2> QED
    BY <2>2, <2>3
<1>15. CASE Wrap(s)
  <2>0. Pc(s) = "wrap" /\ t.gift /\ IsBox(t.box) /\ UNCHANGED furn
    BY <1>0, <1>15 DEF Wrap, Fills
  <2>1. PICK S : /\ S \subseteq {t.one, t.mine, LastItemId}
                 /\ presents' = presents \cup {<<t.box, i>> : i \in S}
    BY <1>15, WrapAdds
  <2>2. Ends(s) \/ NextItem(s)
    BY <1>15, ShopLocals
  <2>3. \A b \in 1 .. serial : Filling(s, b)' => Filling(s, b)
    BY <2>0, <2>2 DEF Filling, Ends, NextItem, AtRest
  <2>4. \A b : b = t.box => IsBox(b)'
    BY <1>1, <2>0
  <2>5. Pc(s)' \in {"ready", "insert"} /\ (Pc(s)' = "insert" => task'[s].box = t.box)
        /\ (Pc(s)' = "ready" => ~task'[s].gift)
    BY <2>2 DEF Ends, NextItem, AtRest, Pc
  <2>6. Fills(s)'
    BY <2>4, <2>5 DEF Fills
  <2>7. \A p \in presents' : p \in presents \/ (Filling(s, p[1]) /\ IsBox(p[1]))
    BY <2>0, <2>1 DEF Filling
  <2>8. ASSUME NEW i \in DOMAIN furn, Wraps(s, i)
        PROVE  Held(i)'
    <3>1. <<t.box, i>> \in presents'
      BY <1>15, <2>0, <2>8 DEF Wraps, Wrap, Crosses
    <3> QED
      BY <2>0, <3>1 DEF Held, IsBox, Exists
  <2>9. ~InsertBox(s) /\ ~InsertItem(s) /\ ~HandleTeleporter(s)
    BY <2>0 DEF InsertBox, InsertItem, HandleTeleporter
  <2>10. presents \subseteq presents'
    BY <2>1
  <2> QED
    BY <1>0, <1>3, <2>3, <2>5, <2>6, <2>7, <2>8, <2>9, <2>10, GiftsOn
<1>16. ASSUME NEW v \in User, BuyTickets(s, v)
       PROVE  Gifts'
  <2>1. Pc(s) = "ready" /\ ~t.gift
    BY <1>16, <1>6a DEF BuyTickets
  <2>2. ~task'[s].gift /\ Pc(s)' = "pay"
    BY <1>16, <2>1, AfterBuyTickets DEF Becomes
  <2>3. ~Wrap(s) /\ ~InsertItem(s) /\ ~HandleTeleporter(s)
    BY <2>1 DEF Wrap, InsertItem, HandleTeleporter
  <2> QED
    BY <1>6, <2>1, <2>2, <2>3
<1>17. CASE AddTickets(s)
  <2>1. Ends(s) /\ Pc(s) = "tickets"
    BY <1>17, ShopLocals DEF AddTickets
  <2>2. ~task'[s].gift /\ Pc(s)' = "ready"
    BY <2>1 DEF Ends, AtRest, Pc
  <2>3. ~Wrap(s) /\ ~InsertItem(s) /\ ~HandleTeleporter(s)
    BY <2>1 DEF Wrap, InsertItem, HandleTeleporter
  <2>4. Fills(s)' /\ (\A b : ~Filling(s, b)') /\ \A i : ~Wraps(s, i)
    BY <2>1, <2>2 DEF Fills, Filling, Wraps
  <2> QED
    BY <1>5, <2>2, <2>3, <2>4
<1> QED
  BY <1>7, <1>8, <1>9, <1>10, <1>11, <1>12, <1>13, <1>14, <1>15, <1>16, <1>17 DEF Shop

LEMMA GiftsStep ==
  ASSUME TypeOK, Able, Numbered, GiftsInv, [Next]_vars
  PROVE  GiftsInv'
<1> SUFFICES ASSUME Undisturbed' PROVE Gifts'
  BY DEF GiftsInv
<1>0. Gifts /\ ~crossed' /\ Ages /\ serial + 1 \notin DOMAIN furn
  BY DisturbedStep, AgesStep DEF GiftsInv, Undisturbed, TypeOK
<1>1. ASSUME NEW s \in Session, Fail(s)
      PROVE  FALSE
  BY <1>1 DEF Fail, Undisturbed
<1>2. ASSUME UNCHANGED <<task, presents>>, DOMAIN furn' = DOMAIN furn
      PROVE  Gifts'
  BY <1>0, <1>2, BoxesStay, GiftsAside
<1>3. ASSUME NEW i \in DOMAIN furn, NEW w \in Where, NEW v \in User, MoveAbout(i, w, v)
      PROVE  Gifts'
  BY <1>2, <1>3, MoveAboutLasts DEF MoveAbout
<1>4. UNCHANGED <<task, presents, furn>> => Gifts'
  BY <1>2
<1> QED
  BY <1>0, <1>1, <1>3, <1>4, GiftsShop, GiftsRedeem, GiftsRecycle
     DEF Next, TimePasses, goods, vars

\* A present is never lost: whoever buys, opens, melts and recycles meanwhile, and
\* wherever the box is moved, what is wrapped is in a box that is still there, or is
\* about to be put into one that is.
THEOREM PresentsArrive == Spec => []GiftsArrive
<1>1. Init => TypeOK /\ Able /\ Numbered /\ GiftsInv
  <2>1. Init => GiftsInv
    BY DEF Init, GiftsInv, Gifts, Fills, Empties, AtRest, Pc
  <2> QED
    BY <2>1, TypeInit, NumberedInit
<1>2. TypeOK /\ Able /\ Numbered /\ GiftsInv /\ [Next]_vars
        => (TypeOK /\ Able /\ Numbered /\ GiftsInv)'
  BY TypeStep, NumberedStep, GiftsStep
<1>3. GiftsInv => GiftsArrive
  BY DEF GiftsInv, Undisturbed, Gifts, GiftsArrive, Held, UnderWay, Handles, Wraps
<1> QED
  BY <1>1, <1>2, <1>3, PTL DEF Spec

-----------------------------------------------------------------------------
\* What a session still owes: what has been taken from somebody already and will be
\* given to somebody else later in the packet.
Owing(t) ==
  CASE t.pc = "insert" -> Value(t.todo)
    [] t.pc = "handle" -> (IF Head(t.todo) = "teleporter" THEN Worth["teleporter"] ELSE 0)
                          + Value(Tail(t.todo))
    [] t.pc \in {"link", "wrap"} -> Value(Tail(t.todo))
    [] t.pc = "tickets" -> TicketPrice
    [] t.pc \in {"reread", "credit"} -> t.gain
    [] OTHER -> 0
Owes == {"insert", "handle", "link", "wrap", "tickets", "reread", "credit"}
Owed(s) == Owing(task[s])
Busy == {s \in Session : Pc(s) # "ready"}
Debts == SumFunctionOnSet([s \in Session |-> Owed(s)], Busy)

\* What a session is about to take covers what it will give.
Cost(t) == IF t.todo = <<>> THEN TicketPrice ELSE Value(t.todo)
Deal(s) ==
  LET t == task[s] IN
  /\ Pc(s) \in {"box", "boxid", "pay"} => Cost(t) <= t.price
  /\ Pc(s) = "tear" => t.gain = Amount[t.code] /\ t.code \in Voucher
  /\ Pc(s) = "melt" => t.gain = Worth["credit"] /\ IsKind(t.one, "credit")
Covered ==
  /\ IsFiniteSet(Busy)
  /\ \A s \in Session : Deal(s)
  /\ ~stale => Wealth + Debts <= Beginning

\* Parts of the wealth.
Purses == [u \in User |-> credits[u] + TicketPrice * tickets[u]]
Prices == [i \in DOMAIN furn |-> Worth[furn[i].kind]]
InPurses == SumFunctionOnSet(Purses, User)
InGoods == SumFunctionOnSet(Prices, DOMAIN furn)
InVouchers == SumFunctionOnSet(Amount, vouchers)

\* An order is worth what its first item makes, and the others.
LEMMA ValueOf ==
  ASSUME NEW q \in Seq(Kind)
  PROVE  /\ Value(q) \in Nat
         /\ q = <<>> => Value(q) = 0
         /\ q # <<>> => /\ Head(q) \in Kind /\ Tail(q) \in Seq(Kind)
                        /\ Value(Tail(q)) \in Nat
                        /\ Value(q) = Made(Head(q)) * Worth[Head(q)] + Value(Tail(q))
<1> DEFINE Item(k) == Made(k) * Worth[k]
           F(r) == [n \in DOMAIN r |-> Item(r[n])]
<1>0. \A k \in Kind : Item(k) \in Nat
  <2>1. \A k \in Kind : Worth[k] \in Nat /\ Made(k) \in {1, 2}
    BY EconomyAssumption DEF Made
  <2>2. \A w \in Nat : 1 * w \in Nat /\ 2 * w \in Nat
    OBVIOUS
  <2> QED
    BY <2>1, <2>2
<1>1. \A r : Value(r) = SumFunctionOnSet(F(r), DOMAIN r)
  BY DEF Value, SumFunction
<1> HIDE DEF Item
<1>2. ASSUME NEW r \in Seq(Kind)
      PROVE  Natural(F(r), DOMAIN r) /\ Value(r) \in Nat
  <2>1. DOMAIN r = 1 .. Len(r) /\ Len(r) \in Nat /\ \A n \in DOMAIN r : r[n] \in Kind
    OBVIOUS
  <2>2. IsFiniteSet(DOMAIN r)
    BY <2>1, FS_Interval
  <2>3. Natural(F(r), DOMAIN r)
    BY <1>0, <2>1, <2>2 DEF Natural
  <2> QED
    BY <1>1, <2>3, SumNat
<1>3. ASSUME q = <<>>
      PROVE  Value(q) = 0
  <2>1. DOMAIN q = {}
    BY <1>3
  <2> QED
    BY <1>1, <2>1, SumEmpty
<1>4. ASSUME q # <<>>
      PROVE  /\ Head(q) \in Kind /\ Tail(q) \in Seq(Kind)
             /\ Value(q) = Item(Head(q)) + Value(Tail(q))
  <2> DEFINE n == Len(Tail(q))
  <2>1. /\ Tail(q) \in Seq(Kind) /\ n \in Nat /\ Len(q) = n + 1 /\ Head(q) = q[1]
        /\ q[1] \in Kind /\ \A k \in 1 .. n : Tail(q)[k] = q[k + 1]
    BY <1>4, HeadTailProperties
  <2>2. DOMAIN q = 1 .. n + 1 /\ DOMAIN Tail(q) = 1 .. n
    BY <2>1
  <2>3. \A k \in 1 .. n + 1 : F(q)[k] \in Nat /\ F(q)[k] = Item(q[k])
    BY <1>0, <2>2
  <2>4. \A k \in 1 .. n : F(Tail(q))[k] = F(q)[k + 1]
    <3>1. \A k \in 1 .. n : k + 1 \in 1 .. n + 1
      BY <2>1
    <3> QED
      BY <2>1, <2>2, <2>3, <3>1
  <2>5. F(q)[1] = Item(Head(q))
    BY <2>1, <2>3
  <2> HIDE DEF n, F
  <2>6. SumFunctionOnSet(F(q), 1 .. n + 1)
          = F(q)[1] + SumFunctionOnSet(F(Tail(q)), 1 .. n)
    BY <2>1, <2>3, <2>4, SumShift
  <2> QED
    BY <1>1, <2>1, <2>2, <2>5, <2>6
<1> QED
  BY <1>2, <1>3, <1>4 DEF Item

\* What is owed is a number of credits.
LEMMA OwingNat ==
  ASSUME NEW t, Sound(t)
  PROVE  Owing(t) \in Nat
<1>1. /\ t.todo \in Seq(Kind) /\ t.gain \in Nat
      /\ t.pc \in {"insert", "handle", "link", "wrap"} => t.todo # <<>>
  BY DEF Sound, TaskState
<1>2. Worth["teleporter"] \in Nat /\ TicketPrice \in Nat
  BY EconomyAssumption DEF Kind
<1>3. Value(t.todo) \in Nat /\ (t.todo # <<>> => Value(Tail(t.todo)) \in Nat)
  BY <1>1, ValueOf
<1> QED
  BY <1>1, <1>2, <1>3 DEF Owing

LEMMA OwingNothing ==
  ASSUME NEW t, t.pc \notin Owes
  PROVE  Owing(t) = 0
  BY DEF Owing, Owes

\* A step of a session changes the debts by what it owes.
LEMMA DebtsChange ==
  ASSUME TypeOK, Able, TypeOK', Able', IsFiniteSet(Busy), NEW s \in Session, Elsewhere(s)
  PROVE  /\ IsFiniteSet(Busy') /\ {Debts, Debts', Owed(s), Owed(s)'} \subseteq Nat
         /\ Debts' + Owed(s) = Debts + Owed(s)'
<1> DEFINE f == [r \in Session |-> Owing(task[r])]
           e == [r \in Session |-> Owing(task'[r])]
           B == Busy \cup {s}
<1>1. Debts = SumFunctionOnSet(f, Busy) /\ Debts' = SumFunctionOnSet(e, Busy')
  BY DEF Debts, Owed
<1>2. /\ \A r \in Session : f[r] \in Nat /\ e[r] \in Nat
      /\ f[s] = Owed(s) /\ e[s] = Owed(s)'
  <2>1. \A r \in Session : Sound(task[r]) /\ Sound(task'[r])
    BY DEF TypeOK, Able, Pc, Sound
  <2> QED
    BY <2>1, OwingNat DEF Owed
<1>3. \A r \in Session \ {s} : f[r] = e[r] /\ (r \in Busy <=> r \in Busy')
  BY DEF Elsewhere, Busy, Pc
<1>4. /\ s \notin Busy => f[s] = 0
      /\ s \notin Busy' => e[s] = 0
  BY OwingNothing DEF Owes, Busy, Pc
<1>5. Busy \subseteq Session /\ Busy' \subseteq Session /\ Busy' \cup {s} = B
  BY <1>3 DEF Busy
<1>6. IsFiniteSet(B) /\ IsFiniteSet(Busy')
  <2>1. IsFiniteSet(B)
    BY FS_AddElement
  <2> QED
    BY <1>5, <2>1, FS_Subset
<1>7. ASSUME NEW g, NEW A \in SUBSET Session, IsFiniteSet(A), A \cup {s} = B,
             \A r \in Session : g[r] \in Nat, s \notin A => g[s] = 0
      PROVE  SumFunctionOnSet(g, B) = SumFunctionOnSet(g, A) /\ SumFunctionOnSet(g, A) \in Nat
  <2>1. Natural(g, A)
    BY <1>7 DEF Natural
  <2>2. SumFunctionOnSet(g, A) \in Nat
    BY <2>1, SumNat
  <2>3. CASE s \in A
    <3>1. A = B
      BY <1>7, <2>3
    <3> QED
      BY <2>2, <3>1
  <2>4. CASE s \notin A
    <3>1. SumFunctionOnSet(g, A \cup {s}) = SumFunctionOnSet(g, A) + g[s]
      BY <1>7, <2>1, <2>4, SumAdd
    <3>2. A \cup {s} = B /\ g[s] = 0
      BY <1>7, <2>4
    <3>3. SumFunctionOnSet(g, B) = SumFunctionOnSet(g, A) + g[s]
      BY <3>1, <3>2
    <3>4. \A n \in Nat : n + 0 = n
      OBVIOUS
    <3> QED
      BY <2>2, <3>2, <3>3, <3>4
  <2> QED
    BY <2>3, <2>4
<1> HIDE DEF f, e
<1>8. /\ SumFunctionOnSet(f, B) = Debts /\ Debts \in Nat
      /\ SumFunctionOnSet(e, B) = Debts' /\ Debts' \in Nat
  BY <1>1, <1>2, <1>4, <1>5, <1>6, <1>7
<1>9. Natural(f, B) /\ s \in B /\ \A r \in B \ {s} : e[r] = f[r]
  BY <1>2, <1>3, <1>5, <1>6 DEF Natural
<1>10. SumFunctionOnSet(e, B) + f[s] = SumFunctionOnSet(f, B) + e[s]
  BY <1>2, <1>9, SumChange
<1> QED
  BY <1>2, <1>6, <1>8, <1>10

\* The parts of the wealth are sums of numbers.
Counted ==
  /\ Natural(Purses, User) /\ Natural(Prices, DOMAIN furn) /\ Natural(Amount, vouchers)
  /\ InPurses \in Nat /\ InGoods \in Nat /\ InVouchers \in Nat
  /\ Wealth = InPurses + InGoods + InVouchers
LEMMA Parts == TypeOK => Counted
<1> SUFFICES ASSUME TypeOK PROVE Counted
  OBVIOUS
<1>1. Natural(Purses, User)
  <2>1. \A m, n, p \in Nat : m + p * n \in Nat
    OBVIOUS
  <2> QED
    <3>1. TicketPrice \in Nat /\ \A u \in User : credits[u] \in Nat /\ tickets[u] \in Nat
      BY EconomyAssumption DEF TypeOK
    <3>2. \A u \in User : credits[u] + TicketPrice * tickets[u] \in Nat
      BY <2>1, <3>1
    <3> QED
      BY <3>2, EconomyAssumption DEF Natural, Purses
<1>2. Natural(Prices, DOMAIN furn)
  <2>1. IsFiniteSet(DOMAIN furn)
    <3>1. IsFiniteSet(1 .. serial) /\ DOMAIN furn \subseteq 1 .. serial
      BY FS_Interval DEF TypeOK
    <3> QED
      BY <3>1, FS_Subset
  <2>2. \A i \in DOMAIN furn : Worth[furn[i].kind] \in Nat
    BY EconomyAssumption DEF TypeOK, Row
  <2> QED
    BY <2>1, <2>2 DEF Natural, Prices
<1>3. Natural(Amount, vouchers)
  BY EconomyAssumption, FS_Subset DEF TypeOK, Natural
<1>4. Wealth = InPurses + InGoods + InVouchers
  BY DEF Wealth, InPurses, InGoods, InVouchers, SumFunction, Purses, Prices
<1> QED
  BY <1>1, <1>2, <1>3, <1>4, SumNat DEF InPurses, InGoods, InVouchers, Counted

LEMMA PartsNext == TypeOK' => Counted'
  BY Parts, PTL

\* One purse has another amount in it now.
LEMMA PurseChanges ==
  ASSUME TypeOK, TypeOK', NEW u \in User, NEW c, NEW t,
         credits' = [credits EXCEPT ![u] = c], tickets' = [tickets EXCEPT ![u] = t]
  PROVE  InPurses' + (credits[u] + TicketPrice * tickets[u])
           = InPurses + (c + TicketPrice * t)
<1> DEFINE f == Purses
           e == [v \in User |-> credits'[v] + TicketPrice * tickets'[v]]
<1>1. Natural(f, User) /\ Natural(e, User)
  BY Parts, PartsNext DEF Counted, Purses
<1>2. /\ \A v \in User \ {u} : e[v] = f[v]
      /\ e[u] = c + TicketPrice * t /\ f[u] = credits[u] + TicketPrice * tickets[u]
  BY DEF TypeOK, Purses
<1>3. InPurses = SumFunctionOnSet(f, User) /\ InPurses' = SumFunctionOnSet(e, User)
  BY DEF InPurses, Purses
<1>4. e[u] \in Nat
  BY <1>1 DEF Natural
<1> HIDE DEF f, e
<1> QED
  BY <1>1, <1>2, <1>3, <1>4, SumChange

LEMMA PursesStay ==
  ASSUME UNCHANGED <<credits, tickets>>
  PROVE  InPurses' = InPurses
  BY DEF InPurses, Purses

LEMMA VouchersStay ==
  ASSUME UNCHANGED vouchers
  PROVE  InVouchers' = InVouchers
  BY DEF InVouchers

\* A voucher that is torn up.
LEMMA VoucherGoes ==
  ASSUME TypeOK, NEW c \in vouchers, vouchers' = vouchers \ {c}, vouchers' \subseteq Voucher
  PROVE  InVouchers = Amount[c] + InVouchers'
  BY Parts, SumRemove DEF InVouchers, Counted

\* Rows that stay, whatever else happens to them, are worth what they were; ...
LEMMA GoodsFewer ==
  ASSUME TypeOK, TypeOK', Ages, DOMAIN furn' \subseteq DOMAIN furn
  PROVE  InGoods' <= InGoods
<1> DEFINE f == Prices
           e == [i \in DOMAIN furn' |-> Worth[furn'[i].kind]]
<1>1. \A i \in DOMAIN furn' : e[i] = f[i]
  BY DEF Ages, TypeOK, Prices
<1>2. /\ Natural(f, DOMAIN furn) /\ IsFiniteSet(DOMAIN furn')
      /\ InGoods = SumFunctionOnSet(f, DOMAIN furn)
      /\ InGoods' = SumFunctionOnSet(e, DOMAIN furn')
  BY Parts, PartsNext DEF Counted, InGoods, Prices, Natural
<1> HIDE DEF f, e
<1>3. SumFunctionOnSet(e, DOMAIN furn') = SumFunctionOnSet(f, DOMAIN furn')
  BY <1>1, <1>2, SumSame
<1> QED
  BY <1>2, <1>3, SumSubset

\* ... a new row adds what it is worth; ...
LEMMA GoodsMore ==
  ASSUME TypeOK, TypeOK', NEW row, Insert(row)
  PROVE  InGoods' = InGoods + Worth[row.kind]
<1> DEFINE f == Prices
           e == [i \in DOMAIN furn' |-> Worth[furn'[i].kind]]
           n == serial + 1
<1>1. /\ DOMAIN furn' = DOMAIN furn \cup {n} /\ n \notin DOMAIN furn /\ furn'[n] = row
      /\ \A i \in DOMAIN furn : furn'[i] = furn[i]
  BY DEF Insert, TypeOK
<1>2. (\A i \in DOMAIN furn : e[i] = f[i]) /\ e[n] = Worth[row.kind]
  BY <1>1 DEF Prices
<1>3. /\ Natural(f, DOMAIN furn) /\ Natural(e, DOMAIN furn')
      /\ InGoods = SumFunctionOnSet(f, DOMAIN furn)
      /\ InGoods' = SumFunctionOnSet(e, DOMAIN furn')
  BY Parts, PartsNext DEF Counted, InGoods, Prices
<1>4. e[n] \in Nat
  BY <1>1, <1>3 DEF Natural
<1> HIDE DEF f, e, n
<1> DEFINE D == DOMAIN furn
<1>5. Natural(f, D) /\ n \notin D /\ \A i \in D : e[i] = f[i]
  BY <1>1, <1>2, <1>3
<1>6. SumFunctionOnSet(e, D \cup {n}) = SumFunctionOnSet(f, D) + e[n]
  <2> HIDE DEF D
  <2> QED
    BY <1>4, <1>5, SumAdd
<1> QED
  BY <1>1, <1>2, <1>3, <1>6

\* ... and one that is deleted takes its worth away.
LEMMA GoodsLess ==
  ASSUME TypeOK, TypeOK', NEW i \in DOMAIN furn, Delete({i})
  PROVE  InGoods = Worth[furn[i].kind] + InGoods'
<1> DEFINE f == Prices
           e == [j \in DOMAIN furn' |-> Worth[furn'[j].kind]]
<1>1. DOMAIN furn' = DOMAIN furn \ {i} /\ \A j \in DOMAIN furn' : furn'[j] = furn[j]
  BY DEF Delete
<1>2. (\A j \in DOMAIN furn' : e[j] = f[j]) /\ f[i] = Worth[furn[i].kind]
  BY <1>1 DEF Prices
<1>3. /\ Natural(f, DOMAIN furn) /\ IsFiniteSet(DOMAIN furn')
      /\ InGoods = SumFunctionOnSet(f, DOMAIN furn)
      /\ InGoods' = SumFunctionOnSet(e, DOMAIN furn')
  BY Parts, PartsNext DEF Counted, InGoods, Prices, Natural
<1> HIDE DEF f, e
<1>4. SumFunctionOnSet(e, DOMAIN furn') = SumFunctionOnSet(f, DOMAIN furn')
  BY <1>2, <1>3, SumSame
<1>5. SumFunctionOnSet(f, DOMAIN furn) = f[i] + SumFunctionOnSet(f, DOMAIN furn \ {i})
  BY <1>3, SumRemove
<1> QED
  BY <1>1, <1>2, <1>3, <1>4, <1>5

\* What is owed at each step of a packet, and after it.
LEMMA OwedNow ==
  ASSUME NEW s \in Session
  PROVE  LET t == task[s] IN
         /\ Pc(s) = "insert" => Owed(s) = Value(t.todo)
         /\ Pc(s) = "handle" =>
              Owed(s) = (IF Head(t.todo) = "teleporter" THEN Worth["teleporter"] ELSE 0)
                        + Value(Tail(t.todo))
         /\ Pc(s) \in {"link", "wrap"} => Owed(s) = Value(Tail(t.todo))
         /\ Pc(s) = "tickets" => Owed(s) = TicketPrice
         /\ Pc(s) \in {"reread", "credit"} => Owed(s) = t.gain
         /\ Pc(s) \notin Owes => Owed(s) = 0
  BY OwingNothing DEF Owed, Owing, Pc, Owes

LEMMA OwedNext ==
  ASSUME NEW s \in Session
  PROVE  LET t == task[s] IN
         /\ Ends(s) => Owed(s)' = 0
         /\ NextItem(s) => Owed(s)' = Value(Tail(t.todo))
         /\ \A p, m, o, b : Becomes(s, p, m, o, b) =>
              /\ p = "insert" => Owed(s)' = Value(t.todo)
              /\ p = "handle" =>
                   Owed(s)' = (IF Head(t.todo) = "teleporter" THEN Worth["teleporter"] ELSE 0)
                              + Value(Tail(t.todo))
              /\ p \in {"link", "wrap"} => Owed(s)' = Value(Tail(t.todo))
              /\ p = "tickets" => Owed(s)' = TicketPrice
              /\ p \in {"reread", "credit"} => Owed(s)' = task'[s].gain
              /\ p \notin Owes => Owed(s)' = 0
<1>1. Ends(s) => Owed(s)' = 0
  <2>1. AtRest(s).pc \notin Owes
    BY DEF AtRest, Owes
  <2> QED
    BY <2>1, OwingNothing DEF Ends, Owed
<1>2. NextItem(s) => Owed(s)' = Value(Tail(task[s].todo))
  BY DEF NextItem, Owed, Owing, Pc
<1>3. ASSUME NEW p, NEW m, NEW o, NEW b, Becomes(s, p, m, o, b)
      PROVE  task'[s].pc = p /\ task'[s].todo = task[s].todo
  BY <1>3 DEF Becomes, Pc
<1>4. ASSUME NEW p, task'[s].pc = p, p \notin Owes
      PROVE  Owed(s)' = 0
  BY <1>4, OwingNothing DEF Owed
<1> QED
  BY <1>1, <1>2, <1>3, <1>4 DEF Owed, Owing

\* Prices, gains and codes in the locals.
Keeps(s) == task'[s].price = task[s].price /\ task'[s].gain = task[s].gain
LEMMA Amounts ==
  ASSUME TypeOK, NEW s \in Session
  PROVE  /\ \A o \in Offer, v \in User, gift \in BOOLEAN :
              Purchase(s, o, v, gift) => task'[s].price = o.price
         /\ \A v \in User : BuyTickets(s, v) => task'[s].price = TicketPrice
         /\ \A c \in Voucher : FindVoucher(s, c) =>
              task'[s].gain = Amount[c] /\ task'[s].code = c
         /\ \A i \in DOMAIN furn : RedeemCredit(s, i) => task'[s].gain = Worth["credit"]
         /\ InsertBox(s) \/ BoxId(s) \/ DeleteVoucher(s) \/ Melt(s) \/ ReadCredits(s)
              => Keeps(s)
<1>0. task[s] \in TaskState
  BY DEF TypeOK
<1>1. ASSUME NEW o \in Offer, NEW v \in User, NEW gift \in BOOLEAN, Purchase(s, o, v, gift)
      PROVE  task'[s].price = o.price
  <2> DEFINE p == IF gift THEN "box" ELSE "pay"
             t == [task[s] EXCEPT !.pc = p, !.read = credits[Account[s]],
                    !.price = o.price, !.todo = o.order, !.for = v, !.gift = gift]
  <2>1. task' = [task EXCEPT ![s] = t]
    BY <1>1 DEF Purchase
  <2> HIDE DEF p
  <2>2. t.price = o.price
    BY <1>0 DEF TaskState
  <2> QED
    BY <2>1, <2>2, Locals
<1>2. ASSUME NEW v \in User, BuyTickets(s, v)
      PROVE  task'[s].price = TicketPrice
  <2> DEFINE t == [task[s] EXCEPT !.pc = "pay", !.read = credits[Account[s]],
                    !.price = TicketPrice, !.for = v]
  <2>1. task' = [task EXCEPT ![s] = t]
    BY <1>2 DEF BuyTickets
  <2>2. t.price = TicketPrice
    BY <1>0 DEF TaskState
  <2> QED
    BY <2>1, <2>2, Locals
<1>3. ASSUME NEW c \in Voucher, FindVoucher(s, c)
      PROVE  task'[s].gain = Amount[c] /\ task'[s].code = c
  <2> DEFINE t == [task[s] EXCEPT !.pc = "tear", !.code = c, !.gain = Amount[c]]
  <2>1. task' = [task EXCEPT ![s] = t]
    BY <1>3 DEF FindVoucher, TypeOK
  <2>2. t.gain = Amount[c] /\ t.code = c
    BY <1>0 DEF TaskState
  <2> QED
    BY <2>1, <2>2, Locals
<1>4. ASSUME NEW i \in DOMAIN furn, RedeemCredit(s, i)
      PROVE  task'[s].gain = Worth["credit"]
  <2> DEFINE t == [task[s] EXCEPT !.pc = "melt", !.one = i, !.gain = Worth["credit"]]
  <2>1. task' = [task EXCEPT ![s] = t]
    BY <1>4 DEF RedeemCredit, TypeOK
  <2>2. t.gain = Worth["credit"]
    BY <1>0 DEF TaskState
  <2> QED
    BY <2>1, <2>2, Locals
<1>5. ASSUME NEW p, Goto(s, p)
      PROVE  Keeps(s)
  <2> DEFINE t == [task[s] EXCEPT !.pc = p]
  <2>1. task' = [task EXCEPT ![s] = t]
    BY <1>5 DEF Goto
  <2>2. t.price = task[s].price /\ t.gain = task[s].gain
    BY <1>0 DEF TaskState
  <2> QED
    BY <2>1, <2>2, Locals DEF Keeps
<1>6. ASSUME InsertBox(s)
      PROVE  Keeps(s)
  <2> DEFINE t == [task[s] EXCEPT !.pc = "boxid", !.mine = serial + 1]
  <2>1. task' = [task EXCEPT ![s] = t]
    BY <1>6 DEF InsertBox, TypeOK
  <2>2. t.price = task[s].price /\ t.gain = task[s].gain
    BY <1>0 DEF TaskState
  <2> QED
    BY <2>1, <2>2, Locals DEF Keeps
<1>7. ASSUME BoxId(s)
      PROVE  Keeps(s)
  <2> DEFINE t == [task[s] EXCEPT !.pc = "pay", !.box = LastItemId]
  <2>1. task' = [task EXCEPT ![s] = t]
    BY <1>7 DEF BoxId, TypeOK
  <2>2. t.price = task[s].price /\ t.gain = task[s].gain
    BY <1>0 DEF TaskState
  <2> QED
    BY <2>1, <2>2, Locals DEF Keeps
<1>8. ASSUME ReadCredits(s)
      PROVE  Keeps(s)
  <2> DEFINE t == [task[s] EXCEPT !.pc = "credit", !.read = credits[Account[s]]]
  <2>1. task' = [task EXCEPT ![s] = t]
    BY <1>8 DEF ReadCredits, TypeOK
  <2>2. t.price = task[s].price /\ t.gain = task[s].gain
    BY <1>0 DEF TaskState
  <2> QED
    BY <2>1, <2>2, Locals DEF Keeps
<1>9. DeleteVoucher(s) \/ Melt(s) => Keeps(s)
  BY <1>5 DEF DeleteVoucher, Melt
<1> QED
  BY <1>1, <1>2, <1>3, <1>4, <1>6, <1>7, <1>8, <1>9

\* The deals of the others stand: nothing that is there becomes another kind of thing.
LEMMA DealLasts ==
  ASSUME TypeOK, Numbered, Ages, NEW t \in Session, Deal(t), task'[t] = task[t]
  PROVE  Deal(t)'
<1>1. task[t].one # serial + 1
  BY DEF TypeOK, Numbered, Orderly, Given
<1>2. IsKind(task[t].one, "credit") => IsKind(task[t].one, "credit")'
  BY <1>1 DEF Ages, IsKind, Exists
<1> QED
  BY <1>2 DEF Deal, Cost, Pc, IsKind, Exists

\* A session's own deal.
LEMMA DealOwn ==
  ASSUME TypeOK, Able, Numbered, Ages, NEW s \in Session, Deal(s),
         Shop(s) \/ Redeem(s) \/ Recycle(s) \/ Fail(s)
  PROVE  Deal(s)'
<1> DEFINE Quiet == {"insert", "handle", "link", "wrap", "tickets", "ready", "reread",
                     "credit", "unpack", "shred"} \cup RecyclerPC
<1>1. ASSUME Pc(s)' \in Quiet
      PROVE  Deal(s)'
  BY <1>1 DEF Deal, RecyclerPC
<1>2. /\ Ends(s) => Pc(s)' \in Quiet
      /\ NextItem(s) => Pc(s)' \in Quiet
      /\ \A p, m, o, b : Becomes(s, p, m, o, b) => Pc(s)' = p
  BY WhereNext
<1>3. ASSUME NEW o \in Offer, NEW v \in User, NEW gift \in BOOLEAN, Purchase(s, o, v, gift)
      PROVE  Deal(s)'
  <2>1. task'[s].price = o.price /\ task'[s].todo = o.order /\ Pc(s)' \in {"box", "pay"}
    BY <1>3, Amounts, AfterPurchase
  <2>2. o.order \in Seq(Kind) /\ o.price \in Nat /\ o.order # <<>>
    BY EconomyAssumption
  <2>3. Value(o.order) <= o.price
    BY <2>2, PricesCover, ValueOf
  <2> QED
    BY <2>1, <2>2, <2>3 DEF Deal, Cost
<1>4. ASSUME NEW v \in User, BuyTickets(s, v)
      PROVE  Deal(s)'
  <2>1. task[s].todo = <<>>
    <3>1. task[s] = AtRest(s)
      BY <1>4 DEF BuyTickets, Numbered, Orderly
    <3>2. AtRest(s).todo = <<>>
      BY DEF AtRest
    <3> QED
      BY <3>1, <3>2
  <2>2. task'[s].price = TicketPrice /\ task'[s].todo = <<>> /\ Pc(s)' = "pay"
    BY <1>4, <2>1, Amounts, ShopLocals DEF Becomes
  <2>3. TicketPrice <= TicketPrice
    BY EconomyAssumption
  <2> QED
    BY <2>2, <2>3 DEF Deal, Cost
<1>5. CASE InsertBox(s) \/ BoxId(s)
  <2>1. Cost(task[s]) <= task[s].price
    BY <1>5 DEF InsertBox, BoxId, Deal
  <2>2. \E p \in {"boxid", "pay"}, m, b \in Nat : Becomes(s, p, m, task[s].one, b)
    <3>1. task[s].mine \in Nat /\ task[s].box \in Nat /\ LastItemId \in Nat /\ serial + 1 \in Nat
      <4>1. task[s] \in TaskState /\ LastItemId \in Nat /\ serial + 1 \in Nat
        BY LastItemIdNat DEF TypeOK
      <4> QED
        BY <4>1 DEF TaskState
    <3>2. CASE InsertBox(s)
      BY <3>1, <3>2, ShopLocals
    <3>3. CASE BoxId(s)
      BY <3>1, <3>3, ShopLocals
    <3> QED
      BY <1>5, <3>2, <3>3
  <2>3. Keeps(s)
    BY <1>5, Amounts
  <2> QED
    BY <2>1, <2>2, <2>3 DEF Becomes, Deal, Cost, Keeps
<1>6. ASSUME NEW c \in Voucher, FindVoucher(s, c)
      PROVE  Deal(s)'
  <2>1. task'[s].gain = Amount[c] /\ task'[s].code = c /\ Pc(s)' = "tear"
    BY <1>6, Amounts, RedeemLocals DEF Becomes
  <2> QED
    BY <2>1 DEF Deal
<1>7. ASSUME NEW i \in DOMAIN furn, RedeemCredit(s, i)
      PROVE  Deal(s)'
  <2>1. task'[s].gain = Worth["credit"] /\ task'[s].one = i /\ Pc(s)' = "melt"
    BY <1>7, Amounts, RedeemLocals DEF Becomes
  <2>2. IsKind(i, "credit")'
    BY <1>7 DEF RedeemCredit, IsKind, Exists, goods
  <2> QED
    BY <2>1, <2>2 DEF Deal
<1>8. CASE Pay(s)
  <2>1. PICK p \in {"tickets", "insert"} :
          Becomes(s, p, task[s].mine, task[s].one, task[s].box)
    BY <1>8, ShopLocals
  <2> QED
    BY <1>1, <1>2, <2>1
<1>9. CASE HandleMarked(s) \/ HandlePlain(s) \/ LinkTeleporters(s) \/ Wrap(s) \/ AddTickets(s)
  BY <1>1, <1>2, <1>9, ShopLocals
<1>10. CASE InsertItem(s) \/ HandleTeleporter(s)
  BY <1>1, <1>2, <1>10, ShopLocals
<1>11. CASE Recycle(s)
  BY <1>1, <1>2, <1>11, RecycleLocals DEF InRecycler
<1>12. ASSUME Redeem(s), \A c \in Voucher : ~FindVoucher(s, c),
              \A i \in DOMAIN furn : ~RedeemCredit(s, i)
       PROVE  Deal(s)'
  BY <1>1, <1>2, <1>12, RedeemLocals DEF Redeem
<1>13. CASE Fail(s)
  BY <1>1, <1>2, <1>13, RestEnds DEF Fail
<1> QED
  BY <1>3, <1>4, <1>5, <1>6, <1>7, <1>8, <1>9, <1>10, <1>11, <1>12, <1>13 DEF Shop

\* A step is fair when it takes at least as much, from purses, goods, vouchers and what
\* is owed, as it gives.
Fair(s) ==
  InPurses' + InGoods' + InVouchers' + Owed(s)' <= InPurses + InGoods + InVouchers + Owed(s)

\* Steps that move no credits and insert nothing.
LEMMA FairAside ==
  ASSUME TypeOK, Able, TypeOK', Able', Ages, NEW s \in Session, UNCHANGED money,
         DOMAIN furn' \subseteq DOMAIN furn, Owed(s)' <= Owed(s)
  PROVE  Fair(s)
<1>1. InPurses' = InPurses /\ InVouchers' = InVouchers
  BY PursesStay, VouchersStay DEF money
<1>2. InGoods' <= InGoods
  BY GoodsFewer
<1>3. Sound(task[s]) /\ Sound(task'[s])
  BY DEF TypeOK, Able, Pc, Sound
<1>4. Owed(s) \in Nat /\ Owed(s)' \in Nat
  BY <1>3, OwingNat DEF Owed
<1>5. Counted /\ Counted'
  BY Parts, PartsNext
<1> QED
  BY <1>1, <1>2, <1>4, <1>5 DEF Fair, Counted

\* Steps that insert a row.
LEMMA FairInsert ==
  ASSUME TypeOK, Able, TypeOK', Able', NEW s \in Session, UNCHANGED money,
         NEW row, Insert(row), Worth[row.kind] \in Nat,
         Owed(s)' + Worth[row.kind] <= Owed(s)
  PROVE  Fair(s)
<1>1. InPurses' = InPurses /\ InVouchers' = InVouchers
  BY PursesStay, VouchersStay DEF money
<1>2. InGoods' = InGoods + Worth[row.kind]
  BY GoodsMore
<1>3. Sound(task[s]) /\ Sound(task'[s])
  BY DEF TypeOK, Able, Pc, Sound
<1>4. Owed(s) \in Nat /\ Owed(s)' \in Nat
  BY <1>3, OwingNat DEF Owed
<1>5. Counted /\ Counted'
  BY Parts, PartsNext
<1> QED
  BY <1>1, <1>2, <1>4, <1>5 DEF Fair, Counted

\* Steps that write credits or tickets.
LEMMA FairPurse ==
  ASSUME TypeOK, Able, TypeOK', Able', NEW s \in Session,
         UNCHANGED <<furn, vouchers>>, NEW u \in User, NEW c \in Nat, NEW t \in Nat,
         credits' = [credits EXCEPT ![u] = c], tickets' = [tickets EXCEPT ![u] = t],
         c + TicketPrice * t + Owed(s)' <= credits[u] + TicketPrice * tickets[u] + Owed(s)
  PROVE  Fair(s)
<1> DEFINE a == c + TicketPrice * t
           b == credits[u] + TicketPrice * tickets[u]
<1>1. InVouchers' = InVouchers /\ InGoods' = InGoods
  BY VouchersStay DEF InGoods, Prices
<1>2. InPurses' + b = InPurses + a
  BY PurseChanges
<1>3. Sound(task[s]) /\ Sound(task'[s])
  BY DEF TypeOK, Able, Pc, Sound
<1>4. Owed(s) \in Nat /\ Owed(s)' \in Nat
  BY <1>3, OwingNat DEF Owed
<1>5. Counted /\ Counted'
  BY Parts, PartsNext
<1>6. a \in Nat /\ b \in Nat
  <2>1. \A m, n, p \in Nat : m + p * n \in Nat
    OBVIOUS
  <2>2. credits[u] \in Nat /\ tickets[u] \in Nat /\ TicketPrice \in Nat
    BY EconomyAssumption DEF TypeOK
  <2> QED
    BY <2>1, <2>2
<1>7. a + Owed(s)' <= b + Owed(s)
  OBVIOUS
<1>8. {InPurses, InPurses', InGoods, InVouchers} \subseteq Nat
  BY <1>5 DEF Counted
<1> HIDE DEF a, b
<1> QED
  BY <1>1, <1>2, <1>4, <1>6, <1>7, <1>8 DEF Fair

\* A purchase takes the price and owes no more; and what it owes becomes items.
LEMMA FairShop ==
  ASSUME TypeOK, Able, TypeOK', Able', Ages, NEW s \in Session, Deal(s), Shop(s), ~stale'
  PROVE  Fair(s)
<1> DEFINE t == task[s]
           q == t.todo
<1>0. /\ t \in TaskState /\ Sound(t) /\ q \in Seq(Kind)
      /\ Value(q) \in Nat /\ \A k \in Kind : Worth[k] \in Nat
      /\ Account[s] \in User /\ credits[Account[s]] \in Nat /\ TicketPrice \in Nat
  <2>1. t \in TaskState /\ Sound(t) /\ q \in Seq(Kind)
    BY TaskSound DEF TypeOK, TaskState
  <2> QED
    BY <2>1, ValueOf, EconomyAssumption DEF TypeOK
<1>1. ASSUME q # <<>>
      PROVE  /\ Head(q) \in Kind /\ Value(Tail(q)) \in Nat
             /\ Value(q) = (IF Head(q) = "teleporter" THEN Worth["teleporter"] ELSE 0)
                           + Worth[Head(q)] + Value(Tail(q))
  <2>1. /\ Head(q) \in Kind /\ Value(Tail(q)) \in Nat
        /\ Value(q) = Made(Head(q)) * Worth[Head(q)] + Value(Tail(q))
    BY <1>0, <1>1, ValueOf
  <2>2. \A w \in Nat : 2 * w = w + w /\ 1 * w = 0 + w
    OBVIOUS
  <2>3. Made(Head(q)) * Worth[Head(q)]
          = (IF Head(q) = "teleporter" THEN Worth["teleporter"] ELSE 0) + Worth[Head(q)]
    BY <1>0, <2>1, <2>2 DEF Made
  <2> QED
    BY <2>1, <2>3
<1>2. ASSUME NEW o \in Offer, NEW v \in User, NEW gift \in BOOLEAN, Purchase(s, o, v, gift)
      PROVE  Fair(s)
  <2>1. task'[s].pc \in {"box", "pay"}
    BY <1>2, AfterPurchase DEF Pc
  <2>2. Owed(s)' = 0 /\ Owed(s) = 0
    BY <1>2, <2>1, OwedNow, OwingNothing DEF Owed, Owes, Purchase
  <2>3. UNCHANGED <<money, furn>>
    BY <1>2 DEF Purchase, goods
  <2> QED
    BY <2>2, <2>3, FairAside
<1>3. CASE InsertBox(s)
  <2>0. Becomes(s, "boxid", serial + 1, t.one, t.box)
    BY <1>3, ShopLocals
  <2>1. Owed(s) = 0 /\ Owed(s)' = 0
    BY <1>3, <2>0, OwedNow, OwedNext DEF Owes, InsertBox
  <2>2. UNCHANGED money /\ Insert(NewRow(t.for, "hand", "box", 0))
    BY <1>3 DEF InsertBox
  <2>3. Worth[NewRow(t.for, "hand", "box", 0).kind] = 0
    BY EconomyAssumption DEF NewRow
  <2> QED
    BY <2>1, <2>2, <2>3, FairInsert
<1>4. CASE BoxId(s)
  <2>0. Becomes(s, "pay", t.mine, t.one, LastItemId)
    BY <1>4, ShopLocals
  <2>1. Owed(s) = 0 /\ Owed(s)' = 0
    BY <1>4, <2>0, OwedNow, OwedNext DEF Owes, BoxId
  <2>2. UNCHANGED <<money, furn>>
    BY <1>4 DEF BoxId, goods
  <2> QED
    BY <2>1, <2>2, FairAside
<1>5. CASE Pay(s)
  <2> DEFINE u == Account[s]
             c == t.read - t.price
             p == IF q = <<>> THEN "tickets" ELSE "insert"
  <2>1. Owed(s) = 0
    BY <1>5, OwedNow DEF Owes, Pay
  <2>2. Becomes(s, p, t.mine, t.one, t.box)
    BY <1>5, GotoBecomes DEF Pay
  <2>3. Owed(s)' = Cost(t)
    BY <2>2, OwedNext DEF Cost
  <2>4. Cost(t) <= t.price /\ t.price <= t.read /\ t.price \in Nat /\ t.read \in Nat
    BY <1>0, <1>5 DEF Deal, Pay, Sound, Pc, TaskState
  <2>5. credits[u] = t.read
    BY <1>5 DEF Pay
  <2>6. /\ UNCHANGED <<furn, vouchers>> /\ credits' = [credits EXCEPT ![u] = c]
        /\ tickets' = [tickets EXCEPT ![u] = tickets[u]] /\ tickets[u] \in Nat
    BY <1>0, <1>5 DEF Pay, goods, TypeOK
  <2>7. c \in Nat /\ Cost(t) \in Nat /\ c + Cost(t) <= credits[u]
    BY <1>0, <2>4, <2>5 DEF Cost
  <2>8. c + TicketPrice * tickets[u] + Owed(s)' <= credits[u] + TicketPrice * tickets[u] + Owed(s)
    <3> DEFINE e == TicketPrice * tickets[u]
               d == credits[u]
    <3>1. e \in Nat /\ d \in Nat
      BY <1>0, <2>6
    <3> HIDE DEF c, e, d
    <3>2. c + e + Owed(s)' <= d + e + Owed(s)
      BY <2>1, <2>3, <2>7, <3>1 DEF d
    <3> QED
      BY <3>2 DEF d, e
  <2> QED
    BY <1>0, <2>6, <2>7, <2>8, FairPurse
<1>6. CASE InsertItem(s)
  <2> DEFINE row == NewRow(t.for, Wrapping(s), Head(q), 0)
  <2>1. q # <<>> /\ Owed(s) = Value(q)
    BY <1>0, <1>6, OwedNow DEF InsertItem, Sound, Pc
  <2>2. Owed(s)' = (IF Head(q) = "teleporter" THEN Worth["teleporter"] ELSE 0) + Value(Tail(q))
    BY <1>6, OwedNext, ShopLocals
  <2>3. UNCHANGED money /\ Insert(row) /\ row.kind = Head(q)
    BY <1>6 DEF InsertItem, NewRow
  <2>4. Owed(s)' + Worth[row.kind] <= Owed(s) /\ Worth[row.kind] \in Nat
    <3>1. Worth[Head(q)] \in Nat /\ Worth["teleporter"] \in Nat
      BY <1>0, <1>1, <2>1 DEF Kind
    <3> HIDE DEF row
    <3> QED
      BY <1>1, <2>1, <2>2, <2>3, <3>1
  <2> QED
    BY <2>3, <2>4, FairInsert
<1>7. CASE HandleMarked(s) \/ HandlePlain(s)
  <2>1. q # <<>> /\ Owed(s) = 0 + Value(Tail(q))
    BY <1>0, <1>7, OwedNow DEF HandleMarked, HandlePlain, Sound, Pc
  <2>2. Value(Tail(q)) \in Nat
    BY <1>1, <2>1
  <2>3. Owed(s)' \in {0, Value(Tail(q))}
    BY <1>7, OwedNext, ShopLocals
  <2>4. UNCHANGED money /\ DOMAIN furn' = DOMAIN furn
    BY <1>7 DEF HandleMarked, HandlePlain, goods
  <2> QED
    BY <2>1, <2>2, <2>3, <2>4, FairAside
<1>8. CASE HandleTeleporter(s)
  <2> DEFINE row == NewRow(t.for, Wrapping(s), "teleporter", LastItemId)
  <2>1. q # <<>> /\ Owed(s) = Worth["teleporter"] + Value(Tail(q))
    BY <1>0, <1>8, OwedNow DEF HandleTeleporter, Sound, Pc
  <2>2. Owed(s)' = Value(Tail(q)) /\ Value(Tail(q)) \in Nat
    BY <1>1, <1>8, <2>1, OwedNext, ShopLocals
  <2>3. UNCHANGED money /\ Insert(row) /\ row.kind = "teleporter"
    BY <1>8 DEF HandleTeleporter, NewRow
  <2>4. Worth["teleporter"] \in Nat
    BY <1>0 DEF Kind
  <2>5. Owed(s)' + Worth[row.kind] <= Owed(s) /\ Worth[row.kind] \in Nat
    <3> HIDE DEF row
    <3> QED
      BY <2>1, <2>2, <2>3, <2>4
  <2> QED
    BY <2>3, <2>5, FairInsert
<1>9. CASE LinkTeleporters(s) \/ Wrap(s)
  <2>1. q # <<>> /\ Owed(s) = Value(Tail(q))
    BY <1>0, <1>9, OwedNow DEF LinkTeleporters, Wrap, Sound, Pc
  <2>2. Value(Tail(q)) \in Nat
    BY <1>1, <2>1
  <2>3. Owed(s)' \in {0, Value(Tail(q))}
    BY <1>9, OwedNext, ShopLocals
  <2>4. UNCHANGED money /\ DOMAIN furn' = DOMAIN furn
    BY <1>9 DEF LinkTeleporters, Wrap
  <2> QED
    BY <2>1, <2>2, <2>3, <2>4, FairAside
<1>10. ASSUME NEW v \in User, BuyTickets(s, v)
       PROVE  Fair(s)
  <2>0. Becomes(s, "pay", t.mine, t.one, t.box)
    BY <1>10, ShopLocals
  <2>1. Owed(s)' = 0 /\ Owed(s) = 0
    BY <1>10, <2>0, OwedNow, OwedNext DEF Owes, BuyTickets
  <2>2. UNCHANGED <<money, furn>>
    BY <1>10 DEF BuyTickets, goods
  <2> QED
    BY <2>1, <2>2, FairAside
<1>11. CASE AddTickets(s)
  <2> DEFINE u == t.for
  <2>1. Owed(s) = TicketPrice /\ Owed(s)' = 0
    BY <1>11, OwedNow, OwedNext, ShopLocals DEF AddTickets
  <2>2. u \in User /\ credits[u] \in Nat /\ tickets[u] \in Nat
    BY <1>0 DEF TaskState, TypeOK
  <2>3. /\ UNCHANGED <<furn, vouchers>> /\ credits' = [credits EXCEPT ![u] = credits[u]]
        /\ tickets' = [tickets EXCEPT ![u] = tickets[u] + 1] /\ tickets[u] + 1 \in Nat
    BY <1>11, <2>2 DEF AddTickets, goods, TypeOK
  <2>4. credits[u] + TicketPrice * (tickets[u] + 1) + Owed(s)'
          <= credits[u] + TicketPrice * tickets[u] + Owed(s)
    <3>1. \A a, b, c \in Nat : a + b * (c + 1) + 0 <= a + b * c + b
      OBVIOUS
    <3> QED
      BY <1>0, <2>1, <2>2, <3>1
  <2> QED
    BY <2>2, <2>3, <2>4, FairPurse
<1> QED
  BY <1>2, <1>3, <1>4, <1>5, <1>6, <1>7, <1>8, <1>9, <1>10, <1>11 DEF Shop

\* Redeeming takes a voucher or an item and owes the credits for it.
LEMMA FairRedeem ==
  ASSUME TypeOK, Able, TypeOK', Able', Ages, NEW s \in Session, Deal(s), Redeem(s), ~stale'
  PROVE  Fair(s)
<1> DEFINE t == task[s]
<1>0. /\ t \in TaskState /\ t.gain \in Nat /\ Account[s] \in User
      /\ credits[Account[s]] \in Nat /\ tickets[Account[s]] \in Nat /\ TicketPrice \in Nat
  <2>1. t \in TaskState /\ Account[s] \in User
    BY EconomyAssumption DEF TypeOK
  <2> QED
    BY <2>1, EconomyAssumption DEF TypeOK, TaskState
<1>1. ASSUME UNCHANGED money, DOMAIN furn' \subseteq DOMAIN furn, Owed(s)' = 0
      PROVE  Fair(s)
  <2>1. Sound(task[s])
    BY TaskSound
  <2>2. Owed(s) \in Nat
    BY <2>1, OwingNat DEF Owed
  <2> QED
    BY <1>1, <2>2, FairAside
<1>2. CASE \E c \in Voucher : FindVoucher(s, c)
  <2>1. Becomes(s, "tear", t.mine, t.one, t.box)
    BY <1>2, RedeemLocals
  <2>2. Owed(s)' = 0
    BY <2>1, OwedNext DEF Owes
  <2>3. UNCHANGED <<money, furn>>
    BY <1>2 DEF FindVoucher, goods
  <2> QED
    BY <1>1, <2>2, <2>3
<1>3. ASSUME NEW i \in DOMAIN furn, RedeemCredit(s, i) \/ OpenPresent(s, i) \/ Unpack(s, i)
      PROVE  Fair(s)
  <2>1. \E p \in {"melt", "unpack"}, o, b \in Nat : Becomes(s, p, t.mine, o, b)
    <3>1. t.one \in Nat /\ t.box \in Nat /\ i \in Nat
      <4>1. t.one \in Nat /\ t.box \in Nat
        BY <1>0 DEF TaskState
      <4> QED
        BY <4>1 DEF TypeOK
    <3> QED
      BY <1>3, <3>1, RedeemLocals
  <2>2. Owed(s)' = 0
    BY <2>1, OwedNext DEF Owes
  <2>3. UNCHANGED money /\ DOMAIN furn' = DOMAIN furn
    BY <1>3 DEF RedeemCredit, OpenPresent, Unpack, Put, goods
  <2> QED
    BY <1>1, <2>2, <2>3
<1>4. CASE DeleteVoucher(s)
  <2> DEFINE c == t.code
  <2>1. Becomes(s, "reread", t.mine, t.one, t.box) /\ task'[s].gain = t.gain
    BY <1>4, RedeemLocals, Amounts DEF Keeps
  <2>2. Owed(s) = 0 /\ Owed(s)' = t.gain
    BY <1>4, <2>1, OwedNow, OwedNext DEF DeleteVoucher, Owes
  <2>3. t.gain = Amount[c] /\ c \in vouchers
    BY <1>4 DEF Deal, DeleteVoucher
  <2>4. InPurses' = InPurses /\ InGoods' = InGoods
    BY <1>4, PursesStay DEF DeleteVoucher, goods, InGoods, Prices
  <2>5. InVouchers = Amount[c] + InVouchers'
    BY <1>4, <2>3, VoucherGoes DEF DeleteVoucher, TypeOK
  <2>6. {InPurses, InGoods, InVouchers, InVouchers'} \subseteq Nat
    BY Parts, PartsNext DEF Counted
  <2> HIDE DEF c
  <2> QED
    BY <1>0, <2>2, <2>3, <2>4, <2>5, <2>6 DEF Fair
<1>5. CASE Melt(s)
  <2> DEFINE i == t.one
  <2>1. Becomes(s, "reread", t.mine, t.one, t.box) /\ task'[s].gain = t.gain
    BY <1>5, RedeemLocals, Amounts DEF Keeps
  <2>2. Owed(s) = 0 /\ Owed(s)' = t.gain
    BY <1>5, <2>1, OwedNow, OwedNext DEF Melt, Owes
  <2>3. t.gain = Worth[furn[i].kind] /\ i \in DOMAIN furn
    BY <1>5 DEF Deal, Melt, Exists, IsKind
  <2>4. InPurses' = InPurses /\ InVouchers' = InVouchers
    BY <1>5, PursesStay, VouchersStay DEF Melt, money
  <2>5. InGoods = Worth[furn[i].kind] + InGoods'
    BY <1>5, <2>3, GoodsLess DEF Melt
  <2>6. {InPurses, InGoods, InVouchers, InGoods'} \subseteq Nat
    BY Parts, PartsNext DEF Counted
  <2> HIDE DEF i
  <2> QED
    BY <1>0, <2>2, <2>3, <2>4, <2>5, <2>6 DEF Fair
<1>6. CASE ReadCredits(s)
  <2>1. Becomes(s, "credit", t.mine, t.one, t.box) /\ task'[s].gain = t.gain
    BY <1>6, RedeemLocals, Amounts DEF Keeps
  <2>2. Owed(s) = t.gain /\ Owed(s)' = t.gain
    BY <1>6, <2>1, OwedNow, OwedNext DEF ReadCredits, Owes
  <2>3. UNCHANGED <<money, furn>>
    BY <1>6 DEF ReadCredits, goods
  <2> QED
    BY <1>0, <2>2, <2>3, FairAside
<1>7. CASE WriteCredits(s)
  <2> DEFINE u == Account[s]
             c == t.read + t.gain
  <2>1. Ends(s)
    BY <1>7, RedeemLocals
  <2>2. Owed(s) = t.gain /\ Owed(s)' = 0
    BY <1>7, <2>1, OwedNow, OwedNext DEF WriteCredits, Owes
  <2>3. credits[u] = t.read
    BY <1>7 DEF WriteCredits
  <2>4. /\ UNCHANGED <<furn, vouchers>> /\ credits' = [credits EXCEPT ![u] = c]
        /\ tickets' = [tickets EXCEPT ![u] = tickets[u]]
    BY <1>7 DEF WriteCredits, goods, TypeOK
  <2>5. c \in Nat
    BY <1>0, <2>3
  <2>6. c + TicketPrice * tickets[u] + Owed(s)' <= credits[u] + TicketPrice * tickets[u] + Owed(s)
    <3> DEFINE e == TicketPrice * tickets[u]
               d == credits[u]
    <3>1. e \in Nat /\ d \in Nat /\ c = d + t.gain
      BY <1>0, <2>3
    <3> HIDE DEF c, e, d
    <3>2. c + e + Owed(s)' <= d + e + Owed(s)
      BY <1>0, <2>2, <3>1
    <3> QED
      BY <3>2 DEF d, e
  <2> QED
    BY <1>0, <2>4, <2>5, <2>6, FairPurse
<1>8. CASE Burst(s)
  <2>1. Becomes(s, "shred", t.mine, t.one, t.box)
    BY <1>8, RedeemLocals
  <2>2. Owed(s)' = 0
    BY <2>1, OwedNext DEF Owes
  <2>3. UNCHANGED money /\ DOMAIN furn' \subseteq DOMAIN furn
    BY <1>8 DEF Burst, Delete
  <2> QED
    BY <1>1, <2>2, <2>3
<1>9. CASE Shred(s)
  <2>1. Owed(s)' = 0
    BY <1>9, RedeemLocals, OwedNext
  <2>2. UNCHANGED <<money, furn>>
    BY <1>9 DEF Shred
  <2> QED
    BY <1>1, <2>1, <2>2
<1> QED
  BY <1>2, <1>3, <1>4, <1>5, <1>6, <1>7, <1>8, <1>9 DEF Redeem

\* The recycler gives rewards, which are worth nothing.
LEMMA FairRecycle ==
  ASSUME TypeOK, Able, TypeOK', Able', Ages, NEW s \in Session, Recycle(s)
  PROVE  Fair(s)
<1>1. Owed(s) = 0
  <2>1. Pc(s) \notin Owes
    BY RecycleLocals DEF RecyclerPC, Owes
  <2> QED
    BY <2>1, OwedNow
<1>2. Owed(s)' = 0
  <2>1. CASE Ends(s)
    BY <2>1, OwedNext
  <2>2. ASSUME NEW p \in RecyclerPC, NEW i, Becomes(s, p, task[s].mine, i, task[s].box)
        PROVE  Owed(s)' = 0
    <3>1. p \notin Owes
      BY DEF RecyclerPC, Owes
    <3> QED
      BY <2>2, <3>1, OwedNext
  <2> QED
    BY <2>1, <2>2, RecycleLocals DEF InRecycler
<1>3. UNCHANGED money
  BY DEF Recycle, RecyclerProceed, FindItem, RedeemOrCancel, CreateSession, MoveItem,
    BadItem, RewardSession, DropSession, DropItems
<1>4. CASE RewardSession(s)
  <2> DEFINE row == NewRow(Account[s], "hand", "reward", 0)
  <2>1. Insert(row) /\ row.kind = "reward"
    BY <1>4 DEF RewardSession, NewRow
  <2>2. Worth["reward"] = 0
    BY EconomyAssumption
  <2>3. Worth[row.kind] \in Nat /\ Owed(s)' + Worth[row.kind] <= Owed(s)
    <3> HIDE DEF row
    <3> QED
      BY <1>1, <1>2, <2>1, <2>2
  <2> HIDE DEF row
  <2> QED
    BY <1>3, <2>1, <2>3, FairInsert
<1>5. CASE ~RewardSession(s)
  <2>1. DOMAIN furn' \subseteq DOMAIN furn
    BY <1>5 DEF Recycle, RecyclerProceed, FindItem, RedeemOrCancel, CreateSession,
      MoveItem, BadItem, DropSession, DropItems, Put, Delete, goods
  <2> QED
    BY <1>1, <1>2, <1>3, <2>1, FairAside
<1> QED
  BY <1>4, <1>5

\* Amounts that were written over do not become right again.
LEMMA StaleStep ==
  ASSUME TypeOK, [Next]_vars, stale
  PROVE  stale'
<1>1. ASSUME NEW s \in Session, Shop(s)
      PROVE  stale'
  BY <1>1 DEF Shop, Purchase, InsertBox, BoxId, Pay, InsertItem, HandleMarked, HandlePlain,
    HandleTeleporter, LinkTeleporters, Wrap, BuyTickets, AddTickets, flags
<1>2. ASSUME NEW s \in Session, Redeem(s)
      PROVE  stale'
  BY <1>2 DEF Redeem, FindVoucher, RedeemCredit, OpenPresent, Unpack, DeleteVoucher, Melt,
    ReadCredits, WriteCredits, Burst, Shred, flags
<1>3. ASSUME NEW s \in Session, Recycle(s)
      PROVE  stale'
  BY <1>3 DEF Recycle, RecyclerProceed, FindItem, RedeemOrCancel, CreateSession, MoveItem,
    BadItem, RewardSession, DropSession, DropItems, flags
<1> QED
  BY <1>1, <1>2, <1>3 DEF Next, Fail, TimePasses, MoveAbout, flags, vars

\* What there was in the beginning, and the debts, are numbers.
LEMMA BeginningNat == Beginning \in Nat
<1>1. Natural([u \in User |-> Endowment], User) /\ Natural(Amount, Voucher)
  BY EconomyAssumption, EndowmentAssumption DEF Natural
<1>2. Voucher = DOMAIN Amount
  BY EconomyAssumption
<1> QED
  BY <1>1, <1>2, SumNat DEF Beginning, SumFunction

LEMMA DebtsNat ==
  ASSUME TypeOK, Able, IsFiniteSet(Busy)
  PROVE  Debts \in Nat
<1> DEFINE f == [r \in Session |-> Owed(r)]
<1>1. \A r \in Session : Owed(r) \in Nat
  BY TaskSound, OwingNat DEF Owed
<1>2. Natural(f, Busy)
  BY <1>1 DEF Natural, Busy
<1> QED
  BY <1>2, SumNat DEF Debts

\* A step of a session.
LEMMA CoveredBySession ==
  ASSUME TypeOK, Able, TypeOK', Able', Numbered, Covered, Ages, (stale => stale'),
         NEW s \in Session, Elsewhere(s), Deal(s)', ~stale' => Fair(s)
  PROVE  Covered'
<1>1. /\ IsFiniteSet(Busy') /\ {Debts, Debts', Owed(s), Owed(s)'} \subseteq Nat
      /\ Debts' + Owed(s) = Debts + Owed(s)'
  BY DebtsChange DEF Covered
<1>2. \A t \in Session : Deal(t)'
  BY DealLasts DEF Covered, Elsewhere
<1>3. ASSUME ~stale'
      PROVE  Wealth' + Debts' <= Beginning
  <2>1. Wealth + Debts <= Beginning /\ Fair(s)
    BY <1>3 DEF Covered
  <2>2. /\ Wealth = InPurses + InGoods + InVouchers
        /\ Wealth' = InPurses' + InGoods' + InVouchers'
        /\ {InPurses, InGoods, InVouchers, InPurses', InGoods', InVouchers'} \subseteq Nat
    BY Parts, PartsNext DEF Counted
  <2>3. Wealth' + Owed(s)' <= Wealth + Owed(s) /\ Wealth \in Nat /\ Wealth' \in Nat
    BY <2>1, <2>2 DEF Fair
  <2>4. Wealth' + Debts' <= Wealth + Debts
    <3>1. \A v, w, d, e, o, p \in Nat :
            v + p <= w + o /\ e + o = d + p => v + e <= w + d
      OBVIOUS
    <3> QED
      BY <1>1, <2>3, <3>1
  <2>5. \A m, n, b \in Nat : m <= n /\ n <= b => m <= b
    OBVIOUS
  <2>6. Wealth' + Debts' \in Nat /\ Wealth + Debts \in Nat
    BY <1>1, <2>3
  <2> QED
    BY <2>1, <2>4, <2>5, <2>6, BeginningNat
<1> QED
  BY <1>1, <1>2, <1>3 DEF Covered

\* A step that no session takes.
LEMMA CoveredByOthers ==
  ASSUME TypeOK, Able, TypeOK', Numbered, Covered, Ages, UNCHANGED <<task, money, stale>>,
         DOMAIN furn' \subseteq DOMAIN furn
  PROVE  Covered'
<1>1. Busy' = Busy /\ Debts' = Debts
  BY DEF Busy, Debts, Owed, Pc
<1>2. \A t \in Session : Deal(t)'
  BY DealLasts DEF Covered
<1>3. Wealth' <= Wealth /\ Wealth \in Nat /\ Wealth' \in Nat
  <2>1. InPurses' = InPurses /\ InVouchers' = InVouchers
    BY PursesStay, VouchersStay DEF money
  <2>2. InGoods' <= InGoods
    BY GoodsFewer
  <2> QED
    BY <2>1, <2>2, Parts, PartsNext DEF Counted
<1>4. Debts \in Nat /\ (~stale => Wealth + Debts <= Beginning) /\ IsFiniteSet(Busy)
  BY DebtsNat DEF Covered
<1>5. ASSUME ~stale'
      PROVE  Wealth' + Debts' <= Beginning
  <2>1. ~stale
    BY <1>5
  <2>2. Wealth + Debts <= Beginning
    BY <1>4, <2>1
  <2>3. \A v, w, d, b \in Nat : v <= w /\ w + d <= b => v + d <= b
    OBVIOUS
  <2>4. Wealth' + Debts <= Beginning
    BY <1>3, <1>4, <2>2, <2>3, BeginningNat
  <2> QED
    BY <1>1, <2>4
<1> QED
  BY <1>1, <1>2, <1>4, <1>5 DEF Covered

LEMMA CoveredStep ==
  ASSUME TypeOK, Able, Numbered, Covered, [Next]_vars
  PROVE  Covered'
<1>0. TypeOK' /\ Able' /\ Ages /\ (stale => stale') /\ \A s \in Session : Deal(s)
  BY TypeStep, AgesStep, StaleStep DEF Covered
<1>1. ASSUME NEW s \in Session, Shop(s)
      PROVE  Covered'
  <2>1. Elsewhere(s)
    BY <1>1, OrderlyShop
  <2>2. Deal(s)'
    BY <1>0, <1>1, DealOwn
  <2> QED
    BY <1>0, <1>1, <2>1, <2>2, FairShop, CoveredBySession
<1>2. ASSUME NEW s \in Session, Redeem(s) \/ Recycle(s)
      PROVE  Covered'
  <2>1. Elsewhere(s)
    BY <1>2, OrderlyAside
  <2>2. Deal(s)'
    BY <1>0, <1>2, DealOwn
  <2> QED
    BY <1>0, <1>2, <2>1, <2>2, FairRedeem, FairRecycle, CoveredBySession
<1>3. ASSUME NEW s \in Session, Fail(s)
      PROVE  Covered'
  <2>1. Ends(s)
    BY <1>3, RestEnds DEF Fail
  <2>2. Deal(s)' /\ Elsewhere(s)
    BY <1>0, <1>3, <2>1, DealOwn DEF Ends
  <2>3. Owed(s)' = 0 /\ Owed(s) \in Nat
    BY <2>1, OwedNext, TaskSound, OwingNat DEF Owed
  <2>4. Fair(s)
    BY <1>0, <1>3, <2>3, FairAside DEF Fail, goods
  <2> QED
    BY <1>0, <2>2, <2>4, CoveredBySession
<1>4. ASSUME NEW i \in DOMAIN furn, NEW w \in Where, NEW v \in User, MoveAbout(i, w, v)
      PROVE  Covered'
  BY <1>0, <1>4, MoveAboutLasts, CoveredByOthers DEF MoveAbout, flags
<1>5. UNCHANGED <<task, money, stale, furn>> => Covered'
  BY <1>0, CoveredByOthers
<1> QED
  BY <1>1, <1>2, <1>3, <1>4, <1>5 DEF Next, TimePasses, goods, flags, vars

LEMMA CoveredInit == Init => Covered
<1> SUFFICES ASSUME Init PROVE Covered
  OBVIOUS
<1>1. TypeOK /\ \A s \in Session : Pc(s) = "ready"
  BY TypeInit DEF Init, Pc, AtRest
<1>2. Busy = {} /\ IsFiniteSet(Busy)
  BY <1>1, FS_EmptySet DEF Busy
<1>3. Debts = 0
  BY <1>2, SumEmpty DEF Debts
<1>4. \A s \in Session : Deal(s)
  BY <1>1 DEF Deal
<1>5. InPurses = SumFunction([u \in User |-> Endowment])
  <2>1. \A u \in User : Purses[u] = Endowment
    <3>1. \A u \in User : credits[u] = Endowment /\ tickets[u] = 0
      BY DEF Init
    <3>2. TicketPrice * 0 = 0 /\ Endowment + 0 = Endowment
      BY EconomyAssumption, EndowmentAssumption
    <3> QED
      BY <3>1, <3>2 DEF Purses
  <2>2. Purses = [u \in User |-> Endowment] /\ DOMAIN Purses = User
    BY <2>1 DEF Purses
  <2> QED
    BY <2>2 DEF InPurses, SumFunction
<1>6. InGoods = 0
  <2>1. DOMAIN furn = {}
    BY DEF Init
  <2> QED
    BY <2>1, SumEmpty DEF InGoods
<1>7. InVouchers = SumFunction(Amount)
  <2>1. vouchers = DOMAIN Amount
    BY EconomyAssumption DEF Init
  <2> QED
    BY <2>1 DEF InVouchers, SumFunction
<1>8. Wealth + Debts <= Beginning
  <2>1. Counted
    BY <1>1, Parts
  <2> QED
    BY <1>3, <1>5, <1>6, <1>7, <2>1 DEF Counted, Beginning
<1> QED
  BY <1>2, <1>4, <1>8 DEF Covered

\* Whoever buys, gives, redeems and recycles at the same time, and wherever a query
\* fails: while nobody writes over credits that have changed since they were read and
\* nothing is redeemed twice, all credits, tickets, vouchers and items together are
\* never worth more than in the beginning.
THEOREM NothingFromNothing == Spec => []NothingForFree
<1>1. Init => TypeOK /\ Able /\ Numbered /\ Covered
  BY TypeInit, NumberedInit, CoveredInit
<1>2. TypeOK /\ Able /\ Numbered /\ Covered /\ [Next]_vars
        => (TypeOK /\ Able /\ Numbered /\ Covered)'
  BY TypeStep, NumberedStep, CoveredStep
<1>3. TypeOK /\ Able /\ Covered => NothingForFree
  <2> SUFFICES ASSUME TypeOK, Able, Covered, ~stale PROVE Wealth <= Beginning
    BY DEF NothingForFree
  <2>1. Debts \in Nat /\ Wealth + Debts <= Beginning
    BY DebtsNat DEF Covered
  <2>2. Wealth \in Nat
    BY Parts DEF Counted
  <2> QED
    BY <2>1, <2>2, BeginningNat
<1> QED
  BY <1>1, <1>2, <1>3, PTL DEF Spec
=============================================================================
