------------------------------ MODULE MCEconomy ------------------------------
(***************************************************************************)
(* Values for the constants of Economy.                                    *)
(***************************************************************************)
EXTENDS Economy, TLC

CONSTANTS a, b, s1, s2, s3, v1

OneEach == [s \in Session |-> IF s = s2 THEN b ELSE a]
Offers == {[order |-> <<"plain">>, price |-> 1], [order |-> <<"teleporter">>, price |-> 2],
           [order |-> <<"marked", "credit">>, price |-> 2]}
Worths == [k \in Kind |-> IF k \in {"box", "reward"} THEN 0 ELSE 1]
Amounts == [c \in Voucher |-> 1]

\* Bounds: the first user buys, also for the second, who redeems, opens and
\* recycles; both use the voucher.  Nothing is looked at beyond a stale amount, a
\* crossed id or a failure in the recycler; after another failure the sessions
\* work one after the other.  Vouchers and tickets are apart from furniture, and
\* only boxes and credit furniture of the second user are put in a room.
Busy == {s \in Session : Pc(s) # "ready"}
Buying == {"box", "boxid", "pay", "insert", "handle", "link", "wrap", "tickets"}
Redeeming == {"melt", "open", "take", "move", "reward", "drop", "items", "unpack",
              "burst", "shred"}
Bounded ==
  /\ ~stale /\ ~muddled /\ ~crossed
  /\ interrupted => Cardinality(Busy) <= 1
  /\ \A s \in Session : Pc(s) \notin (IF s = s2 THEN Buying ELSE Redeeming)
  /\ tickets[a] + tickets[b] <= 1 /\ recycler[b] # "expired"
  /\ (furn # <<>> => vouchers = Voucher /\ tickets[a] + tickets[b] = 0)
  /\ \A i \in DOMAIN furn :
       At(i, "room") => furn[i].owner = b /\ furn[i].kind \in {"box", "credit"}
  /\ \A s \in Session : task[s].left <= 2
=============================================================================
