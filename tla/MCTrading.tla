------------------------------- MODULE MCTrading -------------------------------
EXTENDS Trading, TLC

CONSTANTS u1, u2, u3, i1, i2

\* u3 is not like the others, see below.
Symmetry == Permutations({u1, u2}) \cup Permutations(Item)

\* Bound: at most two sessions are in the middle of a packet.
TwoBusy ==
  Cardinality({u \in User : Pc(u) \notin {"ready", "offline", "failed"}}) <= 2

\* Bound: nothing is looked at beyond the first write that met another trade.
UntilMuddled == TwoBusy /\ ~muddled

\* Bound: three users come, and then stay, with the furniture in their hands.
Staying ==
  /\ UntilMuddled /\ ~overlapped /\ ~deserted /\ inHand = Item
  /\ \A u \in User : Pc(u) \notin {"offline", "failed"} /\ task[u].then = "ready"
  /\ \/ \A u \in User : uid[u] # NoUid
     \/ \A u \in User : trades[u] = NoTrade /\ Pc(u) = "ready"

\* u3 has not come, or owns an item that is not traded.
KeepsOut == Pc(u3) = "ready" /\ uid[u3] = NoUid /\ \A i \in Item : owner[i] # u3
NotTraded(i) ==
  /\ owner[i] = u3
  /\ \A u \in User : /\ i \notin task[u].give \cup task[u].take
                     /\ trades[u] # NoTrade => i \notin trades[u].items

\* Bounds: u1 and u2 do as they like until the first swap that was overlapped; or all
\* three stay in the room, trade one item, and do one thing while a trade is started.
TwoOrThree ==
  \/ UntilMuddled /\ KeepsOut /\ ~overlapped
  \/ /\ Staying /\ \E i \in Item : NotTraded(i)
     /\ Cardinality({u \in User : Pc(u) \notin {"ready", "insert"}}) <= 1
=============================================================================
