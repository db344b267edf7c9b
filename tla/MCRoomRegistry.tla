--------------------------- MODULE MCRoomRegistry ---------------------------
(***************************************************************************)
(* Values for the constants of RoomRegistry.                               *)
(***************************************************************************)
EXTENDS RoomRegistry, TLC

CONSTANTS u1, u2, r1, r2, k1

Symmetry == Permutations(User) \cup Permutations(Room)

\* At most two tasks are between their first and their last step at a time.
AtMostBusy(n) == Cardinality({t \in Task : Pc(t) \in Busy}) <= n
TwoBusy == AtMostBusy(2)

\* Once a write has been overtaken nothing more is asked of the behaviour.
UntilOvertaken == ~overtaken /\ TwoBusy

\* Bound: at most one session or room is broken by an error, after which one task
\* works at a time; nothing is looked at beyond a room left without a cycle.
OneBroken ==
  /\ UntilOvertaken /\ unspawned = {}
  /\ Cardinality(broken) <= 1 /\ (broken = {} \/ AtMostBusy(1))

\* Without errors, and without rooms that are left without a cycle.
NothingBroken == broken = {} /\ unspawned = {} /\ TwoBusy
UntilOvertakenOrBroken == ~overtaken /\ NothingBroken

\* Bound: of two rooms and two users, at least one room or one user takes no part yet.
Untouched(r) ==
  /\ loaded[r] = NotLoaded /\ Pc(r) = "none"
  /\ \A u \in User : r \notin {cur[u], goal[u], where[u]}
  /\ \A t \in Task : task[t].at # r
Waiting(u) == Pc(u) = "ready" /\ {cur[u], goal[u], where[u]} = {NoRoom}
OnePart ==
  \/ OneBroken /\ \E r \in Room : Untouched(r)
  \/ UntilOvertaken /\ NothingBroken /\ \E u \in User : Waiting(u)
=============================================================================
