------------------------------- MODULE MCGames -------------------------------
(***************************************************************************)
(* Values for the constants of Games.                                      *)
(***************************************************************************)
EXTENDS Games, TLC

CONSTANTS a, b

Uids == [u \in User |-> IF u = a THEN 7 ELSE 8]
Square == {<<0, 0>>, <<0, 1>>, <<1, 0>>, <<1, 1>>}
Goals == {<<1, 0>>}
NoWall == {}
Spawns == [t \in Team |-> IF t = 0 THEN <<0, 0>> ELSE <<1, 1>>]
Asides == [t \in Team |-> <<1, 0>>]

\* Bounds: nothing is looked at beyond a second game under the id of a running cycle,
\* a failure, or a second start; beyond a lost copy only while two play on.  One session
\* at a time is in the middle of a packet.  Once a game was started, those outside it do
\* nothing, and nobody does anything when the cycle is over.
NoneRuns == \A i \in Id : cycle[i].pc = "off"
Bounded ==
  /\ ~reused /\ ~failed /\ ~missed /\ ~gone /\ ~restarted
  /\ Cardinality({u \in User : ~Ready(u)}) <= 1
  /\ raced => /\ starts > 0 /\ loose = {}
              /\ \A u \in User : /\ sess[u].here /\ sess[u].team # NoTeam /\ scored[u] <= 2
                                 /\ Ready(u) \/ task[u].then = sess[u]
  /\ \A i \in DOMAIN games : games[i].owner = b => a \in loose
  /\ starts > 0 =>
       \A u \in User : sess[u].game = NoGame \/ NoneRuns => Ready(u) \/ task[u].start # NoGame
=============================================================================
