------------------------------ MODULE GamesProofs ------------------------------
(***************************************************************************)
(* Proofs about Games, for all sets of users, maps, numbers of teams and   *)
(* games, and any length of a game.                                        *)
(*                                                                         *)
(* In this order: what the operations make of a player, a team and a game, *)
(* and of all games and copies (Closed, All); types (Typed); the cycles of *)
(* games (Kept); parts of a team, and players apart on their tiles (Neat); *)
(* places and points (Ends, Fair); what the steps do to the table (Edits,  *)
(* CycleMoves); what is on its way to it (Told, Carries); who plays while  *)
(* a cycle is busy (Rounds); points made, due and credited (Ledger); seats *)
(* and sessions (Inside, Member); and tickets (Funded, Solvent). The loops *)
(* of the model are folds: what is proved of them is in Sums.              *)
(***************************************************************************)
EXTENDS Games, Sums, TLAPS
-----------------------------------------------------------------------------
(* Teams                                                                   *)

\* retain() on a team goes through its players and keeps those who are not u.
LEMMA WithoutLoop ==
  ASSUME NEW team \in Seq(Player), NEW u
  PROVE  \E f \in [0 .. Len(team) -> Seq(Player)] :
           /\ f[0] = <<>>
           /\ \A k \in 1 .. Len(team) :
                f[k] = IF team[k].user = u THEN f[k - 1] ELSE Append(f[k - 1], team[k])
           /\ f[Len(team)] = Without(team, u)
<1> DEFINE V == Seq(Player)
           Body(v, p) == IF p.user = u THEN v ELSE Append(v, p)
           O == [x \in V \X Player |-> Body(x[1], x[2])]
           Is(g) == g = [s \in SUBSET DOMAIN team |->
                           IF s = {} THEN <<>> ELSE Body(g[s \ {Max(s)}], team[Max(s)])]
           c == CHOOSE g : Is(g)
           n == Len(team)
<1>1. team \in [1 .. n -> Player] /\ n \in Nat /\ <<>> \in V
  OBVIOUS
<1>2. O \in [V \X Player -> V] /\ \A v \in V, p \in Player : O[<<v, p>>] = Body(v, p)
  <2>1. \A v \in V, p \in Player : Body(v, p) \in V
    OBVIOUS
  <2> HIDE DEF V, Body
  <2> QED
    BY <2>1
<1>0. Without(team, u) = c[DOMAIN team]
  BY DEF Without, FoldLeft, MapThenFoldSet
<1>3. \A s \in SUBSET (1 .. n) : s # {} => Max(s) \in 1 .. n /\ s \ {Max(s)} \in SUBSET (1 .. n)
  BY <1>1, MaxIn
<1> HIDE DEF V, Body, O, n
<1>4. PICK g \in [SUBSET (1 .. n) -> V] : Loops(O, <<>>, team, g)
  BY <1>1, <1>2, LoopExists
<1>5. Is(g)
  <2>1. ASSUME NEW s \in SUBSET (1 .. n)
        PROVE  (IF s = {} THEN <<>> ELSE O[<<g[s \ {Max(s)}], team[Max(s)]>>])
                 = (IF s = {} THEN <<>> ELSE Body(g[s \ {Max(s)}], team[Max(s)]))
    BY <1>1, <1>2, <1>3
  <2> QED
    BY <1>1, <1>4, <2>1 DEF Loops
<1>6. Is(c)
  BY <1>5
<1> HIDE DEF c
<1> DEFINE W == V \cup {c[s] : s \in SUBSET DOMAIN team}
           Q == [x \in W \X Player |-> Body(x[1], x[2])]
<1>7. \A v \in V, p \in Player : Q[<<v, p>>] = Body(v, p) /\ Q[<<v, p>>] \in V
  <2>1. \A v \in V, p \in Player : Body(v, p) \in V
    BY <1>2
  <2> QED
    BY <2>1
<1>8. Loops(Q, <<>>, team, c)
  <2>1. ASSUME NEW s \in SUBSET (1 .. n)
        PROVE  (IF s = {} THEN <<>> ELSE Q[<<c[s \ {Max(s)}], team[Max(s)]>>])
                 = (IF s = {} THEN <<>> ELSE Body(c[s \ {Max(s)}], team[Max(s)]))
    BY <1>1, <1>3
  <2> HIDE DEF Q
  <2> QED
    BY <1>1, <1>6, <2>1 DEF Loops
<1> HIDE DEF Q
<1>9. Stays(Q, V, Player)
  BY <1>7 DEF Stays
<1>10. PICK f \in [0 .. n -> V] : Passes(Q, <<>>, team, n, f, c[DOMAIN team])
  BY <1>1, <1>8, <1>9, LoopRuns
<1>11. \A k \in 1 .. n : f[k] = Body(f[k - 1], team[k])
  <2> TAKE k \in 1 .. n
  <2>1. f[k - 1] \in V /\ team[k] \in Player
    BY <1>1
  <2> QED
    BY <1>7, <1>10, <2>1 DEF Passes
<1>12. /\ f \in [0 .. n -> V] /\ f[0] = <<>> /\ \A k \in 1 .. n : f[k] = Body(f[k - 1], team[k])
       /\ f[n] = Without(team, u)
  BY <1>0, <1>10, <1>11 DEF Passes
<1> USE DEF Body, n, V
<1>13. \A k \in 1 .. Len(team) :
         f[k] = IF team[k].user = u THEN f[k - 1] ELSE Append(f[k - 1], team[k])
  BY <1>12
<1>14. f \in [0 .. Len(team) -> Seq(Player)] /\ f[0] = <<>> /\ f[Len(team)] = Without(team, u)
  BY <1>12
<1> QED
  BY <1>13, <1>14

TeamTable(S) == UNION {[0 .. n - 1 -> S] : n \in TeamAmounts}

\* What a game is made of.
LEMMA GameParts ==
  ASSUME NEW g \in Game
  PROVE  /\ g.owner \in User /\ g.state \in {"Waiting", "Started", "Ended"}
         /\ g.teams \in TeamTable(Seq(Player))
         /\ g.viewers \in SUBSET User /\ g.blocked \in SUBSET Arena
         /\ g.tiles \in [Arena -> [team : Team \cup {NoTeam}, level : 0 .. 4]]
         /\ g.scores \in TeamTable(Nat) /\ g.left \in Nat /\ g.phase \in BOOLEAN
         /\ g = [owner |-> g.owner, state |-> g.state, teams |-> g.teams,
                 viewers |-> g.viewers, blocked |-> g.blocked, tiles |-> g.tiles,
                 scores |-> g.scores, left |-> g.left, phase |-> g.phase]
  BY DEF Game, TeamTable

\* A game has one to four teams, numbered from 0.
LEMMA GameTeams ==
  ASSUME NEW g \in Game
  PROVE  /\ g.teams \in [TeamsOf(g) -> Seq(Player)]
         /\ \E n \in TeamAmounts : TeamsOf(g) = 0 .. n - 1 /\ n \in 1 .. 4
         /\ TeamsOf(g) \subseteq Team /\ IsFiniteSet(TeamsOf(g))
         /\ TeamsOf(g) = 0 .. Cardinality(TeamsOf(g)) - 1
         /\ Cardinality(TeamsOf(g)) \in 1 .. 4
<1>1. PICK n \in TeamAmounts : g.teams \in [0 .. n - 1 -> Seq(Player)]
  BY GameParts DEF TeamTable
<1>2. TeamsOf(g) = 0 .. n - 1 /\ n \in 1 .. 4
  BY <1>1, GamesAssumption DEF TeamsOf
<1>3. IsFiniteSet(0 .. n - 1) /\ Cardinality(0 .. n - 1) = n
  <2>1. n - 1 \in Int /\ ~(0 > n - 1) /\ n - 1 - 0 + 1 = n
    BY <1>2
  <2> DEFINE m == n - 1
  <2> HIDE DEF m
  <2>2. m \in Int => IsFiniteSet(0 .. m) /\ Cardinality(0 .. m) = IF 0 > m THEN 0 ELSE m - 0 + 1
    BY FS_Interval
  <2> QED
    BY <2>1, <2>2 DEF m
<1>4. 0 .. n - 1 \subseteq Team
  BY <1>2 DEF Team
<1> QED
  BY <1>1, <1>2, <1>3, <1>4

\* A game with other teams is the same game otherwise.
LEMMA TeamsChange ==
  ASSUME NEW g \in Game, NEW T \in [TeamsOf(g) -> Seq(Player)]
  PROVE  /\ [g EXCEPT !.teams = T] \in Game
         /\ TeamsOf([g EXCEPT !.teams = T]) = TeamsOf(g)
         /\ [g EXCEPT !.teams = T].teams = T
         /\ [g EXCEPT !.teams = T].state = g.state
         /\ [g EXCEPT !.teams = T].owner = g.owner
         /\ [g EXCEPT !.teams = T].viewers = g.viewers
         /\ [g EXCEPT !.teams = T].blocked = g.blocked
         /\ [g EXCEPT !.teams = T].tiles = g.tiles
         /\ [g EXCEPT !.teams = T].scores = g.scores
         /\ [g EXCEPT !.teams = T].left = g.left
         /\ [g EXCEPT !.teams = T].phase = g.phase
<1>1. T \in TeamTable(Seq(Player))
  BY GameTeams DEF TeamTable
<1>2. [g EXCEPT !.teams = T]
        = [owner |-> g.owner, state |-> g.state, teams |-> T,
           viewers |-> g.viewers, blocked |-> g.blocked, tiles |-> g.tiles,
           scores |-> g.scores, left |-> g.left, phase |-> g.phase]
  BY GameParts
<1>3. [g EXCEPT !.teams = T] \in Game
  BY <1>1, <1>2, GameParts DEF Game, TeamTable
<1>4. [g EXCEPT !.teams = T].teams = T /\ DOMAIN T = TeamsOf(g)
  BY <1>2
<1> QED
  BY <1>2, <1>3, <1>4 DEF TeamsOf

\* A game with another player at one place is a game.
LEMMA OnePlayer ==
  ASSUME NEW g \in Game, NEW t \in TeamsOf(g), NEW n \in DOMAIN g.teams[t], NEW p \in Player
  PROVE  /\ [g EXCEPT !.teams[t][n] = p] \in Game
         /\ g.teams[t][n] \in Player
<1>1. g.teams[t] \in Seq(Player)
  BY GameTeams
<1>2. [g.teams[t] EXCEPT ![n] = p] \in Seq(Player)
  BY <1>1
<1>3. [g.teams EXCEPT ![t][n] = p] \in [TeamsOf(g) -> Seq(Player)]
  BY <1>2, GameTeams
<1> QED
  BY <1>1, <1>3, TeamsChange

\* A team without a user is a team.
LEMMA WithoutTyped ==
  ASSUME NEW team \in Seq(Player), NEW u
  PROVE  Without(team, u) \in Seq(Player)
  BY WithoutLoop

\* A new player is a player, and the user's.
LEMMA GamePlayerTyped ==
  ASSUME NEW u \in User
  PROVE  /\ GamePlayer(u) \in Player /\ GamePlayer(u).user = u
         /\ NewPlayer(u, 0) \in Player /\ NewPlayer(u, 0).user = u
<1>1. \A n \in Nat : NewPlayer(u, n) \in Player /\ NewPlayer(u, n).user = u
  BY DEF NewPlayer, Player, Tile, NoGoal
<1>2. RoomUid[u] \in Nat
  BY GamesAssumption
<1> QED
  BY <1>1, <1>2 DEF GamePlayer

\* Taking a user out of a team leaves teams, and a player to put elsewhere.
LEMMA TakenTyped ==
  ASSUME NEW g \in Game, NEW u \in User, NEW from
  PROVE  /\ Taken(g, u, from).teams \in [TeamsOf(g) -> Seq(Player)]
         /\ Taken(g, u, from).player \in Player
<1> DEFINE fewer == [g.teams EXCEPT ![from] = Without(@, u)]
           twins == {t \in DOMAIN fewer : Plays(fewer[t], u)}
           twin == Min(twins)
           n == Min({m \in DOMAIN fewer[twin] : fewer[twin][m].user = u})
<1>1. fewer \in [TeamsOf(g) -> Seq(Player)]
  BY GameTeams, WithoutTyped
<1>2. ASSUME twins # {}
      PROVE  /\ twin \in TeamsOf(g) /\ n \in DOMAIN fewer[twin]
             /\ RemoveAt(fewer[twin], n) \in Seq(Player)
  <2>1. twins \in SUBSET Nat
    BY <1>1, GameTeams DEF Team
  <2>2. twin \in twins /\ twin \in TeamsOf(g)
    BY <1>1, <1>2, <2>1, MinIn
  <2>3. fewer[twin] \in Seq(Player) /\ Plays(fewer[twin], u)
    BY <1>1, <2>2
  <2> HIDE DEF twin, fewer
  <2> DEFINE M == {m \in DOMAIN fewer[twin] : fewer[twin][m].user = u}
  <2>4. M # {} /\ M \in SUBSET Nat
    BY <2>3 DEF Plays
  <2>5. n \in M
    <3> HIDE DEF M
    <3>1. Min(M) \in M
      BY <2>4, MinIn
    <3> QED
      BY <3>1 DEF M
  <2>6. n \in DOMAIN fewer[twin]
    BY <2>5
  <2> HIDE DEF n
  <2>7. RemoveAt(fewer[twin], n) \in Seq(Player)
    BY <2>3, <2>6 DEF RemoveAt
  <2> QED
    BY <2>2, <2>6, <2>7
<1>3. Taken(g, u, from)
        = IF g.owner = u THEN [teams |-> fewer, player |-> GamePlayer(u)]
          ELSE IF twins = {} THEN [teams |-> fewer, player |-> NewPlayer(u, 0)]
          ELSE [teams |-> [fewer EXCEPT ![twin] = RemoveAt(@, n)], player |-> fewer[twin][n]]
  BY DEF Taken
<1> HIDE DEF fewer, twins, twin, n
<1>4. CASE g.owner = u \/ twins = {}
  BY <1>1, <1>3, <1>4, GamePlayerTyped
<1>5. CASE g.owner # u /\ twins # {}
  <2>1. fewer[twin][n] \in Player
    BY <1>1, <1>2, <1>5
  <2>2. [fewer EXCEPT ![twin] = RemoveAt(@, n)] \in [TeamsOf(g) -> Seq(Player)]
    BY <1>1, <1>2, <1>5
  <2> QED
    BY <1>3, <1>5, <2>1, <2>2
<1> QED
  BY <1>4, <1>5

\* Moving a user, or taking one out, makes a game in the same state.
LEMMA MoveTyped ==
  ASSUME NEW g \in Game, NEW u \in User, NEW from, NEW to \in TeamsOf(g)
  PROVE  /\ MoveOut(g, u, from) \in Game /\ MoveOut(g, u, from).state = g.state
         /\ MoveTo(g, u, from, to) \in Game /\ MoveTo(g, u, from, to).state = g.state
<1> DEFINE k == Taken(g, u, from)
<1>1. k.teams \in [TeamsOf(g) -> Seq(Player)] /\ k.player \in Player
  BY TakenTyped
<1> HIDE DEF k
<1>2. [k.teams EXCEPT ![to] = Append(@, k.player)] \in [TeamsOf(g) -> Seq(Player)]
  BY <1>1
<1>3. MoveOut(g, u, from) = [g EXCEPT !.teams = k.teams]
  BY DEF MoveOut, k
<1>4. MoveTo(g, u, from, to)
        = [g EXCEPT !.teams = IF Plays(k.teams[to], u) THEN k.teams
                              ELSE [k.teams EXCEPT ![to] = Append(@, k.player)]]
  BY DEF MoveTo, k
<1>5. MoveOut(g, u, from) \in Game /\ MoveOut(g, u, from).state = g.state
  BY <1>1, <1>3, TeamsChange
<1>6. MoveTo(g, u, from, to) \in Game /\ MoveTo(g, u, from, to).state = g.state
  <2> DEFINE T == IF Plays(k.teams[to], u) THEN k.teams
                  ELSE [k.teams EXCEPT ![to] = Append(@, k.player)]
  <2>1. T \in [TeamsOf(g) -> Seq(Player)]
    BY <1>1, <1>2
  <2> HIDE DEF T
  <2>2. [g EXCEPT !.teams = T] \in Game /\ [g EXCEPT !.teams = T].state = g.state
    BY <2>1, TeamsChange
  <2> QED
    BY <1>4, <2>2 DEF T
<1> QED
  BY <1>5, <1>6

Tiles == [Arena -> [team : Team \cup {NoTeam}, level : 0 .. 4]]

\* Who stands in a team is a player.
LEMMA PlayerIn ==
  ASSUME NEW g \in Game, NEW t \in TeamsOf(g), NEW n \in DOMAIN g.teams[t]
  PROVE  g.teams[t][n] \in Player /\ n \in Nat
<1>1. g.teams[t] \in Seq(Player)
  BY GameTeams
<1> QED
  BY <1>1

\* What a player's step makes of a game: the player is at p and has e points more.
Replaced(g, t, n, p) == [g.teams EXCEPT ![t] = [g.teams[t] EXCEPT ![n] = p]]
Stepped(g, t, n, p, B, T, e) ==
  [g EXCEPT !.teams = Replaced(g, t, n, p),
            !.blocked = B, !.tiles = T, !.scores = [g.scores EXCEPT ![t] = @ + e]]

\* What a player is made of.
LEMMA PlayerParts ==
  ASSUME NEW p \in Player
  PROVE  /\ p.user \in User /\ p.uid \in Nat /\ p.at \in Arena \cup {<<0, 0>>}
         /\ p.goal \in Tile /\ p.score \in Nat /\ p.entering \in BOOLEAN
         /\ p = [user |-> p.user, uid |-> p.uid, at |-> p.at, goal |-> p.goal,
                 score |-> p.score, entering |-> p.entering]
  BY DEF Player

\* The number of teams that have players is a number.
LEMMA ActiveNat ==
  ASSUME NEW g \in Game
  PROVE  Active(g) \in Nat
<1> DEFINE S == {t \in TeamsOf(g) : g.teams[t] # <<>>}
<1>1. IsFiniteSet(TeamsOf(g)) /\ S \in SUBSET TeamsOf(g)
  BY GameTeams
<1> HIDE DEF S
<1>2. Cardinality(S) \in Nat
  BY <1>1, FS_Subset, FS_CardinalityType
<1> QED
  BY <1>2 DEF Active, S

\* A tile gives points at every level.
LEMMA PointsNat == \A l \in 1 .. 4 : Points(l) \in Nat /\ Points(l) >= 1
  BY DEF Points

\* Colouring a tile gives the player and the team the same points, and moves nobody.
LEMMA ColourIs ==
  ASSUME NEW g \in Game, NEW t \in TeamsOf(g), NEW n \in DOMAIN g.teams[t], NEW at \in Arena
  PROVE  \E T \in Tiles, e \in Nat :
           Colour(g, t, n, at)
             = Stepped(g, t, n, [g.teams[t][n] EXCEPT !.score = @ + e], g.blocked, T, e)
<1> DEFINE tile == g.tiles[at]
           level == IF tile.team = t THEN tile.level + 1 ELSE 1
           extra == Active(g) * Points(level)
           T == [g.tiles EXCEPT ![at] = [team |-> t, level |-> level]]
<1>1. g.tiles \in Tiles /\ tile \in [team : Team \cup {NoTeam}, level : 0 .. 4]
  BY GameParts DEF Tiles
<1>2. CASE tile.level = 4
  <2>1. Colour(g, t, n, at) = g
    BY <1>2 DEF Colour
  <2>2. g = Stepped(g, t, n, [g.teams[t][n] EXCEPT !.score = @ + 0], g.blocked, g.tiles, 0)
    <3>1. g.teams \in [TeamsOf(g) -> Seq(Player)] /\ g.teams[t] \in Seq(Player)
      BY GameTeams
    <3>2. g.teams[t][n] \in Player
      BY <3>1
    <3>3. [g.teams[t][n] EXCEPT !.score = @ + 0] = g.teams[t][n]
      <4> DEFINE p == g.teams[t][n]
      <4>1. p \in Player /\ p.score \in Nat /\ p.score + 0 = p.score
        BY <3>2, PlayerParts
      <4> HIDE DEF p
      <4>2. [p EXCEPT !.score = p.score + 0] = p
        BY <4>1, PlayerParts
      <4> QED
        BY <4>2 DEF p
    <3>4. [g.teams EXCEPT ![t] = [g.teams[t] EXCEPT ![n] = g.teams[t][n]]] = g.teams
      <4>1. [g.teams[t] EXCEPT ![n] = g.teams[t][n]] = g.teams[t]
        BY <3>1
      <4> QED
        BY <3>1, <4>1
    <3>5. [g.scores EXCEPT ![t] = @ + 0] = g.scores
      <4>1. PICK m \in TeamAmounts : g.scores \in [0 .. m - 1 -> Nat]
        BY GameParts DEF TeamTable
      <4>2. t \in DOMAIN g.scores => g.scores[t] \in Nat
        BY <4>1
      <4>3. \A x \in Nat : x + 0 = x
        OBVIOUS
      <4> QED
        BY <4>1, <4>2, <4>3
    <3>6. Stepped(g, t, n, g.teams[t][n], g.blocked, g.tiles, 0)
            = [g EXCEPT !.teams = g.teams, !.blocked = g.blocked, !.tiles = g.tiles,
                        !.scores = g.scores]
      BY <3>4, <3>5 DEF Stepped, Replaced
    <3> QED
      BY <3>3, <3>6, GameParts
  <2> QED
    BY <1>1, <2>1, <2>2
<1>3. CASE tile.level # 4
  <2>1. level \in 1 .. 4 /\ level \in 0 .. 4
    BY <1>1, <1>3
  <2>2. extra \in Nat
    BY <2>1, PointsNat, ActiveNat
  <2>3. T \in Tiles
    BY <1>1, <2>1, GameTeams DEF Tiles
  <2>4. Colour(g, t, n, at)
          = [g EXCEPT !.tiles[at] = [team |-> t, level |-> level],
                      !.scores[t] = @ + extra, !.teams[t][n].score = @ + extra]
    BY <1>3 DEF Colour
  <2> HIDE DEF level, extra, tile
  <2>5. Colour(g, t, n, at)
          = Stepped(g, t, n, [g.teams[t][n] EXCEPT !.score = @ + extra], g.blocked, T, extra)
    BY <2>4, GameParts DEF Stepped, Replaced
  <2> QED
    BY <2>2, <2>3, <2>5
<1> QED
  BY <1>2, <1>3

\* What a player's step makes of a game is a game.
LEMMA SteppedTyped ==
  ASSUME NEW g \in Game, NEW t \in TeamsOf(g), NEW n \in DOMAIN g.teams[t],
         NEW p \in Player, NEW B \in SUBSET Arena, NEW T \in Tiles, NEW e \in Nat
  PROVE  /\ Stepped(g, t, n, p, B, T, e) \in Game
         /\ TeamsOf(Stepped(g, t, n, p, B, T, e)) = TeamsOf(g)
         /\ Stepped(g, t, n, p, B, T, e).teams = Replaced(g, t, n, p)
         /\ Stepped(g, t, n, p, B, T, e).blocked = B
         /\ Stepped(g, t, n, p, B, T, e).tiles = T
         /\ Stepped(g, t, n, p, B, T, e).scores = [g.scores EXCEPT ![t] = @ + e]
         /\ Stepped(g, t, n, p, B, T, e).state = g.state
         /\ Stepped(g, t, n, p, B, T, e).owner = g.owner
         /\ Stepped(g, t, n, p, B, T, e).left = g.left
         /\ Stepped(g, t, n, p, B, T, e).phase = g.phase
<1> DEFINE S == [g.scores EXCEPT ![t] = @ + e]
           M == Replaced(g, t, n, p)
<1>1. [g.teams[t] EXCEPT ![n] = p] \in Seq(Player) /\ g.teams \in [TeamsOf(g) -> Seq(Player)]
  BY GameTeams
<1>2. M \in [TeamsOf(g) -> Seq(Player)] /\ DOMAIN M = TeamsOf(g)
  <2>1. \A s \in Seq(Player) : [g.teams EXCEPT ![t] = s] \in [TeamsOf(g) -> Seq(Player)]
    BY <1>1
  <2> QED
    BY <1>1, <2>1 DEF Replaced
<1>3. M \in TeamTable(Seq(Player))
  BY <1>2, GameTeams DEF TeamTable
<1>4. S \in TeamTable(Nat)
  <2>1. PICK m \in TeamAmounts : g.scores \in [0 .. m - 1 -> Nat]
    BY GameParts DEF TeamTable
  <2>2. t \in 0 .. m - 1 => g.scores[t] + e \in Nat
    <3>1. t \in 0 .. m - 1 => g.scores[t] \in Nat
      BY <2>1
    <3> QED
      BY <3>1
  <2>3. S \in [0 .. m - 1 -> Nat]
    BY <2>1, <2>2
  <2> QED
    BY <2>3 DEF TeamTable
<1> HIDE DEF S, M
<1>5. Stepped(g, t, n, p, B, T, e)
        \in [owner : {g.owner}, state : {g.state}, teams : {M}, viewers : {g.viewers},
            blocked : {B}, tiles : {T}, scores : {S}, left : {g.left}, phase : {g.phase}]
  <2>1. Stepped(g, t, n, p, B, T, e)
          = [g EXCEPT !.teams = M, !.blocked = B, !.tiles = T, !.scores = S]
    BY DEF Stepped, S, M
  <2>2. DOMAIN g = {"owner", "state", "teams", "viewers", "blocked", "tiles", "scores", "left",
                    "phase"}
    BY DEF Game
  <2>3. [g EXCEPT !.teams = M, !.blocked = B, !.tiles = T, !.scores = S]
          \in [owner : {g.owner}, state : {g.state}, teams : {M}, viewers : {g.viewers},
              blocked : {B}, tiles : {T}, scores : {S}, left : {g.left}, phase : {g.phase}]
    BY <2>2
  <2> QED
    BY <2>1, <2>3
<1>6. Stepped(g, t, n, p, B, T, e) \in Game
  BY <1>3, <1>4, <1>5, GameParts DEF Game, TeamTable, Tiles
<1> QED
  BY <1>2, <1>5, <1>6 DEF TeamsOf, S, M

\* One player of a game is somewhere else, perhaps, and has e points more.
OnePlayerOn(g, h, t, n, e) ==
  LET p == g.teams[t][n]
      q == h.teams[t][n]
  IN /\ q.user = p.user /\ q.uid = p.uid /\ q.entering = p.entering /\ q.score = p.score + e
     /\ \/ q.at = p.at /\ h.blocked = g.blocked
        \/ q.at \in Arena \ g.blocked /\ h.blocked = (g.blocked \ {p.at}) \cup {q.at}
ScoresOn(g, h, t, e) ==
  DOMAIN h.scores = DOMAIN g.scores /\
  \A s \in DOMAIN g.scores : h.scores[s] = IF s = t THEN g.scores[s] + e ELSE g.scores[s]
SameSeats(g, h) ==
  TeamsOf(h) = TeamsOf(g) /\ \A s \in TeamsOf(g) : DOMAIN h.teams[s] = DOMAIN g.teams[s]
Others(g, h, t, n) ==
  \A s \in TeamsOf(g) : \A m \in DOMAIN g.teams[s] :
    s # t \/ m # n => h.teams[s][m] = g.teams[s][m]
SameRound(g, h) ==
  h.state = g.state /\ h.owner = g.owner /\ h.left = g.left /\ h.phase = g.phase
GoesOn(g, h, t, n, e) ==
  /\ h \in Game /\ SameRound(g, h) /\ SameSeats(g, h) /\ Others(g, h, t, n)
  /\ OnePlayerOn(g, h, t, n, e) /\ ScoresOn(g, h, t, e)

\* The scores of a game's teams are numbers.
LEMMA ScoresNat ==
  ASSUME NEW g \in Game
  PROVE  \A t \in DOMAIN g.scores : g.scores[t] \in Nat /\ g.scores[t] + 0 = g.scores[t]
<1>1. PICK m \in TeamAmounts : g.scores \in [0 .. m - 1 -> Nat]
  BY GameParts DEF TeamTable
<1>2. \A t \in DOMAIN g.scores : g.scores[t] \in Nat
  BY <1>1
<1>3. \A x \in Nat : x + 0 = x
  OBVIOUS
<1> QED
  BY <1>2, <1>3

\* Replacing one player leaves all others where they are.
LEMMA ReplacedOne ==
  ASSUME NEW g \in Game, NEW t \in TeamsOf(g), NEW n \in DOMAIN g.teams[t], NEW p \in Player,
         NEW h, h.teams = Replaced(g, t, n, p)
  PROVE  SameSeats(g, h) /\ Others(g, h, t, n) /\ h.teams[t][n] = p
<1>1. g.teams[t] \in Seq(Player) /\ g.teams \in [TeamsOf(g) -> Seq(Player)]
  BY GameTeams
<1>2. TeamsOf(h) = TeamsOf(g) /\ h.teams[t] = [g.teams[t] EXCEPT ![n] = p]
  BY <1>1 DEF TeamsOf, Replaced
<1>3. \A s \in TeamsOf(g) : s # t => h.teams[s] = g.teams[s]
  BY <1>1 DEF Replaced
<1>4. h.teams[t][n] = p /\ DOMAIN h.teams[t] = DOMAIN g.teams[t]
      /\ \A m \in DOMAIN g.teams[t] : m # n => h.teams[t][m] = g.teams[t][m]
  BY <1>1, <1>2
<1> QED
  BY <1>2, <1>3, <1>4 DEF SameSeats, Others

\* Colouring a tile is a step in which the player stays.
LEMMA ColourGoesOn ==
  ASSUME NEW g \in Game, NEW t \in TeamsOf(g), NEW n \in DOMAIN g.teams[t], NEW at \in Arena
  PROVE  \E e \in Nat : /\ GoesOn(g, Colour(g, t, n, at), t, n, e)
                        /\ Colour(g, t, n, at).blocked = g.blocked
                        /\ Colour(g, t, n, at).teams[t][n].at = g.teams[t][n].at
<1> DEFINE h == Colour(g, t, n, at)
           q == g.teams[t][n]
<1>1. PICK T \in Tiles, e \in Nat :
        h = Stepped(g, t, n, [q EXCEPT !.score = @ + e], g.blocked, T, e)
  BY ColourIs
<1>2. q \in Player
  BY PlayerIn
<1> DEFINE p == [q EXCEPT !.score = @ + e]
<1>3. /\ p \in Player /\ p.user = q.user /\ p.uid = q.uid /\ p.entering = q.entering
      /\ p.score = q.score + e /\ p.at = q.at
  <2>1. \A r \in Player : r.score + e \in Nat
    BY PlayerParts
  <2>2. q.score + e \in Nat
    BY <1>2, <2>1
  <2> HIDE DEF q
  <2> DEFINE x == q.score + e
  <2>3. x \in Nat
    BY <2>2
  <2>4. p = [q EXCEPT !.score = x]
    OBVIOUS
  <2> HIDE DEF x, p
  <2>5. p \in Player /\ p.score = x /\ p.user = q.user /\ p.uid = q.uid
        /\ p.entering = q.entering /\ p.at = q.at
    BY <1>2, <2>3, <2>4 DEF Player
  <2> QED
    BY <2>5 DEF x
<1>4. g.blocked \in SUBSET Arena
  BY GameParts
<1> HIDE DEF p, h
<1>5. /\ h \in Game /\ h.teams = Replaced(g, t, n, p)
      /\ h.blocked = g.blocked /\ h.scores = [g.scores EXCEPT ![t] = @ + e]
      /\ SameRound(g, h)
  <2>1. h = Stepped(g, t, n, p, g.blocked, T, e)
    BY <1>1 DEF p
  <2> QED
    BY <1>3, <1>4, <2>1, SteppedTyped DEF SameRound
<1>6. SameSeats(g, h) /\ Others(g, h, t, n) /\ h.teams[t][n] = p
  BY <1>3, <1>5, ReplacedOne
<1>7. ScoresOn(g, h, t, e)
  BY <1>5 DEF ScoresOn
<1>8. OnePlayerOn(g, h, t, n, e)
  BY <1>3, <1>5, <1>6 DEF OnePlayerOn
<1> QED
  BY <1>3, <1>5, <1>6, <1>7, <1>8 DEF GoesOn, h

Anew(g, t, n, p, B) == [g EXCEPT !.blocked = B, !.teams = Replaced(g, t, n, p)]

\* Putting one player elsewhere makes a game.
LEMMA PlacedAnew ==
  ASSUME NEW g \in Game, NEW t \in TeamsOf(g), NEW n \in DOMAIN g.teams[t],
         NEW p \in Player, NEW B \in SUBSET Arena, NEW h,
         h = Anew(g, t, n, p, B)
  PROVE  /\ h \in Game /\ h.teams = Replaced(g, t, n, p) /\ h.blocked = B
         /\ h.scores = g.scores /\ h.tiles = g.tiles /\ SameRound(g, h)
<1> DEFINE M == Replaced(g, t, n, p)
<1>1. [g.teams[t] EXCEPT ![n] = p] \in Seq(Player) /\ g.teams \in [TeamsOf(g) -> Seq(Player)]
  BY GameTeams
<1>2. M \in [TeamsOf(g) -> Seq(Player)] /\ DOMAIN M = TeamsOf(g)
  <2>1. \A s \in Seq(Player) : [g.teams EXCEPT ![t] = s] \in [TeamsOf(g) -> Seq(Player)]
    BY <1>1
  <2> QED
    BY <1>1, <2>1 DEF Replaced
<1>3. M \in TeamTable(Seq(Player))
  BY <1>2, GameTeams DEF TeamTable
<1> HIDE DEF M
<1>4. DOMAIN g = {"owner", "state", "teams", "viewers", "blocked", "tiles", "scores", "left",
                  "phase"}
  BY DEF Game
<1>5. [g EXCEPT !.blocked = B, !.teams = M]
        \in [owner : {g.owner}, state : {g.state}, teams : {M}, viewers : {g.viewers},
            blocked : {B}, tiles : {g.tiles}, scores : {g.scores}, left : {g.left},
            phase : {g.phase}]
  BY <1>4
<1>6. h = [g EXCEPT !.blocked = B, !.teams = M]
  BY DEF M, Anew
<1>7. h \in [owner : {g.owner}, state : {g.state}, teams : {M}, viewers : {g.viewers},
            blocked : {B}, tiles : {g.tiles}, scores : {g.scores}, left : {g.left},
            phase : {g.phase}]
  BY <1>5, <1>6
<1>8. h \in Game
  BY <1>3, <1>7, GameParts DEF Game, TeamTable
<1> QED
  BY <1>7, <1>8 DEF SameRound, M

\* Where the scores are the same, nothing was added to any.
LEMMA SameScores ==
  ASSUME NEW g \in Game, NEW h, h.scores = g.scores, NEW t
  PROVE  ScoresOn(g, h, t, 0)
  BY ScoresNat DEF ScoresOn

\* A step moves at most one player, to a tile that was free, and adds the points twice.
LEMMA StepGoesOn ==
  ASSUME NEW g \in Game, NEW t \in TeamsOf(g), NEW n \in DOMAIN g.teams[t]
  PROVE  \E e \in Nat : GoesOn(g, Step(g, t, n), t, n, e)
<1> DEFINE p == g.teams[t][n]
           next == NextStep(p.at, p.goal)
           q == [p EXCEPT !.at = next, !.goal = IF next = p.goal THEN NoGoal ELSE @]
           B == (g.blocked \ {p.at}) \cup {next}
           h == [g EXCEPT !.blocked = B, !.teams = Replaced(g, t, n, q)]
           r == [p EXCEPT !.goal = NoGoal]
           k == [g EXCEPT !.teams = Replaced(g, t, n, r)]
<1>1. p \in Player
  BY PlayerIn
<1>2. NoGoal \in Tile
  BY DEF Tile, NoGoal
<1>3. p.score \in Nat /\ p.score + 0 = p.score
  <2>1. \A x \in Nat : x + 0 = x
    OBVIOUS
  <2> QED
    BY <1>1, <2>1, PlayerParts
<1>4. g.blocked \in SUBSET Arena /\ g.teams \in [TeamsOf(g) -> Seq(Player)] /\ g.teams[t] \in Seq(Player)
  BY GameParts, GameTeams
<1>5. CASE p.goal[1] = -1
  <2>1. Step(g, t, n) = g
    BY <1>5 DEF Step
  <2>2. OnePlayerOn(g, g, t, n, 0)
    BY <1>3 DEF OnePlayerOn
  <2>3. SameSeats(g, g) /\ Others(g, g, t, n) /\ SameRound(g, g)
    BY DEF SameSeats, Others, SameRound
  <2>4. GoesOn(g, g, t, n, 0)
    BY <2>2, <2>3, SameScores DEF GoesOn
  <2> QED
    BY <2>1, <2>4
<1>6. CASE p.goal[1] # -1 /\ next \notin Arena \ g.blocked
  <2>1. Step(g, t, n) = [g EXCEPT !.teams[t][n].goal = NoGoal]
    BY <1>6 DEF Step
  <2>2. Step(g, t, n) = k
    BY <1>4, <2>1 DEF Replaced
  <2>3. r \in Player /\ r.user = p.user /\ r.uid = p.uid /\ r.entering = p.entering
        /\ r.score = p.score /\ r.at = p.at
    <3> HIDE DEF p
    <3> QED
      BY <1>1, <1>2 DEF Player
  <2> HIDE DEF r
  <2>4. Replaced(g, t, n, r) \in [TeamsOf(g) -> Seq(Player)]
    <3>1. [g.teams[t] EXCEPT ![n] = r] \in Seq(Player)
      BY <1>4, <2>3
    <3> QED
      BY <1>4, <3>1 DEF Replaced
  <2>5. k \in Game /\ k.teams = Replaced(g, t, n, r) /\ k.blocked = g.blocked
        /\ k.scores = g.scores /\ SameRound(g, k)
    <3> DEFINE M == Replaced(g, t, n, r)
    <3> HIDE DEF M
    <3>1. M \in [TeamsOf(g) -> Seq(Player)]
      BY <2>4 DEF M
    <3>2. [g EXCEPT !.teams = M] \in Game /\ [g EXCEPT !.teams = M].teams = M
          /\ [g EXCEPT !.teams = M].blocked = g.blocked
          /\ [g EXCEPT !.teams = M].scores = g.scores /\ SameRound(g, [g EXCEPT !.teams = M])
      BY <3>1, TeamsChange DEF SameRound
    <3> QED
      BY <3>2 DEF M
  <2> HIDE DEF k
  <2>6. SameSeats(g, k) /\ Others(g, k, t, n) /\ k.teams[t][n] = r
    BY <2>3, <2>5, ReplacedOne
  <2>7. OnePlayerOn(g, k, t, n, 0)
    BY <1>3, <2>3, <2>5, <2>6 DEF OnePlayerOn
  <2>8. GoesOn(g, k, t, n, 0)
    BY <2>5, <2>6, <2>7, SameScores DEF GoesOn
  <2> QED
    BY <2>2, <2>8
<1>7. CASE p.goal[1] # -1 /\ next \in Arena \ g.blocked
  <2>1. Step(g, t, n)
          = Colour([g EXCEPT !.blocked = B, !.teams[t][n] = q], t, n, next)
    BY <1>7 DEF Step
  <2>2. Step(g, t, n) = Colour(h, t, n, next)
    BY <1>4, <2>1 DEF Replaced
  <2>3. next \in Arena /\ next \notin g.blocked /\ next \in Arena \cup {<<0, 0>>}
    BY <1>7
  <2>4. B \in SUBSET Arena
    BY <1>4, <2>3
  <2> HIDE DEF next
  <2>5. q \in Player /\ q.user = p.user /\ q.uid = p.uid /\ q.entering = p.entering
        /\ q.score = p.score /\ q.at = next
    <3> HIDE DEF p
    <3> QED
      BY <1>1, <1>2, <2>3 DEF Player
  <2> HIDE DEF q
  <2>6. h \in Game /\ h.teams = Replaced(g, t, n, q) /\ h.blocked = B
        /\ h.scores = g.scores /\ SameRound(g, h)
    <3> HIDE DEF B, h
    <3>1. h = Anew(g, t, n, q, B)
      BY DEF h, Anew
    <3> QED
      BY <2>4, <2>5, <3>1, PlacedAnew
  <2> HIDE DEF h
  <2>7. SameSeats(g, h) /\ Others(g, h, t, n) /\ h.teams[t][n] = q
    BY <2>5, <2>6, ReplacedOne
  <2>8. t \in TeamsOf(h) /\ n \in DOMAIN h.teams[t]
    BY <2>7 DEF SameSeats
  <2> DEFINE c == Colour(h, t, n, next)
  <2>9. PICK e \in Nat : GoesOn(h, c, t, n, e) /\ c.blocked = h.blocked
                         /\ c.teams[t][n].at = h.teams[t][n].at
    BY <2>3, <2>6, <2>8, ColourGoesOn
  <2> HIDE DEF c
  <2>10. c \in Game /\ SameRound(g, c)
    BY <2>6, <2>9 DEF GoesOn, SameRound
  <2>11. SameSeats(g, c) /\ Others(g, c, t, n)
    BY <2>7, <2>9 DEF GoesOn, SameSeats, Others
  <2>12. ScoresOn(g, c, t, e)
    BY <2>6, <2>9 DEF GoesOn, ScoresOn
  <2>13. OnePlayerOn(g, c, t, n, e)
    <3>1. c.teams[t][n].user = p.user /\ c.teams[t][n].uid = p.uid
          /\ c.teams[t][n].entering = p.entering /\ c.teams[t][n].score = p.score + e
      BY <2>5, <2>7, <2>9 DEF GoesOn, OnePlayerOn
    <3>2. c.teams[t][n].at = next /\ c.blocked = (g.blocked \ {p.at}) \cup {next}
      BY <2>5, <2>6, <2>7, <2>9
    <3> QED
      BY <2>3, <3>1, <3>2 DEF OnePlayerOn
  <2>14. GoesOn(g, c, t, n, e)
    BY <2>10, <2>11, <2>12, <2>13 DEF GoesOn
  <2> QED
    BY <2>2, <2>14 DEF c
<1> QED
  BY <1>5, <1>6, <1>7

\* What every step of a team's player keeps, the loop over the team keeps.
LEMMA TickTeamIn ==
  ASSUME NEW X, NEW g \in X, NEW t, NEW m \in Nat, DOMAIN g.teams[t] = 1 .. m,
         \A h \in X, i \in 1 .. m : Step(h, t, i) \in X
  PROVE  TickTeam(g, t) \in X
<1> DEFINE V == X
           D == 1 .. m
           n == m
           q == [i \in DOMAIN g.teams[t] |-> i]
           Body(v, d) == Step(v, t, d)
           O == [x \in V \X D |-> Body(x[1], x[2])]
           Is(w) == w = [s \in SUBSET DOMAIN q |->
                           IF s = {} THEN g ELSE Body(w[s \ {Max(s)}], q[Max(s)])]
           c == CHOOSE w : Is(w)
<1>1. q \in [1 .. n -> D] /\ n \in Nat /\ g \in V
  OBVIOUS
<1>2. O \in [V \X D -> V] /\ \A v \in V, d \in D : O[<<v, d>>] = Body(v, d) /\ Body(v, d) \in V
  <2>1. \A v \in V, d \in D : Body(v, d) \in V
    OBVIOUS
  <2> HIDE DEF V, D, Body
  <2> QED
    BY <2>1
<1>3. TickTeam(g, t) = c[DOMAIN q]
  BY DEF TickTeam, FoldLeft, MapThenFoldSet
<1>4. \A s \in SUBSET (1 .. n) : s # {} => Max(s) \in 1 .. n /\ s \ {Max(s)} \in SUBSET (1 .. n)
  BY <1>1, MaxIn
<1> HIDE DEF V, D, Body, O, n, q
<1>5. PICK g1 \in [SUBSET (1 .. n) -> V] : Loops(O, g, q, g1)
  BY <1>1, <1>2, LoopExists
<1>6. Is(g1)
  <2>1. ASSUME NEW s \in SUBSET (1 .. n)
        PROVE  (IF s = {} THEN g ELSE O[<<g1[s \ {Max(s)}], q[Max(s)]>>])
                 = (IF s = {} THEN g ELSE Body(g1[s \ {Max(s)}], q[Max(s)]))
    BY <1>1, <1>2, <1>4
  <2> QED
    BY <1>1, <1>5, <2>1 DEF Loops
<1>7. Is(c)
  BY <1>6
<1> HIDE DEF c
<1> DEFINE W == V \cup {c[s] : s \in SUBSET DOMAIN q}
           Q == [x \in W \X D |-> Body(x[1], x[2])]
<1>8. \A v \in V, d \in D : Q[<<v, d>>] = Body(v, d)
  OBVIOUS
<1>9. Loops(Q, g, q, c)
  <2>1. ASSUME NEW s \in SUBSET (1 .. n)
        PROVE  (IF s = {} THEN g ELSE Q[<<c[s \ {Max(s)}], q[Max(s)]>>])
                 = (IF s = {} THEN g ELSE Body(c[s \ {Max(s)}], q[Max(s)]))
    BY <1>1, <1>4
  <2> HIDE DEF Q
  <2> QED
    BY <1>1, <1>7, <2>1 DEF Loops
<1> HIDE DEF Q
<1>10. Stays(Q, V, D)
  BY <1>2, <1>8 DEF Stays
<1>11. PICK f \in [0 .. n -> V] : Passes(Q, g, q, n, f, c[DOMAIN q])
  BY <1>1, <1>9, <1>10, LoopRuns
<1>12. f[n] = c[DOMAIN q] /\ n \in 0 .. n
  BY <1>1, <1>11 DEF Passes
<1> QED
  BY <1>3, <1>11, <1>12 DEF V

Moved(g) == FoldLeft(TickTeam, g, [n \in 1 .. Cardinality(TeamsOf(g)) |-> n - 1])

\* And so does the loop over the teams.
LEMMA MovedIn ==
  ASSUME NEW X, NEW g \in X, g \in Game, \A h \in X : h \in Game /\ SameSeats(g, h),
         \A h \in X : \A t \in TeamsOf(h) : \A i \in DOMAIN h.teams[t] : Step(h, t, i) \in X
  PROVE  Moved(g) \in X
<1> DEFINE V == X
           D == TeamsOf(g)
           n == Cardinality(TeamsOf(g))
           q == [i \in 1 .. Cardinality(TeamsOf(g)) |-> i - 1]
           Body(v, d) == TickTeam(v, d)
           O == [x \in V \X D |-> Body(x[1], x[2])]
           Is(w) == w = [s \in SUBSET DOMAIN q |->
                           IF s = {} THEN g ELSE Body(w[s \ {Max(s)}], q[Max(s)])]
           c == CHOOSE w : Is(w)
<1>1. q \in [1 .. n -> D] /\ n \in Nat /\ g \in V
  <2> DEFINE N == Cardinality(TeamsOf(g))
  <2>1. N \in 1 .. 4 /\ TeamsOf(g) = 0 .. N - 1
    BY GameTeams
  <2> HIDE DEF N
  <2>2. [i \in 1 .. N |-> i - 1] \in [1 .. N -> 0 .. N - 1]
    BY <2>1
  <2> QED
    BY <2>1, <2>2 DEF N
<1>2. O \in [V \X D -> V] /\ \A v \in V, d \in D : O[<<v, d>>] = Body(v, d) /\ Body(v, d) \in V
  <2>1. \A v \in V, d \in D : Body(v, d) \in V
    <3> SUFFICES ASSUME NEW h \in X, NEW t \in TeamsOf(g) PROVE TickTeam(h, t) \in X
      OBVIOUS
    <3>1. h \in Game /\ TeamsOf(h) = TeamsOf(g) /\ \A s \in TeamsOf(g) : DOMAIN h.teams[s] = DOMAIN g.teams[s]
      BY DEF SameSeats
    <3>2. h.teams[t] \in Seq(Player)
      BY <3>1, GameTeams
    <3>3. PICK m \in Nat : DOMAIN h.teams[t] = 1 .. m
      BY <3>2
    <3>4. \A k \in X, i \in 1 .. m : Step(k, t, i) \in X
      <4> TAKE k \in X, i \in 1 .. m
      <4>1. TeamsOf(k) = TeamsOf(g) /\ DOMAIN k.teams[t] = 1 .. m
        BY <3>1, <3>3 DEF SameSeats
      <4> QED
        BY <4>1
    <3> QED
      BY <3>3, <3>4, TickTeamIn
  <2> HIDE DEF V, D, Body
  <2> QED
    BY <2>1
<1>3. Moved(g) = c[DOMAIN q]
  BY DEF Moved, FoldLeft, MapThenFoldSet
<1>4. \A s \in SUBSET (1 .. n) : s # {} => Max(s) \in 1 .. n /\ s \ {Max(s)} \in SUBSET (1 .. n)
  BY <1>1, MaxIn
<1> HIDE DEF V, D, Body, O, n, q
<1>5. PICK g1 \in [SUBSET (1 .. n) -> V] : Loops(O, g, q, g1)
  BY <1>1, <1>2, LoopExists
<1>6. Is(g1)
  <2>1. ASSUME NEW s \in SUBSET (1 .. n)
        PROVE  (IF s = {} THEN g ELSE O[<<g1[s \ {Max(s)}], q[Max(s)]>>])
                 = (IF s = {} THEN g ELSE Body(g1[s \ {Max(s)}], q[Max(s)]))
    BY <1>1, <1>2, <1>4
  <2> QED
    BY <1>1, <1>5, <2>1 DEF Loops
<1>7. Is(c)
  BY <1>6
<1> HIDE DEF c
<1> DEFINE W == V \cup {c[s] : s \in SUBSET DOMAIN q}
           Q == [x \in W \X D |-> Body(x[1], x[2])]
<1>8. \A v \in V, d \in D : Q[<<v, d>>] = Body(v, d)
  OBVIOUS
<1>9. Loops(Q, g, q, c)
  <2>1. ASSUME NEW s \in SUBSET (1 .. n)
        PROVE  (IF s = {} THEN g ELSE Q[<<c[s \ {Max(s)}], q[Max(s)]>>])
                 = (IF s = {} THEN g ELSE Body(c[s \ {Max(s)}], q[Max(s)]))
    BY <1>1, <1>4
  <2> HIDE DEF Q
  <2> QED
    BY <1>1, <1>7, <2>1 DEF Loops
<1> HIDE DEF Q
<1>10. Stays(Q, V, D)
  BY <1>2, <1>8 DEF Stays
<1>11. PICK f \in [0 .. n -> V] : Passes(Q, g, q, n, f, c[DOMAIN q])
  BY <1>1, <1>9, <1>10, LoopRuns
<1>12. f[n] = c[DOMAIN q] /\ n \in 0 .. n
  BY <1>1, <1>11 DEF Passes
<1> QED
  BY <1>3, <1>11, <1>12 DEF V

Placing == [at : Tile, flip : BOOLEAN, uid : Nat, full : BOOLEAN, blocked : SUBSET Arena,
            team : Seq(Player)]
Filling == [uid : Nat, full : BOOLEAN, blocked : SUBSET Arena, teams : Seq(Seq(Player))]

\* The search for a spawn tile finds a tile; if it says so, one of the map that is free.
LEMMA SearchTyped ==
  ASSUME NEW t \in Team, NEW at \in Tile, NEW flip \in BOOLEAN, NEW B
  PROVE  /\ Search(at, flip, Aside[t], B).at \in Tile
         /\ Search(at, flip, Aside[t], B).flip \in BOOLEAN
         /\ Search(at, flip, Aside[t], B).free \in BOOLEAN
         /\ Search(at, flip, Aside[t], B).free
              => Search(at, flip, Aside[t], B).at \in Arena \ B
<1>1. Aside[t] \in {<<1, 0>>, <<0, 1>>}
  BY GamesAssumption
<1>2. \A d \in Tile : Add(at, d) \in Tile /\ Back(d) \in Tile
  BY DEF Tile, Add, Back
<1>3. Aside[t] \in Tile
  BY <1>1 DEF Tile
<1>4. Add(at, IF flip THEN Back(Aside[t]) ELSE Aside[t]) \in Tile
  BY <1>2, <1>3
<1> DEFINE d == Aside[t]
           next == Add(at, IF flip THEN Back(d) ELSE d)
<1>5. Search(at, flip, d, B)
        = IF at \notin B THEN [at |-> at, flip |-> flip, free |-> at \in Arena]
          ELSE IF next \notin B THEN [at |-> next, flip |-> ~flip, free |-> next \in Arena]
          ELSE [at |-> at, flip |-> flip, free |-> FALSE]
  BY DEF Search
<1> HIDE DEF next
<1>6. next \in Tile
  BY <1>4 DEF next
<1>7. CASE at \notin B
  <2>1. Search(at, flip, d, B) = [at |-> at, flip |-> flip, free |-> at \in Arena]
    BY <1>5, <1>7
  <2> DEFINE r == Search(at, flip, d, B)
  <2>2. r.at = at /\ r.flip = flip /\ r.free = (at \in Arena)
    BY <2>1
  <2> HIDE DEF r
  <2>3. r.at \in Tile /\ r.flip \in BOOLEAN /\ r.free \in BOOLEAN
    BY <1>7, <2>2
  <2>4. r.free => r.at \in Arena \ B
    BY <1>7, <2>2
  <2> QED
    BY <2>3, <2>4 DEF r
<1>8. CASE at \in B /\ next \notin B
  <2>1. Search(at, flip, d, B) = [at |-> next, flip |-> ~flip, free |-> next \in Arena]
    BY <1>5, <1>8
  <2> DEFINE r == Search(at, flip, d, B)
  <2>2. r.at = next /\ r.flip = ~flip /\ r.free = (next \in Arena)
    BY <2>1
  <2> HIDE DEF r
  <2>3. r.at \in Tile /\ r.flip \in BOOLEAN /\ r.free \in BOOLEAN
    BY <1>6, <1>8, <2>2
  <2>4. r.free => r.at \in Arena \ B
    BY <1>6, <1>8, <2>2
  <2> QED
    BY <2>3, <2>4 DEF r
<1>9. CASE at \in B /\ next \in B
  BY <1>5, <1>9
<1> QED
  BY <1>7, <1>8, <1>9

\* Placing a player leaves the loop over a team in a state of it.
LEMMA PlaceTyped ==
  ASSUME NEW t \in Team, NEW s \in Placing, NEW p \in Player
  PROVE  Place(t, s, p) \in Placing
<1> DEFINE found == Search(s.at, s.flip, Aside[t], s.blocked)
           on == found.at \in Arena
           q == [p EXCEPT !.uid = s.uid, !.goal = NoGoal, !.entering = TRUE,
                          !.at = IF on THEN found.at ELSE @]
<1>1. s.at \in Tile /\ s.flip \in BOOLEAN /\ s.uid \in Nat /\ s.full \in BOOLEAN
      /\ s.blocked \in SUBSET Arena /\ s.team \in Seq(Player)
  BY DEF Placing
<1>2. found.at \in Tile /\ found.flip \in BOOLEAN /\ found.free \in BOOLEAN
  BY <1>1, SearchTyped
<1>3. Place(t, s, p)
        = [at |-> found.at, flip |-> found.flip, uid |-> s.uid + 1,
           full |-> s.full \/ ~found.free,
           blocked |-> IF on THEN s.blocked \cup {found.at} ELSE s.blocked,
           team |-> Append(s.team, q)]
  BY DEF Place
<1> HIDE DEF found
<1>4. q \in Player
  <2> DEFINE x == IF on THEN found.at ELSE p.at
  <2>1. x \in Arena \cup {<<0, 0>>} /\ NoGoal \in Tile
    BY PlayerParts DEF NoGoal, Tile
  <2>2. q = [p EXCEPT !.uid = s.uid, !.goal = NoGoal, !.entering = TRUE, !.at = x]
    OBVIOUS
  <2> HIDE DEF x, q
  <2>3. DOMAIN p = {"user", "uid", "at", "goal", "score", "entering"}
    BY DEF Player
  <2> QED
    BY <1>1, <2>1, <2>2, <2>3, PlayerParts DEF Player
<1> HIDE DEF q
<1>5. Append(s.team, q) \in Seq(Player) /\ s.uid + 1 \in Nat
  BY <1>1, <1>4
<1> QED
  BY <1>1, <1>2, <1>3, <1>5 DEF Placing

Placed0(t, s) == [at |-> Spawn[t], flip |-> FALSE, uid |-> s.uid, full |-> s.full,
                  blocked |-> s.blocked, team |-> <<>>]

\* The loop over a team begins at the team's spawn tile.
LEMMA PlacedOff ==
  ASSUME NEW t \in Team, NEW s \in Filling
  PROVE  Placed0(t, s) \in Placing
<1>1. Spawn[t] \in Tile
  BY GamesAssumption DEF Tile
<1>2. <<>> \in Seq(Player)
  OBVIOUS
<1> QED
  BY <1>1, <1>2 DEF Placed0, Placing, Filling

\* Placing a team goes through its players one after the other.
LEMMA PlaceLoop ==
  ASSUME NEW g \in Game, NEW t \in TeamsOf(g), NEW z \in Filling
  PROVE  \E f \in [0 .. Len(g.teams[t]) -> Placing] :
           /\ f[0] = Placed0(t, z)
           /\ \A k \in 1 .. Len(g.teams[t]) : f[k] = Place(t, f[k - 1], g.teams[t][k])
           /\ LET r == f[Len(g.teams[t])]
              IN PlaceTeam(g, z, t) = [uid |-> r.uid, full |-> r.full, blocked |-> r.blocked,
                                       teams |-> Append(z.teams, r.team)]
<1> DEFINE V == Placing
           D == Player
           n == Len(g.teams[t])
           q == g.teams[t]
           Body(v, d) == Place(t, v, d)
           O == [x \in V \X D |-> Body(x[1], x[2])]
           Is(w) == w = [s \in SUBSET DOMAIN q |->
                           IF s = {} THEN Placed0(t, z) ELSE Body(w[s \ {Max(s)}], q[Max(s)])]
           c == CHOOSE w : Is(w)
<1>1. q \in [1 .. n -> D] /\ n \in Nat /\ Placed0(t, z) \in V
  <2>1. g.teams[t] \in Seq(Player) /\ t \in Team
    BY GameTeams
  <2>2. Placed0(t, z) \in Placing
    BY <2>1, PlacedOff
  <2> QED
    BY <2>1, <2>2
<1>2. O \in [V \X D -> V] /\ \A v \in V, d \in D : O[<<v, d>>] = Body(v, d) /\ Body(v, d) \in V
  <2>1. \A v \in V, d \in D : Body(v, d) \in V
    <3>1. t \in Team
      BY GameTeams
    <3> QED
      BY <3>1, PlaceTyped
  <2> HIDE DEF V, D, Body
  <2> QED
    BY <2>1
<1>3. FoldLeft(LAMBDA r, player : Place(t, r, player), Placed0(t, z), g.teams[t]) = c[DOMAIN q]
  BY DEF FoldLeft, MapThenFoldSet
<1>4. \A s \in SUBSET (1 .. n) : s # {} => Max(s) \in 1 .. n /\ s \ {Max(s)} \in SUBSET (1 .. n)
  BY <1>1, MaxIn
<1> HIDE DEF V, D, Body, O, n, q
<1>5. PICK g1 \in [SUBSET (1 .. n) -> V] : Loops(O, Placed0(t, z), q, g1)
  BY <1>1, <1>2, LoopExists
<1>6. Is(g1)
  <2>1. ASSUME NEW s \in SUBSET (1 .. n)
        PROVE  (IF s = {} THEN Placed0(t, z) ELSE O[<<g1[s \ {Max(s)}], q[Max(s)]>>])
                 = (IF s = {} THEN Placed0(t, z) ELSE Body(g1[s \ {Max(s)}], q[Max(s)]))
    BY <1>1, <1>2, <1>4
  <2> QED
    BY <1>1, <1>5, <2>1 DEF Loops
<1>7. Is(c)
  BY <1>6
<1> HIDE DEF c
<1> DEFINE W == V \cup {c[s] : s \in SUBSET DOMAIN q}
           Q == [x \in W \X D |-> Body(x[1], x[2])]
<1>8. \A v \in V, d \in D : Q[<<v, d>>] = Body(v, d)
  OBVIOUS
<1>9. Loops(Q, Placed0(t, z), q, c)
  <2>1. ASSUME NEW s \in SUBSET (1 .. n)
        PROVE  (IF s = {} THEN Placed0(t, z) ELSE Q[<<c[s \ {Max(s)}], q[Max(s)]>>])
                 = (IF s = {} THEN Placed0(t, z) ELSE Body(c[s \ {Max(s)}], q[Max(s)]))
    BY <1>1, <1>4
  <2> HIDE DEF Q
  <2> QED
    BY <1>1, <1>7, <2>1 DEF Loops
<1> HIDE DEF Q
<1>10. Stays(Q, V, D)
  BY <1>2, <1>8 DEF Stays
<1>11. PICK f \in [0 .. n -> V] : Passes(Q, Placed0(t, z), q, n, f, c[DOMAIN q])
  BY <1>1, <1>9, <1>10, LoopRuns
<1>12. \A k \in 1 .. n : f[k] = Body(f[k - 1], q[k])
  <2> TAKE k \in 1 .. n
  <2>1. f[k - 1] \in V /\ q[k] \in D
    BY <1>1
  <2> QED
    BY <1>8, <1>11, <2>1 DEF Passes
<1>13. f[n] = FoldLeft(LAMBDA r, player : Place(t, r, player), Placed0(t, z), g.teams[t])
  BY <1>3, <1>11 DEF Passes
<1>14. PlaceTeam(g, z, t) = [uid |-> f[n].uid, full |-> f[n].full, blocked |-> f[n].blocked,
                             teams |-> Append(z.teams, f[n].team)]
  BY <1>13 DEF PlaceTeam, Placed0
<1> USE DEF V, n, q, Body
<1>15. f \in [0 .. Len(g.teams[t]) -> Placing] /\ f[0] = Placed0(t, z)
  BY <1>11 DEF Passes
<1>16. \A k \in 1 .. Len(g.teams[t]) : f[k] = Place(t, f[k - 1], g.teams[t][k])
  BY <1>12
<1> QED
  BY <1>14, <1>15, <1>16

\* What the search makes of a team: the same players, on tiles that were free.
SamePlayers(team, other) ==
  /\ Len(other) = Len(team)
  /\ \A n \in 1 .. Len(team) :
       other[n].user = team[n].user /\ other[n].score = team[n].score
Apart(team) ==
  \A m, n \in DOMAIN team : m # n => team[m].at # team[n].at
SetDown(A, r, team, k) ==
  /\ Len(r.team) = k
  /\ \A m \in 1 .. k : r.team[m].user = team[m].user /\ r.team[m].score = team[m].score
  /\ ~r.full => /\ A \subseteq r.blocked /\ Apart(r.team)
                /\ \A m \in 1 .. k : r.team[m].at \in r.blocked \ A

\* Placing one player more: all those placed so far stand apart, unless the search failed.
LEMMA PlaceSetsDown ==
  ASSUME NEW t \in Team, NEW r \in Placing, NEW p \in Player, NEW A, NEW team, NEW k \in Nat,
         SetDown(A, r, team, k), team[k + 1] = p
  PROVE  SetDown(A, Place(t, r, p), team, k + 1) /\ (r.full => Place(t, r, p).full)
<1> DEFINE found == Search(r.at, r.flip, Aside[t], r.blocked)
           on == found.at \in Arena
           x == IF on THEN found.at ELSE p.at
           q == [p EXCEPT !.uid = r.uid, !.goal = NoGoal, !.entering = TRUE, !.at = x]
           s == Place(t, r, p)
<1>1. r.at \in Tile /\ r.flip \in BOOLEAN /\ r.team \in Seq(Player)
  BY DEF Placing
<1>2. found.free => found.at \in Arena \ r.blocked
  BY <1>1, SearchTyped
<1>3. s = [at |-> found.at, flip |-> found.flip, uid |-> r.uid + 1,
           full |-> r.full \/ ~found.free,
           blocked |-> IF on THEN r.blocked \cup {found.at} ELSE r.blocked,
           team |-> Append(r.team, q)]
  BY DEF Place
<1> HIDE DEF s, found
<1>4. q.user = p.user /\ q.score = p.score /\ q.at = x
  <2>1. DOMAIN p = {"user", "uid", "at", "goal", "score", "entering"}
    BY DEF Player
  <2> HIDE DEF x
  <2> QED
    BY <2>1
<1> HIDE DEF q
<1>5. s.team = Append(r.team, q) /\ s.full = (r.full \/ ~found.free)
      /\ s.blocked = IF on THEN r.blocked \cup {found.at} ELSE r.blocked
  BY <1>3
<1>6. Len(r.team) = k
  BY DEF SetDown
<1>7. Len(s.team) = k + 1 /\ s.team[k + 1] = q /\ \A m \in 1 .. k : s.team[m] = r.team[m]
  <2> DEFINE w == r.team
  <2>1. w \in Seq(Player) /\ Len(w) = k
    BY <1>1, <1>6
  <2> HIDE DEF w
  <2>2. Len(Append(w, q)) = k + 1 /\ Append(w, q)[k + 1] = q
        /\ \A m \in 1 .. k : Append(w, q)[m] = w[m]
    BY <2>1
  <2> QED
    BY <1>5, <2>2 DEF w
<1>8. \A m \in 1 .. k + 1 : s.team[m].user = team[m].user /\ s.team[m].score = team[m].score
  <2> TAKE m \in 1 .. k + 1
  <2>1. CASE m = k + 1
    BY <1>4, <1>7, <2>1
  <2>2. CASE m \in 1 .. k
    BY <1>7, <2>2 DEF SetDown
  <2> QED
    BY <2>1, <2>2
<1>9. ASSUME ~s.full
      PROVE  /\ A \subseteq s.blocked /\ Apart(s.team)
             /\ \A m \in 1 .. k + 1 : s.team[m].at \in s.blocked \ A
  <2>1. ~r.full /\ found.free
    BY <1>5, <1>9
  <2>2. found.at \in Arena /\ found.at \notin r.blocked /\ q.at = found.at
        /\ s.blocked = r.blocked \cup {found.at}
    BY <1>2, <1>4, <1>5, <2>1
  <2>3. A \subseteq r.blocked /\ Apart(r.team) /\ \A m \in 1 .. k : r.team[m].at \in r.blocked \ A
    BY <2>1 DEF SetDown
  <2>4. \A m \in 1 .. k + 1 : m = k + 1 \/ m \in 1 .. k
    OBVIOUS
  <2>5. \A m \in 1 .. k + 1 : s.team[m].at \in s.blocked \ A
    BY <1>7, <2>2, <2>3, <2>4
  <2>6. DOMAIN r.team = 1 .. k /\ DOMAIN s.team = 1 .. k + 1
    <3>1. s.team \in Seq(Player \cup {q})
      BY <1>1, <1>5
    <3> QED
      BY <1>1, <1>6, <1>7, <3>1
  <2>7. Apart(s.team)
    <3> SUFFICES ASSUME NEW m \in 1 .. k + 1, NEW n \in 1 .. k + 1, m # n
                 PROVE  s.team[m].at # s.team[n].at
      BY <2>6 DEF Apart
    <3>1. CASE m \in 1 .. k /\ n \in 1 .. k
      BY <1>7, <2>3, <2>6, <3>1 DEF Apart
    <3>2. CASE m = k + 1 /\ n \in 1 .. k
      BY <1>7, <2>2, <2>3, <3>2
    <3>3. CASE n = k + 1 /\ m \in 1 .. k
      BY <1>7, <2>2, <2>3, <3>3
    <3> QED
      BY <2>4, <3>1, <3>2, <3>3
  <2> QED
    BY <2>2, <2>3, <2>5, <2>7
<1> QED
  BY <1>5, <1>7, <1>8, <1>9 DEF SetDown, s

\* A team that is placed has the players it had, each on a free tile of its own.
LEMMA PlaceTeamIs ==
  ASSUME NEW g \in Game, NEW t \in TeamsOf(g), NEW z \in Filling
  PROVE  \E team \in Seq(Player) :
           /\ PlaceTeam(g, z, t) \in Filling
           /\ PlaceTeam(g, z, t).teams = Append(z.teams, team)
           /\ SamePlayers(g.teams[t], team)
           /\ z.full => PlaceTeam(g, z, t).full
           /\ ~PlaceTeam(g, z, t).full =>
                /\ z.blocked \subseteq PlaceTeam(g, z, t).blocked /\ Apart(team)
                /\ \A m \in DOMAIN team : team[m].at \in PlaceTeam(g, z, t).blocked \ z.blocked
<1> DEFINE N == Len(g.teams[t])
<1>1. g.teams[t] \in Seq(Player) /\ t \in Team /\ N \in Nat
  BY GameTeams
<1>2. PICK f \in [0 .. N -> Placing] :
         /\ f[0] = Placed0(t, z)
         /\ \A k \in 1 .. N : f[k] = Place(t, f[k - 1], g.teams[t][k])
         /\ PlaceTeam(g, z, t) = [uid |-> f[N].uid, full |-> f[N].full, blocked |-> f[N].blocked,
                                  teams |-> Append(z.teams, f[N].team)]
  BY PlaceLoop
<1> DEFINE P == {k \in Nat : k <= N =>
                   SetDown(z.blocked, f[k], g.teams[t], k) /\ (z.full => f[k].full)}
<1>3. 0 \in P
  <2>1. f[0].team = <<>> /\ f[0].full = z.full /\ f[0].blocked = z.blocked
    BY <1>2 DEF Placed0
  <2>2. SetDown(z.blocked, f[0], g.teams[t], 0)
    BY <2>1 DEF SetDown, Apart
  <2> QED
    BY <2>1, <2>2
<1>4. ASSUME NEW k \in Nat, k \in P
      PROVE  k + 1 \in P
  <2> SUFFICES ASSUME k + 1 <= N
               PROVE  SetDown(z.blocked, f[k + 1], g.teams[t], k + 1)
                      /\ (z.full => f[k + 1].full)
    OBVIOUS
  <2>1. k \in 0 .. N /\ k + 1 \in 1 .. N /\ k + 1 - 1 = k /\ k <= N
    BY <1>1
  <2>2. f[k] \in Placing /\ g.teams[t][k + 1] \in Player
    BY <1>1, <1>2, <2>1
  <2>3. f[k + 1] = Place(t, f[k], g.teams[t][k + 1])
    BY <1>2, <2>1
  <2>4. SetDown(z.blocked, f[k], g.teams[t], k) /\ (z.full => f[k].full)
    BY <1>4, <2>1
  <2> HIDE DEF N, P
  <2> QED
    BY <1>1, <2>2, <2>3, <2>4, PlaceSetsDown
<1>5. N \in P
  <2> HIDE DEF P
  <2> QED
    BY <1>1, <1>3, <1>4, NatInduct
<1> DEFINE r == f[N]
           s == PlaceTeam(g, z, t)
<1>6. r \in Placing /\ SetDown(z.blocked, r, g.teams[t], N) /\ (z.full => r.full)
  BY <1>1, <1>2, <1>5
<1>7. s = [uid |-> r.uid, full |-> r.full, blocked |-> r.blocked, teams |-> Append(z.teams, r.team)]
  BY <1>2
<1> HIDE DEF r, s, P
<1>8. r.uid \in Nat /\ r.full \in BOOLEAN /\ r.blocked \in SUBSET Arena /\ r.team \in Seq(Player)
  BY <1>6 DEF Placing
<1>9. z.teams \in Seq(Seq(Player))
  BY DEF Filling
<1>10. Append(z.teams, r.team) \in Seq(Seq(Player))
  BY <1>8, <1>9
<1>11. s \in Filling /\ s.teams = Append(z.teams, r.team) /\ s.full = r.full
       /\ s.blocked = r.blocked
  <2> DEFINE a == Append(z.teams, r.team)
  <2> HIDE DEF a
  <2>1. a \in Seq(Seq(Player)) /\ s = [uid |-> r.uid, full |-> r.full, blocked |-> r.blocked, teams |-> a]
    BY <1>7, <1>10 DEF a
  <2>2. s \in Filling /\ s.teams = a /\ s.full = r.full /\ s.blocked = r.blocked
    BY <1>8, <2>1 DEF Filling
  <2> QED
    BY <2>2 DEF a
<1>12. SamePlayers(g.teams[t], r.team)
  BY <1>6 DEF SamePlayers, SetDown
<1>13. DOMAIN r.team = 1 .. N
  BY <1>6, <1>8 DEF SetDown
<1>14. ~s.full => /\ z.blocked \subseteq s.blocked /\ Apart(r.team)
                  /\ \A m \in DOMAIN r.team : r.team[m].at \in s.blocked \ z.blocked
  BY <1>6, <1>11, <1>13 DEF SetDown
<1>15. z.full => s.full
  BY <1>6, <1>11
<1> QED
  BY <1>8, <1>11, <1>12, <1>14, <1>15 DEF s

NobodyYet == [uid |-> 0, full |-> FALSE, blocked |-> Wall, teams |-> <<>>]
InOrder(g) == [n \in 1 .. Cardinality(TeamsOf(g)) |-> n - 1]

\* The teams are gone through in the order of their numbers.
LEMMA InOrderTyped ==
  ASSUME NEW g \in Game
  PROVE  /\ InOrder(g) \in [1 .. Cardinality(TeamsOf(g)) -> TeamsOf(g)]
         /\ Cardinality(TeamsOf(g)) \in Nat
<1> DEFINE N == Cardinality(TeamsOf(g))
<1>1. N \in 1 .. 4 /\ TeamsOf(g) = 0 .. N - 1
  BY GameTeams
<1> HIDE DEF N
<1>2. [i \in 1 .. N |-> i - 1] \in [1 .. N -> 0 .. N - 1]
  BY <1>1
<1> QED
  BY <1>1, <1>2 DEF N, InOrder

\* Placing the players of a game goes through the teams one after the other.
LEMMA PlacedLoop ==
  ASSUME NEW g \in Game
  PROVE  \E f \in [0 .. Cardinality(TeamsOf(g)) -> Filling] :
           /\ f[0] = NobodyYet
           /\ \A k \in 1 .. Cardinality(TeamsOf(g)) : f[k] = PlaceTeam(g, f[k - 1], k - 1)
           /\ Placed(g) = f[Cardinality(TeamsOf(g))]
<1> DEFINE V == Filling
           D == TeamsOf(g)
           n == Cardinality(TeamsOf(g))
           q == InOrder(g)
           Body(v, d) == PlaceTeam(g, v, d)
           O == [x \in V \X D |-> Body(x[1], x[2])]
           Is(w) == w = [s \in SUBSET DOMAIN q |->
                           IF s = {} THEN NobodyYet ELSE Body(w[s \ {Max(s)}], q[Max(s)])]
           c == CHOOSE w : Is(w)
<1>1. q \in [1 .. n -> D] /\ n \in Nat /\ NobodyYet \in V
  <2>1. NobodyYet \in Filling
    <3>1. Wall \in SUBSET Arena /\ <<>> \in Seq(Seq(Player))
      BY GamesAssumption
    <3> QED
      BY <3>1 DEF NobodyYet, Filling
  <2> QED
    BY <2>1, InOrderTyped
<1>2. O \in [V \X D -> V] /\ \A v \in V, d \in D : O[<<v, d>>] = Body(v, d) /\ Body(v, d) \in V
  <2>1. \A v \in V, d \in D : Body(v, d) \in V
    BY PlaceTeamIs
  <2> HIDE DEF V, D, Body
  <2> QED
    BY <2>1
<1>3. Placed(g) = c[DOMAIN q]
  BY DEF FoldLeft, MapThenFoldSet, Placed, NobodyYet, InOrder
<1>4. \A s \in SUBSET (1 .. n) : s # {} => Max(s) \in 1 .. n /\ s \ {Max(s)} \in SUBSET (1 .. n)
  BY <1>1, MaxIn
<1> HIDE DEF V, D, Body, O, n, q
<1>5. PICK g1 \in [SUBSET (1 .. n) -> V] : Loops(O, NobodyYet, q, g1)
  BY <1>1, <1>2, LoopExists
<1>6. Is(g1)
  <2>1. ASSUME NEW s \in SUBSET (1 .. n)
        PROVE  (IF s = {} THEN NobodyYet ELSE O[<<g1[s \ {Max(s)}], q[Max(s)]>>])
                 = (IF s = {} THEN NobodyYet ELSE Body(g1[s \ {Max(s)}], q[Max(s)]))
    BY <1>1, <1>2, <1>4
  <2> QED
    BY <1>1, <1>5, <2>1 DEF Loops
<1>7. Is(c)
  BY <1>6
<1> HIDE DEF c
<1> DEFINE W == V \cup {c[s] : s \in SUBSET DOMAIN q}
           Q == [x \in W \X D |-> Body(x[1], x[2])]
<1>8. \A v \in V, d \in D : Q[<<v, d>>] = Body(v, d)
  OBVIOUS
<1>9. Loops(Q, NobodyYet, q, c)
  <2>1. ASSUME NEW s \in SUBSET (1 .. n)
        PROVE  (IF s = {} THEN NobodyYet ELSE Q[<<c[s \ {Max(s)}], q[Max(s)]>>])
                 = (IF s = {} THEN NobodyYet ELSE Body(c[s \ {Max(s)}], q[Max(s)]))
    BY <1>1, <1>4
  <2> HIDE DEF Q
  <2> QED
    BY <1>1, <1>7, <2>1 DEF Loops
<1> HIDE DEF Q
<1>10. Stays(Q, V, D)
  BY <1>2, <1>8 DEF Stays
<1>11. PICK f \in [0 .. n -> V] : Passes(Q, NobodyYet, q, n, f, c[DOMAIN q])
  BY <1>1, <1>9, <1>10, LoopRuns
<1>12. \A k \in 1 .. n : f[k] = Body(f[k - 1], q[k])
  <2> TAKE k \in 1 .. n
  <2>1. f[k - 1] \in V /\ q[k] \in D
    BY <1>1
  <2> QED
    BY <1>8, <1>11, <2>1 DEF Passes
<1>13. f[n] = Placed(g)
  BY <1>3, <1>11 DEF Passes
<1>14. \A k \in 1 .. n : q[k] = k - 1
  BY DEF q, n, InOrder
<1> USE DEF V, n, Body
<1>15. f \in [0 .. Cardinality(TeamsOf(g)) -> Filling] /\ f[0] = NobodyYet
  BY <1>11 DEF Passes
<1>16. \A k \in 1 .. Cardinality(TeamsOf(g)) : f[k] = PlaceTeam(g, f[k - 1], k - 1)
  BY <1>12, <1>14
<1> QED
  BY <1>13, <1>15, <1>16

\* The teams that were placed: the players of the game, and no two of them on one tile.
Clear(B, teams) ==
  /\ \A i \in DOMAIN teams : Apart(teams[i]) /\ \A m \in DOMAIN teams[i] : teams[i][m].at \in B
  /\ \A i, j \in DOMAIN teams : i # j =>
       \A m \in DOMAIN teams[i], n \in DOMAIN teams[j] : teams[i][m].at # teams[j][n].at
FilledTo(g, s, k) ==
  /\ Len(s.teams) = k
  /\ \A i \in 1 .. k : SamePlayers(g.teams[i - 1], s.teams[i])
  /\ ~s.full => Clear(s.blocked, s.teams)

\* Placing one team more: nobody on a tile where a player of another team stands.
LEMMA PlaceTeamFills ==
  ASSUME NEW g \in Game, NEW k \in Nat, k \in TeamsOf(g), NEW s \in Filling, FilledTo(g, s, k)
  PROVE  FilledTo(g, PlaceTeam(g, s, k), k + 1)
<1> DEFINE r == PlaceTeam(g, s, k)
<1>1. PICK team \in Seq(Player) :
           /\ r \in Filling /\ r.teams = Append(s.teams, team)
           /\ SamePlayers(g.teams[k], team)
           /\ s.full => r.full
           /\ ~r.full => /\ s.blocked \subseteq r.blocked /\ Apart(team)
                         /\ \A m \in DOMAIN team : team[m].at \in r.blocked \ s.blocked
  BY PlaceTeamIs
<1> HIDE DEF r
<1>2. s.teams \in Seq(Seq(Player)) /\ Len(s.teams) = k
  BY DEF Filling, FilledTo
<1>3. /\ Len(r.teams) = k + 1 /\ DOMAIN r.teams = 1 .. k + 1 /\ DOMAIN s.teams = 1 .. k
      /\ r.teams[k + 1] = team /\ \A i \in 1 .. k : r.teams[i] = s.teams[i]
  <2> DEFINE w == s.teams
  <2>1. w \in Seq(Seq(Player)) /\ Len(w) = k
    BY <1>2
  <2> HIDE DEF w
  <2>2. /\ Len(Append(w, team)) = k + 1 /\ DOMAIN Append(w, team) = 1 .. k + 1
        /\ DOMAIN w = 1 .. k
        /\ Append(w, team)[k + 1] = team /\ \A i \in 1 .. k : Append(w, team)[i] = w[i]
    BY <2>1
  <2> QED
    BY <1>1, <2>2 DEF w
<1>4. \A i \in 1 .. k + 1 : i = k + 1 \/ i \in 1 .. k
  OBVIOUS
<1>5. \A i \in 1 .. k + 1 : SamePlayers(g.teams[i - 1], r.teams[i])
  <2>1. k + 1 - 1 = k
    OBVIOUS
  <2> QED
    BY <1>1, <1>3, <1>4, <2>1 DEF FilledTo
<1>6. ASSUME ~r.full
      PROVE  Clear(r.blocked, r.teams)
  <2>1. Clear(s.blocked, s.teams) /\ s.blocked \subseteq r.blocked /\ Apart(team)
        /\ \A m \in DOMAIN team : team[m].at \in r.blocked /\ team[m].at \notin s.blocked
    BY <1>1, <1>6 DEF FilledTo
  <2>2. ASSUME NEW i \in 1 .. k + 1
        PROVE  Apart(r.teams[i]) /\ \A m \in DOMAIN r.teams[i] : r.teams[i][m].at \in r.blocked
    <3>1. CASE i = k + 1
      BY <1>3, <2>1, <3>1
    <3>2. CASE i \in 1 .. k
      BY <1>3, <2>1, <3>2 DEF Clear
    <3> QED
      BY <1>4, <3>1, <3>2
  <2>3. ASSUME NEW i \in 1 .. k + 1, NEW j \in 1 .. k + 1, i # j,
               NEW m \in DOMAIN r.teams[i], NEW n \in DOMAIN r.teams[j]
        PROVE  r.teams[i][m].at # r.teams[j][n].at
    <3>4. \A y \in 1 .. k : \A o \in DOMAIN s.teams[y] : s.teams[y][o].at \in s.blocked
      BY <1>3, <2>1 DEF Clear
    <3>5. \A y, z \in 1 .. k : y # z => \A o \in DOMAIN s.teams[y], p \in DOMAIN s.teams[z] :
             s.teams[y][o].at # s.teams[z][p].at
      <4>1. \A y, z \in DOMAIN s.teams : y # z => \A o \in DOMAIN s.teams[y], p \in DOMAIN s.teams[z] :
               s.teams[y][o].at # s.teams[z][p].at
        BY <2>1, Zenon DEF Clear
      <4>2. DOMAIN s.teams = 1 .. k
        BY <1>3
      <4> QED
        BY <4>1, <4>2, Zenon
    <3>1. CASE i \in 1 .. k /\ j \in 1 .. k
      <4>1. r.teams[i] = s.teams[i] /\ r.teams[j] = s.teams[j]
        BY <1>3, <3>1
      <4>2. m \in DOMAIN s.teams[i] /\ n \in DOMAIN s.teams[j]
        BY <4>1
      <4>3. s.teams[i][m].at # s.teams[j][n].at
        BY <2>3, <3>1, <3>5, <4>2
      <4> QED
        BY <4>1, <4>3
    <3>2. CASE i \in 1 .. k /\ j = k + 1
      <4>1. r.teams[i] = s.teams[i] /\ r.teams[j] = team
        BY <1>3, <3>2
      <4>2. m \in DOMAIN s.teams[i] /\ n \in DOMAIN team
        BY <4>1
      <4>3. s.teams[i][m].at \in s.blocked /\ team[n].at \notin s.blocked
        BY <2>1, <3>2, <3>4, <4>2
      <4> QED
        BY <4>1, <4>3
    <3>3. CASE j \in 1 .. k /\ i = k + 1
      <4>1. r.teams[j] = s.teams[j] /\ r.teams[i] = team
        BY <1>3, <3>3
      <4>2. n \in DOMAIN s.teams[j] /\ m \in DOMAIN team
        BY <4>1
      <4>3. s.teams[j][n].at \in s.blocked /\ team[m].at \notin s.blocked
        BY <2>1, <3>3, <3>4, <4>2
      <4> QED
        BY <4>1, <4>3
    <3> QED
      BY <1>4, <2>3, <3>1, <3>2, <3>3
  <2> QED
    BY <1>3, <2>2, <2>3 DEF Clear
<1> QED
  BY <1>3, <1>5, <1>6 DEF FilledTo, r

\* All teams are placed, and apart, unless the search failed.
LEMMA PlacedFills ==
  ASSUME NEW g \in Game
  PROVE  Placed(g) \in Filling /\ FilledTo(g, Placed(g), Cardinality(TeamsOf(g)))
<1> DEFINE N == Cardinality(TeamsOf(g))
<1>1. N \in Nat /\ TeamsOf(g) = 0 .. N - 1
  BY GameTeams
<1>2. PICK f \in [0 .. N -> Filling] :
        /\ f[0] = NobodyYet
        /\ \A k \in 1 .. N : f[k] = PlaceTeam(g, f[k - 1], k - 1)
        /\ Placed(g) = f[N]
  BY PlacedLoop
<1> HIDE DEF N
<1> DEFINE P == {k \in Nat : k <= N => FilledTo(g, f[k], k)}
<1>3. 0 \in P
  BY <1>2 DEF FilledTo, Clear, NobodyYet
<1>4. ASSUME NEW k \in Nat, k \in P
      PROVE  k + 1 \in P
  <2> SUFFICES ASSUME k + 1 <= N PROVE FilledTo(g, f[k + 1], k + 1)
    OBVIOUS
  <2>1. k \in 0 .. N /\ k + 1 \in 1 .. N /\ k + 1 - 1 = k /\ k <= N /\ k \in 0 .. N - 1
    BY <1>1
  <2>2. f[k] \in Filling /\ f[k + 1] = PlaceTeam(g, f[k], k) /\ FilledTo(g, f[k], k)
    BY <1>2, <1>4, <2>1
  <2> HIDE DEF P
  <2> QED
    BY <1>1, <2>1, <2>2, PlaceTeamFills
<1>5. N \in P
  <2> HIDE DEF P
  <2> QED
    BY <1>1, <1>3, <1>4, NatInduct
<1>6. N \in 0 .. N /\ N <= N
  BY <1>1
<1> QED
  BY <1>2, <1>5, <1>6 DEF N

\* No two players on one tile, and nobody can step on theirs.
Neat(g) == Clear(g.blocked, g.teams)

GameFields == {"owner", "state", "teams", "viewers", "blocked", "tiles", "scores", "left", "phase"}

\* start_game keeps players, time and owner, and sets everybody apart.
LEMMA StartGameIs ==
  ASSUME NEW g \in Game
  PROVE  /\ StartGame(g) \in Game /\ StartGame(g).state = "Started"
         /\ StartGame(g).owner = g.owner /\ StartGame(g).left = g.left
         /\ StartGame(g).viewers = g.viewers
         /\ TeamsOf(StartGame(g)) = TeamsOf(g)
         /\ \A t \in TeamsOf(g) : SamePlayers(g.teams[t], StartGame(g).teams[t])
         /\ StartGame(g).scores = [t \in TeamsOf(g) |-> 0]
         /\ ~Placed(g).full => Neat(StartGame(g))
<1> DEFINE p == Placed(g)
           N == Cardinality(TeamsOf(g))
           Z == [t \in TeamsOf(g) |-> 0]
           L == [x \in Arena |-> [team |-> NoTeam, level |-> IF x \in Wall THEN 4 ELSE 0]]
           M == [t \in TeamsOf(g) |-> p.teams[t + 1]]
           h == StartGame(g)
<1>1. p \in Filling /\ FilledTo(g, p, N) /\ N \in Nat
  BY PlacedFills, GameTeams
<1>2. p.blocked \in SUBSET Arena /\ p.teams \in Seq(Seq(Player)) /\ Len(p.teams) = N
  BY <1>1 DEF Filling, FilledTo
<1>3. TeamsOf(g) = 0 .. N - 1
  BY GameTeams
<1>4. h = [g EXCEPT !.state = "Started", !.phase = FALSE, !.scores = Z, !.tiles = L,
                    !.blocked = p.blocked, !.teams = M]
  BY DEF StartGame
<1> HIDE DEF p, N
<1>5. \A t \in TeamsOf(g) : t + 1 \in 1 .. N /\ t + 1 - 1 = t
  BY <1>1, <1>3
<1>6. M \in [TeamsOf(g) -> Seq(Player)] /\ DOMAIN M = TeamsOf(g)
      /\ \A t \in TeamsOf(g) : M[t] = p.teams[t + 1]
  BY <1>2, <1>5
<1>7. Z \in [TeamsOf(g) -> Nat]
  OBVIOUS
<1>8. M \in TeamTable(Seq(Player)) /\ Z \in TeamTable(Nat)
  <2>1. PICK n \in TeamAmounts : TeamsOf(g) = 0 .. n - 1
    BY GameTeams
  <2> HIDE DEF M, Z
  <2> QED
    BY <1>6, <1>7, <2>1 DEF TeamTable
<1>9. L \in Tiles
  BY DEF Tiles, NoTeam
<1> HIDE DEF M, Z, L, h
<1>10. DOMAIN g = GameFields
  BY DEF Game, GameFields
<1>11. [g EXCEPT !.state = "Started", !.phase = FALSE, !.scores = Z, !.tiles = L,
                 !.blocked = p.blocked, !.teams = M]
         \in [owner : {g.owner}, state : {"Started"}, teams : {M}, viewers : {g.viewers},
             blocked : {p.blocked}, tiles : {L}, scores : {Z}, left : {g.left}, phase : {FALSE}]
  BY <1>10 DEF GameFields
<1>12. h \in [owner : {g.owner}, state : {"Started"}, teams : {M}, viewers : {g.viewers},
             blocked : {p.blocked}, tiles : {L}, scores : {Z}, left : {g.left}, phase : {FALSE}]
  BY <1>4, <1>11
<1>13. h \in Game
  BY <1>2, <1>8, <1>9, <1>12, GameParts DEF Game, TeamTable, Tiles
<1>14. h.teams = M /\ h.blocked = p.blocked /\ h.scores = Z /\ TeamsOf(h) = TeamsOf(g)
  BY <1>6, <1>12 DEF TeamsOf
<1>15. \A t \in TeamsOf(g) : SamePlayers(g.teams[t], h.teams[t])
  <2> TAKE t \in TeamsOf(g)
  <2>2. \A i \in 1 .. N : SamePlayers(g.teams[i - 1], p.teams[i])
    BY <1>1 DEF FilledTo
  <2>3. PICK i \in 1 .. N : i = t + 1 /\ i - 1 = t
    <3>1. t \in 0 .. N - 1
      BY <1>3
    <3>2. t + 1 \in 1 .. N /\ t + 1 - 1 = t
      BY <1>1, <3>1
    <3> DEFINE i == t + 1
    <3>3. i \in 1 .. N /\ i = t + 1 /\ i - 1 = t
      BY <1>1, <3>1
    <3> HIDE DEF i
    <3> QED
      BY <3>3
  <2>1. SamePlayers(g.teams[t], p.teams[t + 1])
    BY <2>2, <2>3, Zenon
  <2> QED
    BY <1>6, <1>14, <2>1
<1>16. ASSUME ~p.full
       PROVE  Neat(h)
  <2>1. Clear(p.blocked, p.teams) /\ DOMAIN p.teams = 1 .. N
    BY <1>1, <1>2, <1>16 DEF FilledTo
  <2>2. ASSUME NEW i \in TeamsOf(g)
        PROVE  Apart(M[i]) /\ \A m \in DOMAIN M[i] : M[i][m].at \in p.blocked
    BY <1>5, <1>6, <2>1 DEF Clear
  <2>3. ASSUME NEW i \in TeamsOf(g), NEW j \in TeamsOf(g), i # j
        PROVE  \A m \in DOMAIN M[i], n \in DOMAIN M[j] : M[i][m].at # M[j][n].at
    <3>1. i + 1 \in DOMAIN p.teams /\ j + 1 \in DOMAIN p.teams /\ i + 1 # j + 1
      BY <1>3, <1>5, <2>1, <2>3
    <3>2. \A m \in DOMAIN p.teams[i + 1], n \in DOMAIN p.teams[j + 1] :
             p.teams[i + 1][m].at # p.teams[j + 1][n].at
      BY <2>1, <3>1, Zenon DEF Clear
    <3> QED
      BY <1>6, <3>2, Zenon
  <2>4. Clear(p.blocked, M)
    BY <1>6, <2>2, <2>3 DEF Clear
  <2> QED
    BY <1>14, <2>4 DEF Neat
<1> QED
  BY <1>12, <1>13, <1>14, <1>15, <1>16 DEF h, Z, p

\* Moving everybody once keeps who plays where.
LEMMA MovedKeeps ==
  ASSUME NEW g \in Game
  PROVE  Moved(g) \in Game /\ SameRound(g, Moved(g)) /\ SameSeats(g, Moved(g))
<1> DEFINE X == {h \in Game : SameRound(g, h) /\ SameSeats(g, h)}
<1>1. g \in X
  BY DEF SameRound, SameSeats
<1>2. \A h \in X : h \in Game /\ SameSeats(g, h)
  OBVIOUS
<1>3. ASSUME NEW h \in X, NEW t \in TeamsOf(h), NEW i \in DOMAIN h.teams[t]
      PROVE  Step(h, t, i) \in X
  <2>1. PICK e \in Nat : GoesOn(h, Step(h, t, i), t, i, e)
    BY StepGoesOn
  <2>2. Step(h, t, i) \in Game /\ SameRound(h, Step(h, t, i)) /\ SameSeats(h, Step(h, t, i))
    BY <2>1 DEF GoesOn
  <2> QED
    BY <2>2 DEF SameRound, SameSeats
<1> HIDE DEF X
<1>4. Moved(g) \in X
  BY <1>1, <1>2, <1>3, MovedIn
<1> QED
  BY <1>4 DEF X

\* A tick of a game that runs moves everybody and lets time pass; any other does nothing.
LEMMA TickIs ==
  ASSUME NEW g \in Game
  PROVE  /\ g.state # "Started" => Tick(g) = g
         /\ g.state = "Started" =>
              Tick(g) \in [owner : {g.owner}, state : {g.state}, teams : {Moved(g).teams},
                           viewers : {Moved(g).viewers}, blocked : {Moved(g).blocked},
                           tiles : {Moved(g).tiles}, scores : {Moved(g).scores},
                           left : {IF g.phase THEN g.left - 1 ELSE g.left},
                           phase : {~g.phase}]
<1> DEFINE m == Moved(g)
<1>1. Tick(g) = IF g.state # "Started" THEN g
                ELSE [m EXCEPT !.left = IF g.phase THEN @ - 1 ELSE @, !.phase = ~@]
  BY DEF Tick, Moved
<1>2. m \in Game /\ m.left = g.left /\ m.phase = g.phase /\ m.state = g.state /\ m.owner = g.owner
  BY MovedKeeps DEF SameRound
<1> HIDE DEF m
<1>3. DOMAIN m = GameFields
  BY <1>2 DEF Game, GameFields
<1> DEFINE x == IF g.phase THEN m.left - 1 ELSE m.left
           y == ~m.phase
<1>4. [m EXCEPT !.left = IF g.phase THEN @ - 1 ELSE @, !.phase = ~@]
        = [m EXCEPT !.left = x, !.phase = y]
  OBVIOUS
<1>5. x = (IF g.phase THEN g.left - 1 ELSE g.left) /\ y = ~g.phase
  BY <1>2
<1> HIDE DEF x, y
<1>6. [m EXCEPT !.left = x, !.phase = y]
        \in [owner : {m.owner}, state : {m.state}, teams : {m.teams}, viewers : {m.viewers},
            blocked : {m.blocked}, tiles : {m.tiles}, scores : {m.scores}, left : {x},
            phase : {y}]
  BY <1>3 DEF GameFields
<1> QED
  BY <1>1, <1>2, <1>4, <1>5, <1>6 DEF m

-----------------------------------------------------------------------------
(* Tables                                                                  *)

Tables(X) == UNION {[S -> X] : S \in SUBSET Id}

\* A table of the lobby: some of the ids, each with a game.
LEMMA TableIs ==
  ASSUME NEW X, NEW G
  PROVE  G \in Tables(X) <=> DOMAIN G \subseteq Id /\ G \in [DOMAIN G -> X]
  BY DEF Tables

\* Changing, adding or removing a game makes a table of a table.
LEMMA TableChange ==
  ASSUME NEW X, NEW G \in Tables(X)
  PROVE  /\ \A i \in DOMAIN G : G[i] \in X
         /\ \A i \in Id, g \in X : [G EXCEPT ![i] = g] \in Tables(X)
         /\ \A i \in Id, g \in X : With(G, i, g) \in Tables(X)
         /\ \A i : Less(G, i) \in Tables(X)
         /\ NoGames \in Tables(X)
<1>1. DOMAIN G \subseteq Id /\ G \in [DOMAIN G -> X]
  BY TableIs
<1>2. \A i \in Id, g \in X : [G EXCEPT ![i] = g] \in Tables(X)
  <2> TAKE i \in Id, g \in X
  <2>1. [G EXCEPT ![i] = g] \in [DOMAIN G -> X]
    BY <1>1
  <2> QED
    BY <1>1, <2>1 DEF Tables
<1>3. \A i \in Id, g \in X : With(G, i, g) \in Tables(X)
  <2> TAKE i \in Id, g \in X
  <2>1. With(G, i, g) \in [DOMAIN G \cup {i} -> X]
    BY <1>1 DEF With
  <2>2. DOMAIN G \cup {i} \in SUBSET Id
    BY <1>1
  <2> QED
    BY <2>1, <2>2 DEF Tables
<1>4. \A i : Less(G, i) \in Tables(X)
  <2> TAKE i
  <2>1. Less(G, i) \in [DOMAIN G \ {i} -> X]
    BY <1>1 DEF Less
  <2>2. DOMAIN G \ {i} \in SUBSET Id
    BY <1>1
  <2> QED
    BY <2>1, <2>2 DEF Tables
<1>5. NoGames \in Tables(X)
  <2>1. NoGames \in [{} -> X]
    BY DEF NoGames
  <2> QED
    BY <2>1 DEF Tables
<1> QED
  BY <1>1, <1>2, <1>3, <1>4, <1>5

\* What the handlers make of a game.
Viewed(g, V) == [g EXCEPT !.viewers = V]
Joined(g, u, t) ==
  [g EXCEPT !.viewers = @ \ {u}, !.teams[t] = Append(@, GamePlayer(u))]
Aimed(g, u, goal) ==
  [g EXCEPT !.teams = [t \in DOMAIN @ |-> Aim(@[t], u, goal)]]
Over(g) == [Tick(g) EXCEPT !.state = "Ended"]

Closed(X) ==
  /\ \A g \in X, V \in SUBSET User : Viewed(g, V) \in X
  /\ \A u \in User, n \in TeamAmounts : NewGame(u, n) \in X
  /\ \A g \in X, u \in User : \A t \in TeamsOf(g) :
       g.state = "Waiting" => Joined(g, u, t) \in X
  /\ \A g \in X, u \in User, s \in Team : \A t \in TeamsOf(g) :
       g.state = "Waiting" => MoveTo(g, u, s, t) \in X
  /\ \A g \in X, u \in User : \A t \in TeamsOf(g) : MoveOut(g, u, t) \in X
  /\ \A g \in X, u \in User, goal \in Goal :
       g.state = "Started" => Aimed(g, u, goal) \in X
  /\ \A g \in X : Tick(g).left > 0 => Tick(g) \in X
  /\ \A g \in X : Tick(g).left = 0 => Tick(g) \in X /\ Over(g) \in X

\* Other viewers leave the game as it is.
LEMMA ViewedIs ==
  ASSUME NEW g \in Game, NEW V \in SUBSET User
  PROVE  /\ Viewed(g, V) \in Game /\ SameRound(g, Viewed(g, V))
         /\ Viewed(g, V).teams = g.teams /\ Viewed(g, V).blocked = g.blocked
         /\ Viewed(g, V).scores = g.scores /\ Viewed(g, V).viewers = V
<1>1. DOMAIN g = GameFields
  BY DEF Game, GameFields
<1>2. [g EXCEPT !.viewers = V]
        \in [owner : {g.owner}, state : {g.state}, teams : {g.teams}, viewers : {V},
            blocked : {g.blocked}, tiles : {g.tiles}, scores : {g.scores}, left : {g.left},
            phase : {g.phase}]
  BY <1>1 DEF GameFields
<1>3. Viewed(g, V) \in Game
  BY <1>2, GameParts DEF Game, TeamTable, Viewed
<1> QED
  BY <1>2, <1>3 DEF SameRound, Viewed

\* A new game waits, with its owner as the only player.
LEMMA NewGameIs ==
  ASSUME NEW u \in User, NEW n \in TeamAmounts
  PROVE  /\ NewGame(u, n) \in Game /\ NewGame(u, n).state = "Waiting"
         /\ NewGame(u, n).owner = u /\ TeamsOf(NewGame(u, n)) = 0 .. n - 1 /\ n \in 1 .. 4
         /\ NewGame(u, n).teams[0] = <<GamePlayer(u)>>
         /\ \A t \in 1 .. n - 1 : NewGame(u, n).teams[t] = <<>>
         /\ NewGame(u, n).scores = [t \in 0 .. n - 1 |-> 0]
<1> DEFINE M == [t \in 0 .. n - 1 |-> IF t = 0 THEN <<GamePlayer(u)>> ELSE <<>>]
           L == [p \in Arena |-> [team |-> NoTeam, level |-> 4]]
           Z == [t \in 0 .. n - 1 |-> 0]
<1>1. M \in [0 .. n - 1 -> Seq(Player)]
  <2>1. <<GamePlayer(u)>> \in Seq(Player) /\ <<>> \in Seq(Player)
    BY GamePlayerTyped
  <2> QED
    BY <2>1
<1>2. L \in Tiles /\ Z \in [0 .. n - 1 -> Nat]
  BY DEF Tiles
<1>3. n \in 1 .. 4 /\ 0 \in 0 .. n - 1 /\ 1 .. n - 1 \subseteq 0 .. n - 1
  BY GamesAssumption
<1>4. M[0] = <<GamePlayer(u)>> /\ \A t \in 1 .. n - 1 : M[t] = <<>>
  BY <1>3
<1>5. NewGame(u, n) = [owner |-> u, state |-> "Waiting", teams |-> M, viewers |-> {}, blocked |-> {},
                       tiles |-> L, scores |-> Z, left |-> Length, phase |-> FALSE]
  BY DEF NewGame
<1>6. Length \in Nat
  BY GamesAssumption
<1> HIDE DEF M, L, Z
<1>7. M \in TeamTable(Seq(Player)) /\ Z \in TeamTable(Nat) /\ DOMAIN M = 0 .. n - 1
  BY <1>1, <1>2 DEF TeamTable
<1>8. NewGame(u, n) \in Game
  BY <1>2, <1>5, <1>6, <1>7 DEF Game, TeamTable, Tiles
<1> QED
  BY <1>3, <1>4, <1>5, <1>7, <1>8 DEF TeamsOf, Z

\* Joining appends a player to the team and changes nothing else.
LEMMA JoinedIs ==
  ASSUME NEW g \in Game, NEW u \in User, NEW t \in TeamsOf(g)
  PROVE  /\ Joined(g, u, t) \in Game /\ SameRound(g, Joined(g, u, t))
         /\ Joined(g, u, t).teams = [g.teams EXCEPT ![t] = Append(@, GamePlayer(u))]
         /\ Joined(g, u, t).blocked = g.blocked /\ Joined(g, u, t).scores = g.scores
         /\ TeamsOf(Joined(g, u, t)) = TeamsOf(g)
<1> DEFINE M == [g.teams EXCEPT ![t] = Append(@, GamePlayer(u))]
           V == g.viewers \ {u}
<1>1. g.teams \in [TeamsOf(g) -> Seq(Player)] /\ g.viewers \in SUBSET User
  BY GameTeams, GameParts
<1>2. Append(g.teams[t], GamePlayer(u)) \in Seq(Player)
  BY <1>1, GamePlayerTyped
<1>3. M \in [TeamsOf(g) -> Seq(Player)] /\ DOMAIN M = TeamsOf(g)
  BY <1>1, <1>2
<1>4. Joined(g, u, t) = [g EXCEPT !.viewers = V, !.teams = M]
  BY DEF Joined
<1>5. V \in SUBSET User
  BY <1>1
<1> HIDE DEF M, V
<1>6. M \in TeamTable(Seq(Player))
  BY <1>3, GameTeams DEF TeamTable
<1>7. DOMAIN g = GameFields
  BY DEF Game, GameFields
<1>8. [g EXCEPT !.viewers = V, !.teams = M]
        \in [owner : {g.owner}, state : {g.state}, teams : {M}, viewers : {V},
            blocked : {g.blocked}, tiles : {g.tiles}, scores : {g.scores}, left : {g.left},
            phase : {g.phase}]
  BY <1>7 DEF GameFields
<1>9. Joined(g, u, t) \in Game
  BY <1>4, <1>5, <1>6, <1>8, GameParts DEF Game, TeamTable
<1>10. Joined(g, u, t).teams = M
  BY <1>4, <1>8
<1> QED
  BY <1>3, <1>4, <1>8, <1>9, <1>10 DEF SameRound, TeamsOf, M

\* A goal changes no user, no tile and no points.
LEMMA AimTyped ==
  ASSUME NEW team \in Seq(Player), NEW u, NEW goal \in Tile
  PROVE  /\ Aim(team, u, goal) \in Seq(Player) /\ DOMAIN Aim(team, u, goal) = DOMAIN team
         /\ \A m \in DOMAIN team : /\ Aim(team, u, goal)[m].user = team[m].user
                                   /\ Aim(team, u, goal)[m].at = team[m].at
                                   /\ Aim(team, u, goal)[m].score = team[m].score
                                   /\ Aim(team, u, goal)[m].uid = team[m].uid
<1> DEFINE S == {m \in DOMAIN team : team[m].user = u}
           n == Min(S)
           q == [team[n] EXCEPT !.goal = goal]
<1>1. CASE ~Plays(team, u)
  <2>1. Aim(team, u, goal) = team
    BY <1>1 DEF Aim
  <2> QED
    BY <2>1
<1>2. CASE Plays(team, u)
  <2>1. S # {} /\ S \in SUBSET Nat
    BY <1>2 DEF Plays
  <2>2. n \in DOMAIN team
    <3> HIDE DEF S
    <3>1. n \in S
      BY <2>1, MinIn
    <3> QED
      BY <3>1 DEF S
  <2>3. Aim(team, u, goal) = [team EXCEPT ![n].goal = goal]
    BY <1>2 DEF Aim
  <2> HIDE DEF n
  <2>4. team[n] \in Player
    BY <2>2
  <2>5. q \in Player /\ q.user = team[n].user /\ q.at = team[n].at /\ q.score = team[n].score
        /\ q.uid = team[n].uid
    <3> DEFINE p == team[n]
    <3>1. p \in Player
      BY <2>4
    <3> HIDE DEF p
    <3>2. [p EXCEPT !.goal = goal] \in Player /\ [p EXCEPT !.goal = goal].user = p.user
          /\ [p EXCEPT !.goal = goal].at = p.at /\ [p EXCEPT !.goal = goal].score = p.score
          /\ [p EXCEPT !.goal = goal].uid = p.uid
      BY <3>1 DEF Player
    <3> QED
      BY <3>2 DEF p
  <2>6. Aim(team, u, goal) = [team EXCEPT ![n] = q]
    BY <2>3
  <2> HIDE DEF q
  <2>7. [team EXCEPT ![n] = q] \in Seq(Player)
    <3>1. \A r \in Seq(Player) : \A k \in DOMAIN r, p \in Player : [r EXCEPT ![k] = p] \in Seq(Player)
      OBVIOUS
    <3> QED
      BY <2>2, <2>5, <3>1
  <2>8. \A m \in DOMAIN team : [team EXCEPT ![n] = q][m] = IF m = n THEN q ELSE team[m]
    OBVIOUS
  <2> QED
    BY <2>2, <2>5, <2>6, <2>7, <2>8
<1> QED
  BY <1>1, <1>2

\* Setting a goal changes nothing but goals.
LEMMA AimedIs ==
  ASSUME NEW g \in Game, NEW u \in User, NEW goal \in Tile
  PROVE  /\ Aimed(g, u, goal) \in Game /\ SameRound(g, Aimed(g, u, goal))
         /\ Aimed(g, u, goal).teams = [t \in TeamsOf(g) |-> Aim(g.teams[t], u, goal)]
         /\ Aimed(g, u, goal).blocked = g.blocked /\ Aimed(g, u, goal).scores = g.scores
         /\ TeamsOf(Aimed(g, u, goal)) = TeamsOf(g)
<1> DEFINE M == [t \in TeamsOf(g) |-> Aim(g.teams[t], u, goal)]
<1>1. Aimed(g, u, goal) = [g EXCEPT !.teams = M]
  BY DEF Aimed, TeamsOf
<1>2. M \in [TeamsOf(g) -> Seq(Player)] /\ DOMAIN M = TeamsOf(g)
  BY AimTyped, GameTeams
<1> HIDE DEF M
<1>3. /\ [g EXCEPT !.teams = M] \in Game /\ [g EXCEPT !.teams = M].teams = M
      /\ SameRound(g, [g EXCEPT !.teams = M])
      /\ [g EXCEPT !.teams = M].blocked = g.blocked
      /\ [g EXCEPT !.teams = M].scores = g.scores
      /\ TeamsOf([g EXCEPT !.teams = M]) = TeamsOf(g)
  BY <1>2, TeamsChange DEF SameRound
<1> QED
  BY <1>1, <1>3 DEF M

\* A tick, and the end of a game, make a game while there is time left.
LEMMA TickTyped ==
  ASSUME NEW g \in Game
  PROVE  /\ Tick(g).left \in Int
         /\ Tick(g).left >= 0 => Tick(g) \in Game /\ Over(g) \in Game
         /\ Tick(g).state = g.state /\ Tick(g).owner = g.owner
         /\ Tick(g).teams = IF g.state = "Started" THEN Moved(g).teams ELSE g.teams
         /\ Tick(g).blocked = IF g.state = "Started" THEN Moved(g).blocked ELSE g.blocked
         /\ Tick(g).scores = IF g.state = "Started" THEN Moved(g).scores ELSE g.scores
         /\ Over(g).state = "Ended" /\ Over(g).owner = g.owner /\ Over(g).left = Tick(g).left
         /\ Over(g).teams = Tick(g).teams /\ Over(g).blocked = Tick(g).blocked
         /\ Over(g).scores = Tick(g).scores
<1> DEFINE k == Tick(g)
           m == Moved(g)
           x == IF g.phase THEN g.left - 1 ELSE g.left
<1>1. g.left \in Nat /\ g.phase \in BOOLEAN /\ x \in Int
  BY GameParts
<1>2. m \in Game
  BY MovedKeeps
<1>3. g.state = "Started" =>
        k \in [owner : {g.owner}, state : {g.state}, teams : {m.teams}, viewers : {m.viewers},
               blocked : {m.blocked}, tiles : {m.tiles}, scores : {m.scores}, left : {x},
               phase : {~g.phase}]
  BY TickIs
<1>4. g.state # "Started" => k = g
  BY TickIs
<1> HIDE DEF k, m, x
<1>5. /\ k.left \in Int /\ k.state = g.state /\ k.owner = g.owner
      /\ k.teams = IF g.state = "Started" THEN m.teams ELSE g.teams
      /\ k.blocked = IF g.state = "Started" THEN m.blocked ELSE g.blocked
      /\ k.scores = IF g.state = "Started" THEN m.scores ELSE g.scores
      /\ DOMAIN k = GameFields
  <2>1. CASE g.state = "Started"
    BY <1>1, <1>3, <2>1 DEF GameFields
  <2>2. CASE g.state # "Started"
    <3>1. DOMAIN g = GameFields
      BY DEF Game, GameFields
    <3> QED
      BY <1>1, <1>4, <2>2, <3>1
  <2> QED
    BY <2>1, <2>2
<1>6. k.left >= 0 => k \in Game
  <2>1. CASE g.state = "Started"
    <3> SUFFICES ASSUME k.left >= 0 PROVE k \in Game
      OBVIOUS
    <3>1. k.left = x
      BY <1>3, <2>1
    <3>2. x \in Nat
      BY <1>1, <3>1
    <3>3. (~g.phase) \in BOOLEAN
      OBVIOUS
    <3> DEFINE y == ~g.phase
    <3> HIDE DEF y
    <3>4. y \in BOOLEAN
      BY <3>3 DEF y
    <3>5. k \in [owner : {g.owner}, state : {g.state}, teams : {m.teams}, viewers : {m.viewers},
               blocked : {m.blocked}, tiles : {m.tiles}, scores : {m.scores}, left : {x},
               phase : {y}]
      BY <1>3, <2>1 DEF y
    <3>6. m.teams \in TeamTable(Seq(Player)) /\ m.viewers \in SUBSET User
          /\ m.blocked \in SUBSET Arena /\ m.tiles \in Tiles /\ m.scores \in TeamTable(Nat)
      BY <1>2, GameParts DEF Tiles
    <3>7. g.owner \in User /\ g.state \in {"Waiting", "Started", "Ended"}
      BY GameParts
    <3> QED
      BY <3>2, <3>4, <3>5, <3>6, <3>7 DEF Game, TeamTable, Tiles
  <2>2. CASE g.state # "Started"
    BY <1>4, <2>2
  <2> QED
    BY <2>1, <2>2
<1>7. [k EXCEPT !.state = "Ended"]
        \in [owner : {k.owner}, state : {"Ended"}, teams : {k.teams}, viewers : {k.viewers},
            blocked : {k.blocked}, tiles : {k.tiles}, scores : {k.scores}, left : {k.left},
            phase : {k.phase}]
  BY <1>5 DEF GameFields
<1>8. Over(g) = [k EXCEPT !.state = "Ended"]
  BY DEF Over, k
<1>9. k \in Game => Over(g) \in Game
  BY <1>7, <1>8, GameParts DEF Game, TeamTable
<1> QED
  BY <1>5, <1>6, <1>7, <1>8, <1>9 DEF k, m

Task == [pc : {"ready", "save", "spawn"}, copy : Tables(Game), read : Tables(Game),
         then : Session, start : Id \cup {NoGame}]
Cycle == [pc : {"off", "begin", "count", "tick", "last", "take", "save"},
          then : {"off", "count", "tick", "last"}, steps : 0 .. Countdown,
          copy : Tables(Game), read : Tables(Game)]
Typed ==
  /\ games \in Tables(Game) /\ sess \in [User -> Session]
  /\ task \in [User -> Task] /\ cycle \in [Id -> Cycle]
  /\ starts \in 0 .. MaxStarts /\ loose \subseteq User
  /\ raced \in BOOLEAN /\ gone \in BOOLEAN /\ restarted \in BOOLEAN /\ reused \in BOOLEAN
  /\ missed \in BOOLEAN /\ failed \in BOOLEAN /\ stacked \in BOOLEAN

\* Every game there is, or is on its way to the table.
All(X) ==
  /\ games \in Tables(X)
  /\ \A u \in User : task[u].copy \in Tables(X)
  /\ \A i \in Id : cycle[i].copy \in Tables(X)

\* What handlers and cycles make of a game is a game.
LEMMA GameClosed == Closed(Game)
<1>1. \A g \in Game, V \in SUBSET User : Viewed(g, V) \in Game
  BY ViewedIs
<1>2. \A u \in User, n \in TeamAmounts : NewGame(u, n) \in Game
  BY NewGameIs
<1>3. \A g \in Game, u \in User : \A t \in TeamsOf(g) : Joined(g, u, t) \in Game
  BY JoinedIs
<1>4. \A g \in Game, u \in User, s \in Team : \A t \in TeamsOf(g) : MoveTo(g, u, s, t) \in Game
  BY MoveTyped
<1>5. \A g \in Game, u \in User : \A t \in TeamsOf(g) : MoveOut(g, u, t) \in Game
  BY MoveTyped
<1>6. \A g \in Game, u \in User, goal \in Goal : Aimed(g, u, goal) \in Game
  BY AimedIs, GamesAssumption
<1>7. \A g \in Game : Tick(g).left > 0 => Tick(g) \in Game
  BY TickTyped
<1>8. \A g \in Game : Tick(g).left = 0 => Tick(g) \in Game /\ Over(g) \in Game
  BY TickTyped
<1> QED
  BY <1>1, <1>2, <1>3, <1>4, <1>5, <1>6, <1>7, <1>8 DEF Closed

\* The player found by number is in the team it is found in.
LEMMA FirstIs ==
  ASSUME NEW g \in Game, NEW uid,
         \E t \in TeamsOf(g) : \E n \in DOMAIN g.teams[t] : g.teams[t][n].uid = uid
  PROVE  /\ First(g, uid).team \in TeamsOf(g) /\ First(g, uid).user \in User
         /\ Plays(g.teams[First(g, uid).team], First(g, uid).user)
<1> DEFINE S == {t \in TeamsOf(g) : \E n \in DOMAIN g.teams[t] : g.teams[t][n].uid = uid}
           s == Min(S)
           M == {n \in DOMAIN g.teams[s] : g.teams[s][n].uid = uid}
           m == Min(M)
<1>1. First(g, uid) = [team |-> s, user |-> g.teams[s][m].user]
  BY DEF First
<1>2. S # {} /\ S \in SUBSET Nat
  BY GameTeams DEF Team
<1>3. s \in S
  <2> HIDE DEF S
  <2> QED
    BY <1>2, MinIn
<1>4. s \in TeamsOf(g) /\ \E n \in DOMAIN g.teams[s] : g.teams[s][n].uid = uid
  BY <1>3
<1> HIDE DEF s
<1>5. g.teams[s] \in Seq(Player)
  BY <1>4, GameTeams
<1>6. M # {} /\ M \in SUBSET Nat
  BY <1>4, <1>5
<1>7. m \in M
  <2> HIDE DEF M
  <2> QED
    BY <1>6, MinIn
<1>8. m \in DOMAIN g.teams[s]
  BY <1>7
<1> HIDE DEF m
<1>9. g.teams[s][m].user \in User
  BY <1>5, <1>8, PlayerParts
<1> QED
  BY <1>1, <1>4, <1>8, <1>9 DEF Plays

\* Types of what the state is made of, one by one.
LEMMA TypedParts ==
  Typed => /\ games \in Tables(Game) /\ DOMAIN games \subseteq Id
           /\ \A i \in DOMAIN games : games[i] \in Game
           /\ \A u \in User : /\ sess[u] \in Session /\ sess[u].here \in BOOLEAN
                              /\ sess[u].game \in Id \cup {NoGame}
                              /\ sess[u].team \in Team \cup {NoTeam}
                              /\ task[u] \in Task /\ task[u].start \in Id \cup {NoGame}
                              /\ task[u].then \in Session
                              /\ task[u].pc \in {"ready", "save", "spawn"}
                              /\ task[u].copy \in Tables(Game) /\ task[u].read \in Tables(Game)
           /\ \A i \in Id : /\ cycle[i] \in Cycle /\ cycle[i].steps \in 0 .. Countdown
                            /\ cycle[i].then \in {"off", "count", "tick", "last"}
                            /\ cycle[i].pc \in {"off", "begin", "count", "tick", "last", "take", "save"}
                            /\ cycle[i].copy \in Tables(Game) /\ cycle[i].read \in Tables(Game)
<1> SUFFICES ASSUME Typed PROVE
           /\ games \in Tables(Game) /\ DOMAIN games \subseteq Id
           /\ \A i \in DOMAIN games : games[i] \in Game
           /\ \A u \in User : /\ sess[u] \in Session /\ sess[u].here \in BOOLEAN
                              /\ sess[u].game \in Id \cup {NoGame}
                              /\ sess[u].team \in Team \cup {NoTeam}
                              /\ task[u] \in Task /\ task[u].start \in Id \cup {NoGame}
                              /\ task[u].then \in Session
                              /\ task[u].pc \in {"ready", "save", "spawn"}
                              /\ task[u].copy \in Tables(Game) /\ task[u].read \in Tables(Game)
           /\ \A i \in Id : /\ cycle[i] \in Cycle /\ cycle[i].steps \in 0 .. Countdown
                            /\ cycle[i].then \in {"off", "count", "tick", "last"}
                            /\ cycle[i].pc \in {"off", "begin", "count", "tick", "last", "take", "save"}
                            /\ cycle[i].copy \in Tables(Game) /\ cycle[i].read \in Tables(Game)
  OBVIOUS
<1>1. games \in Tables(Game) /\ sess \in [User -> Session]
      /\ task \in [User -> Task] /\ cycle \in [Id -> Cycle]
  BY DEF Typed
<1>2. DOMAIN games \subseteq Id /\ \A i \in DOMAIN games : games[i] \in Game
  BY <1>1, TableIs, TableChange
<1>3. \A s \in Session : s.here \in BOOLEAN /\ s.game \in Id \cup {NoGame} /\ s.team \in Team \cup {NoTeam}
  BY DEF Session
<1>4. \A k \in Task : /\ k.start \in Id \cup {NoGame} /\ k.then \in Session
                      /\ k.pc \in {"ready", "save", "spawn"}
                      /\ k.copy \in Tables(Game) /\ k.read \in Tables(Game)
  BY DEF Task
<1>5. \A c \in Cycle : /\ c.steps \in 0 .. Countdown
                       /\ c.then \in {"off", "count", "tick", "last"}
                       /\ c.pc \in {"off", "begin", "count", "tick", "last", "take", "save"}
                       /\ c.copy \in Tables(Game) /\ c.read \in Tables(Game)
  BY DEF Cycle
<1> QED
  BY <1>1, <1>2, <1>3, <1>4, <1>5

\* What a handler has on its way after it read the copy.
LEMMA SetIs ==
  ASSUME Typed, NEW u \in User, NEW G, NEW s, NEW i, Set(u, G, s, i)
  PROVE  /\ task' = [task EXCEPT ![u] = [pc |-> "save", copy |-> G, read |-> games,
                                         then |-> s, start |-> i]]
         /\ task'[u].pc = "save" /\ task'[u].copy = G /\ task'[u].read = games
         /\ task'[u].then = s /\ task'[u].start = i
         /\ \A v \in User \ {u} : task'[v] = task[v]
<1>1. DOMAIN task = User
  BY DEF Typed
<1> QED
  BY <1>1 DEF Set

Handler(u) ==
  \/ EnterLobby(u) \/ LeaveLobby(u) \/ Disconnect(u)
  \/ \E i \in Id : Checkout(u, i)
  \/ \E n \in TeamAmounts : ProcessCreate(u, n)
  \/ \E t \in Team : SwitchTeam(u, t)
  \/ Leave(u)
  \/ \E uid \in {RoomUid[v] : v \in User} \cup 0 .. Cardinality(User) : Kick(u, uid)
  \/ Start(u) \/ EnterArena(u)
  \/ \E goal \in Goal : IngameMove(u, goal)

\* A handler reads the table and has a copy to save.
Handles(u, G, s, i) ==
  Ready(u) /\ Set(u, G, s, i) /\ UNCHANGED <<games, sess, cycle>>
Handled(u, X) ==
  \E G \in Tables(X), s \in Session, i \in Id \cup {NoGame} : Handles(u, G, s, i)

\* A changed session is a session.
LEMMA SessionMade ==
  ASSUME NEW s \in Session
  PROVE  /\ \A b \in BOOLEAN : [s EXCEPT !.here = b] \in Session
         /\ \A i \in Id \cup {NoGame}, t \in Team \cup {NoTeam} :
              [s EXCEPT !.game = i, !.team = t] \in Session
         /\ \A t \in Team \cup {NoTeam} : [s EXCEPT !.team = t] \in Session
         /\ Out \in Session
  BY DEF Session, Out

\* A handler without a cycle to spawn.
LEMMA BeginHandles ==
  ASSUME NEW X, NEW u \in User, NEW G \in Tables(X), NEW s \in Session, Ready(u), Begin(u, G, s)
  PROVE  Handled(u, X)
  BY DEF Begin, Handled, Handles, NoGame

\* The lowest free id is free.
LEMMA FreeId ==
  ASSUME NEW S, Id \ S # {}
  PROVE  Min(Id \ S) \in Id /\ Min(Id \ S) \notin S
<1> DEFINE R == Id \ S
<1>1. R \in SUBSET Nat /\ R # {}
  BY GamesAssumption DEF Id
<1> HIDE DEF R
<1>2. Min(R) \in R
  BY <1>1, MinIn
<1> QED
  BY <1>2 DEF R

\* Leaving leaves a table of the same kind of games.
LEMMA LeftIn ==
  ASSUME NEW X \in SUBSET Game, Closed(X), Typed, games \in Tables(X), NEW u \in User
  PROVE  Left(u) \in Tables(X)
<1> DEFINE i == sess[u].game
           g == games[i]
<1>1. CASE ~HasGame(u)
  BY <1>1 DEF Left
<1>2. CASE HasGame(u)
  <2>1. i \in Id /\ i \in DOMAIN games /\ g \in X /\ g \in Game
    BY <1>2, TypedParts, TableChange DEF HasGame
  <2>2. g.viewers \ {u} \in SUBSET User
    BY <2>1, GameParts
  <2>3. Viewed(g, g.viewers \ {u}) \in X
    BY <2>1, <2>2 DEF Closed
  <2>4. CASE g.owner = u
    <3>1. Left(u) = Less(games, i)
      BY <1>2, <2>4 DEF Left, Mine
    <3> QED
      BY <3>1, TableChange
  <2>5. CASE g.owner # u
    <3> DEFINE h == IF sess[u].team \in TeamsOf(g) THEN MoveOut(g, u, sess[u].team)
                    ELSE IF sess[u].team = NoTeam THEN [g EXCEPT !.viewers = @ \ {u}] ELSE g
    <3>1. Left(u) = [games EXCEPT ![i] = h]
      BY <1>2, <2>5 DEF Left, Mine
    <3>2. h \in X
      <4>1. CASE sess[u].team \in TeamsOf(g)
        BY <2>1, <4>1 DEF Closed
      <4>2. CASE sess[u].team \notin TeamsOf(g) /\ sess[u].team = NoTeam
        BY <2>3, <4>2 DEF Viewed
      <4>3. CASE sess[u].team \notin TeamsOf(g) /\ sess[u].team # NoTeam
        BY <2>1, <4>3
      <4> QED
        BY <4>1, <4>2, <4>3
    <3> HIDE DEF h
    <3>3. \A j \in Id, y \in X : [games EXCEPT ![j] = y] \in Tables(X)
      BY TableChange
    <3>4. [games EXCEPT ![i] = h] \in Tables(X)
      BY <2>1, <3>2, <3>3
    <3> QED
      BY <3>1, <3>4
  <2> QED
    BY <2>4, <2>5
<1> QED
  BY <1>1, <1>2

\* Changing the team leaves a table of the same kind of games.
LEMMA SwitchedIn ==
  ASSUME NEW X \in SUBSET Game, Closed(X), Typed, games \in Tables(X), NEW u \in User,
         NEW t \in Team, SwitchTeam(u, t)
  PROVE  Handled(u, X)
<1> DEFINE i == sess[u].game
           g == games[i]
           h == IF sess[u].team = NoTeam
                  THEN [g EXCEPT !.viewers = @ \ {u}, !.teams[t] = Append(@, GamePlayer(u))]
                  ELSE MoveTo(g, u, sess[u].team, t)
           s == [sess[u] EXCEPT !.team = t]
<1>1. /\ Ready(u) /\ HasGame(u) /\ g.state = "Waiting" /\ t \in TeamsOf(g)
      /\ Begin(u, [games EXCEPT ![i] = h], s)
  BY DEF SwitchTeam, Mine, TeamHasSpace
<1>2. i \in Id /\ i \in DOMAIN games /\ g \in X /\ g \in Game
  BY <1>1, TypedParts, TableChange DEF HasGame
<1>3. sess[u] \in Session /\ sess[u].team \in Team \cup {NoTeam}
  BY TypedParts
<1>4. h \in X
  <2>1. CASE sess[u].team = NoTeam
    <3>1. Joined(g, u, t) \in X
      BY <1>1, <1>2 DEF Closed
    <3> QED
      BY <2>1, <3>1 DEF Joined
  <2>2. CASE sess[u].team # NoTeam
    <3>1. sess[u].team \in Team
      BY <1>3, <2>2
    <3> QED
      BY <1>1, <1>2, <2>2, <3>1 DEF Closed
  <2> QED
    BY <2>1, <2>2
<1> HIDE DEF h
<1>5. [games EXCEPT ![i] = h] \in Tables(X)
  BY <1>2, <1>4, TableChange
<1>6. s \in Session
  BY <1>3, SessionMade
<1> HIDE DEF s
<1> QED
  BY <1>1, <1>5, <1>6, BeginHandles

\* Every handler has a table of the same kind of games to save.
LEMMA HandlerIn ==
  ASSUME NEW X \in SUBSET Game, Closed(X), Typed, games \in Tables(X), NEW u \in User,
         Handler(u), Start(u) => StartGame(Mine(u)) \in X
  PROVE  Handled(u, X)
<1> DEFINE i == sess[u].game
           g == games[i]
<1>0. sess[u] \in Session /\ NoGame \in Id \cup {NoGame} /\ NoTeam \in Team \cup {NoTeam}
      /\ TRUE \in BOOLEAN /\ FALSE \in BOOLEAN
  BY TypedParts
<1>1. [sess[u] EXCEPT !.here = TRUE] \in Session /\ [sess[u] EXCEPT !.here = FALSE] \in Session
  BY <1>0, SessionMade
<1>2. HasGame(u) => i \in Id /\ i \in DOMAIN games /\ g \in X /\ g \in Game
  BY TypedParts, TableChange DEF HasGame
<1>3. LobbyLess(u) \in Tables(X)
  BY TableChange DEF LobbyLess
<1>4. CASE EnterLobby(u)
  BY <1>1, <1>4, BeginHandles DEF EnterLobby
<1>5. CASE LeaveLobby(u)
  BY <1>1, <1>3, <1>5, BeginHandles DEF LeaveLobby
<1>6. CASE Disconnect(u)
  <2>1. Set(u, IF sess[u].here THEN LobbyLess(u) ELSE games, Out, NoGame)
        /\ Ready(u) /\ UNCHANGED <<games, sess, cycle>>
    BY <1>6 DEF Disconnect
  <2> DEFINE G == IF sess[u].here THEN LobbyLess(u) ELSE games
  <2>2. G \in Tables(X)
    BY <1>3
  <2> HIDE DEF G
  <2>3. Handles(u, G, Out, NoGame)
    BY <2>1 DEF Handles, G
  <2> QED
    BY <1>0, <2>2, <2>3, SessionMade DEF Handled
<1>7. ASSUME NEW j \in Id, Checkout(u, j)
      PROVE  Handled(u, X)
  <2> DEFINE G == [games EXCEPT ![j].viewers = @ \cup {u}]
             s == [sess[u] EXCEPT !.game = j, !.team = NoTeam]
             V == games[j].viewers \cup {u}
  <2>1. Ready(u) /\ Begin(u, G, s) /\ j \in DOMAIN games
    BY <1>7 DEF Checkout
  <2>2. games[j] \in X /\ games[j] \in Game
    BY <2>1, TableChange
  <2>3. V \in SUBSET User
    BY <2>2, GameParts
  <2>4. Viewed(games[j], V) \in X
    BY <2>2, <2>3 DEF Closed
  <2>5. G = [games EXCEPT ![j] = Viewed(games[j], V)]
    BY DEF Viewed
  <2> HIDE DEF G, V
  <2>6. G \in Tables(X)
    BY <2>4, <2>5, TableChange
  <2>7. s \in Session
    BY <1>0, SessionMade
  <2> HIDE DEF s
  <2> QED
    BY <2>1, <2>6, <2>7, BeginHandles
<1>8. ASSUME NEW n \in TeamAmounts, ProcessCreate(u, n)
      PROVE  Handled(u, X)
  <2> DEFINE m == Min(Id \ DOMAIN games)
             G == With(games, m, NewGame(u, n))
             s == [sess[u] EXCEPT !.game = m, !.team = 0]
  <2>1. Ready(u) /\ Begin(u, G, s) /\ Id \ DOMAIN games # {}
    BY <1>8 DEF ProcessCreate
  <2>2. m \in Id
    BY <2>1, FreeId
  <2> HIDE DEF m
  <2>3. NewGame(u, n) \in X
    BY DEF Closed
  <2>4. G \in Tables(X)
    BY <2>2, <2>3, TableChange
  <2>5. s \in Session
    <3>1. 0 \in Team \cup {NoTeam}
      BY DEF Team
    <3> QED
      BY <1>0, <2>2, <3>1, SessionMade
  <2> HIDE DEF G, s
  <2> QED
    BY <2>1, <2>4, <2>5, BeginHandles
<1>9. ASSUME NEW t \in Team, SwitchTeam(u, t)
      PROVE  Handled(u, X)
  BY <1>9, SwitchedIn
<1>10. CASE Leave(u)
  <2>1. Ready(u) /\ Begin(u, Left(u), Cleared(u))
    BY <1>10 DEF Leave
  <2>2. Cleared(u) \in Session
    BY <1>0, SessionMade DEF Cleared
  <2>3. Left(u) \in Tables(X)
    BY LeftIn
  <2> QED
    BY <2>1, <2>2, <2>3, BeginHandles
<1>11. ASSUME NEW uid, Kick(u, uid)
       PROVE  Handled(u, X)
  <2> DEFINE k == First(g, uid)
             h == MoveOut(g, k.user, k.team)
             G == [games EXCEPT ![i] = h]
  <2>1. /\ Ready(u) /\ HasGame(u) /\ Begin(u, G, sess[u])
        /\ \E t \in TeamsOf(g) : \E n \in DOMAIN g.teams[t] : g.teams[t][n].uid = uid
    BY <1>11 DEF Kick, Mine
  <2>2. k.team \in TeamsOf(g) /\ k.user \in User
    BY <1>2, <2>1, FirstIs
  <2> HIDE DEF k
  <2>3. h \in X
    BY <1>2, <2>1, <2>2 DEF Closed
  <2> HIDE DEF h
  <2>4. G \in Tables(X)
    BY <1>2, <2>1, <2>3, TableChange
  <2> HIDE DEF G
  <2> QED
    BY <1>0, <2>1, <2>4, BeginHandles
<1>12. CASE Start(u)
  <2> DEFINE h == StartGame(g)
             G == [games EXCEPT ![i] = h]
  <2>1. Ready(u) /\ HasGame(u) /\ Set(u, G, sess[u], i) /\ UNCHANGED <<games, sess, cycle>>
    BY <1>12 DEF Start, Mine
  <2>2. h \in X
    BY <1>12 DEF Mine
  <2> HIDE DEF h
  <2>3. G \in Tables(X) /\ i \in Id \cup {NoGame}
    BY <1>2, <2>1, <2>2, TableChange
  <2> HIDE DEF G
  <2>4. Handles(u, G, sess[u], i)
    BY <2>1 DEF Handles
  <2> QED
    BY <1>0, <2>3, <2>4 DEF Handled
<1>13. CASE EnterArena(u)
  BY <1>1, <1>13, BeginHandles DEF EnterArena
<1>14. ASSUME NEW goal \in Goal, IngameMove(u, goal)
       PROVE  Handled(u, X)
  <2> DEFINE h == Aimed(g, u, goal)
             G == [games EXCEPT ![i].teams = [t \in DOMAIN @ |-> Aim(@[t], u, goal)]]
  <2>1. Ready(u) /\ HasGame(u) /\ Begin(u, G, sess[u]) /\ g.state = "Started"
    BY <1>14 DEF IngameMove, Mine
  <2>2. h \in X
    BY <1>2, <2>1 DEF Closed
  <2>3. G = [games EXCEPT ![i] = h]
    BY DEF Aimed
  <2> HIDE DEF h, G
  <2>4. G \in Tables(X)
    BY <1>2, <2>1, <2>2, <2>3, TableChange
  <2> QED
    BY <1>0, <2>1, <2>4, BeginHandles
<1> QED
  BY <1>4, <1>5, <1>6, <1>7, <1>8, <1>9, <1>10, <1>11, <1>12, <1>13, <1>14 DEF Handler

\* A step of a cycle: it has a copy to save, or none.
Cycles(i, c) ==
  /\ cycle' = [cycle EXCEPT ![i] = c] /\ UNCHANGED <<games, sess, task>>
CycleIn(X) ==
  [pc : {"off", "begin", "count", "tick", "last", "take", "save"},
   then : {"off", "count", "tick", "last"}, steps : 0 .. Countdown,
   copy : Tables(X), read : Tables(Game)]

CycleGoes(i) ==
  \/ CycleBegin(i) \/ CycleCount(i) \/ CycleCounted(i) \/ CycleCharge(i)
  \/ CycleTick(i) \/ CycleEnd(i) \/ FinishGame(i) \/ CycleLast(i)
  \/ \E done \in SUBSET User : FinishFails(i, done)

\* What a cycle holds is well typed.
LEMMA CycleMade ==
  ASSUME NEW X, Typed, NEW G \in Tables(X),
         NEW p \in {"off", "begin", "count", "tick", "last", "take", "save"},
         NEW t \in {"off", "count", "tick", "last"}, NEW n \in 0 .. Countdown
  PROVE  [pc |-> p, copy |-> G, read |-> games, then |-> t, steps |-> n] \in CycleIn(X)
<1>1. games \in Tables(Game)
  BY TypedParts
<1> QED
  BY <1>1 DEF CycleIn

\* A cycle at rest is well typed.
LEMMA OffIn ==
  ASSUME NEW X
  PROVE  Off \in CycleIn(X)
<1>1. NoGames \in [{} -> X] /\ NoGames \in [{} -> Game]
  BY DEF NoGames
<1>2. NoGames \in Tables(X) /\ NoGames \in Tables(Game)
  BY <1>1 DEF Tables
<1>3. 0 \in 0 .. Countdown
  BY GamesAssumption
<1> QED
  BY <1>2, <1>3 DEF Off, CycleIn

\* Every step of a cycle has a table of the same kind of games to save, or none.
LEMMA CycleGoesIn ==
  ASSUME NEW X \in SUBSET Game, Closed(X), Typed, All(X), NEW i \in Id, CycleGoes(i)
  PROVE  \E c \in CycleIn(X) : Cycles(i, c)
<1>1. cycle[i] \in CycleIn(X) /\ games \in Tables(X)
  <2>1. cycle[i] \in Cycle /\ cycle[i].copy \in Tables(X)
    BY TypedParts DEF All
  <2> QED
    BY <2>1 DEF CycleIn, Cycle, All
<1>2. \A c \in CycleIn(X) :
        /\ \A p \in {"off", "begin", "count", "tick", "last", "take", "save"} :
             [c EXCEPT !.pc = p] \in CycleIn(X)
        /\ \A p \in {"off", "begin", "count", "tick", "last", "take", "save"}, n \in 0 .. Countdown :
             [c EXCEPT !.pc = p, !.steps = n] \in CycleIn(X)
  BY DEF CycleIn
<1>3. 0 \in 0 .. Countdown /\ Countdown \in 0 .. Countdown
  BY GamesAssumption
<1>4. DOMAIN cycle = Id
  BY DEF Typed
<1>5. Stop(i) /\ UNCHANGED <<games, sess, task>> => \E c \in CycleIn(X) : Cycles(i, c)
  BY OffIn DEF Stop, Cycles
<1>6. ASSUME NEW p \in {"off", "begin", "count", "tick", "last", "take", "save"},
             NEW G \in Tables(X), NEW t \in {"off", "count", "tick", "last"},
             NEW n \in 0 .. Countdown, Hold(i, p, G, t, n), UNCHANGED <<games, sess, task>>
      PROVE  \E c \in CycleIn(X) : Cycles(i, c)
  <2> DEFINE c == [pc |-> p, copy |-> G, read |-> games, then |-> t, steps |-> n]
  <2>1. c \in CycleIn(X)
    BY CycleMade
  <2>2. Cycles(i, c)
    BY <1>6 DEF Hold, Cycles
  <2> QED
    BY <2>1, <2>2
<1>7. CASE CycleBegin(i)
  <2> DEFINE n == IF Has(i) THEN Countdown ELSE 0
             c == [cycle[i] EXCEPT !.pc = "count", !.steps = n]
  <2>1. c \in CycleIn(X)
    BY <1>1, <1>2, <1>3
  <2>2. Cycles(i, c)
    BY <1>4, <1>7 DEF CycleBegin, Cycles, rest
  <2> QED
    BY <2>1, <2>2
<1>8. CASE CycleCount(i)
  <2>1. cycle[i].steps > 0 /\ UNCHANGED <<games, sess, task>>
        /\ IF Has(i) THEN Hold(i, "save", games, "count", cycle[i].steps - 1) ELSE Stop(i)
    BY <1>8 DEF CycleCount, rest
  <2>2. cycle[i].steps \in 0 .. Countdown
    BY TypedParts
  <2>3. cycle[i].steps - 1 \in 0 .. Countdown
    BY <2>1, <2>2, GamesAssumption
  <2> QED
    BY <1>1, <1>5, <1>6, <2>1, <2>3
<1>9. CASE CycleCounted(i)
  <2>1. UNCHANGED <<games, sess, task>>
        /\ IF Has(i) THEN Hold(i, "take", games, "tick", 0) ELSE Stop(i)
    BY <1>9 DEF CycleCounted, rest
  <2> QED
    BY <1>1, <1>3, <1>5, <1>6, <2>1
<1>10. CASE CycleCharge(i)
  <2>1. [cycle[i] EXCEPT !.pc = "save"] \in CycleIn(X)
    BY <1>1, <1>2
  <2>2. Cycles(i, [cycle[i] EXCEPT !.pc = "save"])
    BY <1>4, <1>10 DEF CycleCharge, Cycles, rest
  <2> QED
    BY <2>1, <2>2
<1>11. Has(i) => i \in DOMAIN games /\ games[i] \in X /\ games[i] \in Game
  BY <1>1, TableChange DEF Has
<1>12. \A y \in X : [games EXCEPT ![i] = y] \in Tables(X)
  BY <1>1, TableChange
<1>13. CASE CycleTick(i)
  <2>1. Has(i) /\ Tick(games[i]).left > 0 /\ UNCHANGED <<games, sess, task>>
        /\ Hold(i, "save", [games EXCEPT ![i] = Tick(@)], "tick", 0)
    BY <1>13 DEF CycleTick, rest
  <2>2. Tick(games[i]) \in X
    BY <1>11, <2>1 DEF Closed
  <2> DEFINE G == [games EXCEPT ![i] = Tick(@)]
  <2>3. G \in Tables(X)
    BY <1>12, <2>2
  <2> HIDE DEF G
  <2>4. Hold(i, "save", G, "tick", 0)
    BY <2>1 DEF G
  <2> QED
    BY <1>3, <1>6, <2>1, <2>3, <2>4
<1>14. CASE CycleEnd(i)
  BY <1>5, <1>14 DEF CycleEnd, rest
<1>15. CASE FinishGame(i)
  <2>1. Has(i) /\ Tick(games[i]).left = 0 /\ UNCHANGED <<games, sess, task>>
        /\ Hold(i, "save", [games EXCEPT ![i] = [Tick(games[i]) EXCEPT !.state = "Ended"]], "last", 0)
    BY <1>15 DEF FinishGame, rest
  <2>2. Over(games[i]) \in X
    BY <1>11, <2>1 DEF Closed
  <2> DEFINE G == [games EXCEPT ![i] = [Tick(games[i]) EXCEPT !.state = "Ended"]]
  <2>3. G \in Tables(X)
    BY <1>12, <2>2 DEF Over
  <2> HIDE DEF G
  <2>4. Hold(i, "save", G, "last", 0)
    BY <2>1 DEF G
  <2> QED
    BY <1>3, <1>6, <2>1, <2>3, <2>4
<1>16. CASE CycleLast(i)
  BY <1>5, <1>16 DEF CycleLast, rest
<1>17. ASSUME NEW done \in SUBSET User, FinishFails(i, done)
       PROVE  \E c \in CycleIn(X) : Cycles(i, c)
  <2>1. Has(i) /\ Tick(games[i]).left = 0 /\ UNCHANGED <<games, sess, task>>
        /\ Hold(i, "save", [games EXCEPT ![i] = Tick(games[i])], "last", 0)
    BY <1>17 DEF FinishFails, rest
  <2>2. Tick(games[i]) \in X
    BY <1>11, <2>1 DEF Closed
  <2> DEFINE G == [games EXCEPT ![i] = Tick(games[i])]
  <2>3. G \in Tables(X)
    BY <1>12, <2>2
  <2> HIDE DEF G
  <2>4. Hold(i, "save", G, "last", 0)
    BY <2>1 DEF G
  <2> QED
    BY <1>3, <1>6, <2>1, <2>3, <2>4
<1> QED
  BY <1>7, <1>8, <1>9, <1>10, <1>13, <1>14, <1>15, <1>16, <1>17 DEF CycleGoes

\* The steps: a handler reads, forgets, saves or spawns; a cycle goes on or saves.
LEMMA NextIs ==
  ASSUME Next
  PROVE  \/ \E u \in User : Handler(u) \/ Forget(u) \/ Save(u) \/ SpawnCycle(u)
         \/ \E i \in Id : CycleGoes(i) \/ CycleSave(i)
  BY DEF Next, InLobby, Handler, CycleStep, CycleGoes

\* What every operation keeps of a game, the steps keep of all games and all copies.
LEMMA AllNext ==
  ASSUME NEW X \in SUBSET Game, Closed(X), Typed, All(X), [Next]_vars,
         \A u \in User : Start(u) => StartGame(Mine(u)) \in X
  PROVE  All(X)'
<1>0. games \in Tables(X) /\ (\A u \in User : task[u].copy \in Tables(X))
      /\ (\A i \in Id : cycle[i].copy \in Tables(X)) /\ NoGames \in Tables(X)
  BY TableChange DEF All
<1>d. DOMAIN task = User /\ DOMAIN cycle = Id
  BY DEF Typed
<1>1. ASSUME NEW u \in User, Handler(u)
      PROVE  All(X)'
  <2>1. PICK G \in Tables(X), s \in Session, i \in Id \cup {NoGame} : Handles(u, G, s, i)
    BY <1>0, <1>1, HandlerIn DEF Handled
  <2>2. task'[u].copy = G /\ \A v \in User \ {u} : task'[v] = task[v]
    BY <2>1, SetIs DEF Handles
  <2>3. games' = games /\ cycle' = cycle
    BY <2>1 DEF Handles
  <2> QED
    BY <1>0, <2>2, <2>3 DEF All
<1>2. ASSUME NEW u \in User, Forget(u)
      PROVE  All(X)'
  BY <1>0, <1>2 DEF Forget, All
<1>3. ASSUME NEW u \in User, Save(u)
      PROVE  All(X)'
  <2>1. games' = task[u].copy /\ cycle' = cycle
    BY <1>3 DEF Save
  <2>2. \A v \in User : task'[v].copy \in {task[v].copy, NoGames}
    BY <1>3, <1>d DEF Save, AtRest
  <2> QED
    BY <1>0, <2>1, <2>2 DEF All
<1>4. ASSUME NEW u \in User, SpawnCycle(u)
      PROVE  All(X)'
  <2>1. games' = games
    BY <1>4 DEF SpawnCycle
  <2>2. \A v \in User : task'[v].copy \in {task[v].copy, NoGames}
    BY <1>4, <1>d DEF SpawnCycle, AtRest
  <2>3. \A j \in Id : cycle'[j].copy = cycle[j].copy
    <3> DEFINE i == task[u].start
    <3>0. cycle' = [cycle EXCEPT ![i].pc = "begin"] \/ cycle' = cycle
      BY <1>4 DEF SpawnCycle
    <3>1. \A j \in Id : DOMAIN cycle[j] = {"pc", "then", "steps", "copy", "read"}
      BY TypedParts DEF Cycle
    <3> HIDE DEF i
    <3> QED
      BY <1>d, <3>0, <3>1
  <2> QED
    BY <1>0, <2>1, <2>2, <2>3 DEF All
<1>5. ASSUME NEW i \in Id, CycleGoes(i)
      PROVE  All(X)'
  <2>1. PICK c \in CycleIn(X) : Cycles(i, c)
    BY <1>5, CycleGoesIn
  <2>2. c.copy \in Tables(X)
    BY DEF CycleIn
  <2>3. games' = games /\ task' = task /\ cycle'[i] = c /\ \A j \in Id \ {i} : cycle'[j] = cycle[j]
    BY <1>d, <2>1 DEF Cycles
  <2> QED
    BY <1>0, <2>2, <2>3 DEF All
<1>6. ASSUME NEW i \in Id, CycleSave(i)
      PROVE  All(X)'
  <2>1. games' = cycle[i].copy /\ task' = task
    BY <1>6 DEF CycleSave
  <2>2. \A j \in Id : cycle'[j].copy \in {cycle[j].copy, NoGames}
    BY <1>6, <1>d DEF CycleSave, Off
  <2> QED
    BY <1>0, <2>1, <2>2 DEF All
<1>7. CASE UNCHANGED vars
  BY <1>0, <1>7 DEF vars, All
<1> QED
  BY <1>1, <1>2, <1>3, <1>4, <1>5, <1>6, <1>7, NextIs

Flagged ==
  /\ starts \in 0 .. MaxStarts /\ loose \subseteq User
  /\ raced \in BOOLEAN /\ gone \in BOOLEAN /\ restarted \in BOOLEAN /\ reused \in BOOLEAN
  /\ missed \in BOOLEAN /\ failed \in BOOLEAN /\ stacked \in BOOLEAN

\* The histories and bounds stay what they are.
LEMMA FlagsNext ==
  ASSUME Typed, [Next]_vars
  PROVE  Flagged'
<1>0. Flagged
  BY DEF Typed, Flagged
<1>1. UNCHANGED <<starts, flags>> => Flagged'
  BY <1>0 DEF Flagged, flags
<1>2. ASSUME NEW u \in User, Handler(u)
      PROVE  Flagged'
  <2>1. ASSUME NEW G, NEW s, Begin(u, G, s)
        PROVE  Flagged'
    BY <1>1, <2>1 DEF Begin
  <2>2. CASE \/ EnterLobby(u) \/ LeaveLobby(u) \/ (\E i \in Id : Checkout(u, i))
             \/ (\E n \in TeamAmounts : ProcessCreate(u, n))
             \/ (\E t \in Team : SwitchTeam(u, t))
             \/ Leave(u) \/ EnterArena(u) \/ (\E uid : Kick(u, uid))
             \/ (\E goal \in Goal : IngameMove(u, goal))
    BY <2>1, <2>2 DEF EnterLobby, LeaveLobby, Checkout, ProcessCreate, SwitchTeam, Leave,
       EnterArena, IngameMove, Kick
  <2>3. CASE Disconnect(u)
    BY <1>0, <2>3 DEF Disconnect, Flagged
  <2>4. CASE Start(u)
    <3>1. /\ starts < MaxStarts /\ starts' = starts + 1
          /\ restarted' \in BOOLEAN /\ stacked' \in BOOLEAN
          /\ UNCHANGED <<raced, gone, loose, reused, missed, failed>>
      BY <1>0, <2>4 DEF Start, Flagged
    <3>2. starts' \in 0 .. MaxStarts
      BY <1>0, <3>1, GamesAssumption DEF Flagged
    <3> QED
      BY <1>0, <3>1, <3>2 DEF Flagged
  <2> QED
    BY <1>2, <2>2, <2>3, <2>4 DEF Handler
<1>3. ASSUME NEW u \in User, Forget(u) \/ Save(u) \/ SpawnCycle(u)
      PROVE  Flagged'
  <2>1. CASE Forget(u)
    BY <1>1, <2>1 DEF Forget
  <2>2. CASE Save(u)
    <3>1. /\ loose' \subseteq User /\ raced' \in BOOLEAN /\ reused' \in BOOLEAN
          /\ UNCHANGED <<starts, gone, restarted, missed, failed, stacked>>
      BY <1>0, <2>2 DEF Save, Flagged
    <3> QED
      BY <1>0, <3>1 DEF Flagged
  <2>3. CASE SpawnCycle(u)
    BY <1>0, <2>3 DEF SpawnCycle, Flagged
  <2> QED
    BY <1>3, <2>1, <2>2, <2>3
<1>4. ASSUME NEW i \in Id, CycleGoes(i) \/ CycleSave(i)
      PROVE  Flagged'
  <2>1. CASE \/ CycleBegin(i) \/ CycleCount(i) \/ CycleCounted(i) \/ CycleTick(i)
             \/ CycleEnd(i) \/ FinishGame(i) \/ CycleLast(i)
    BY <1>1, <2>1 DEF CycleBegin, CycleCount, CycleCounted, CycleTick, CycleEnd, FinishGame,
       CycleLast, rest
  <2>2. CASE CycleCharge(i) \/ CycleSave(i)
    BY <1>0, <2>2 DEF CycleCharge, CycleSave, Flagged, rest
  <2>3. ASSUME NEW done, FinishFails(i, done)
        PROVE  Flagged'
    BY <1>0, <2>3 DEF FinishFails, Flagged, rest
  <2> QED
    BY <1>4, <2>1, <2>2, <2>3 DEF CycleGoes
<1>5. CASE UNCHANGED vars
  BY <1>1, <1>5 DEF vars
<1> QED
  BY <1>2, <1>3, <1>4, <1>5, NextIs

\* What is there in the beginning is well typed.
LEMMA TablesMade == NoGames \in Tables(Game) /\ AtRest \in Task /\ Off \in Cycle
<1>1. NoGames \in Tables(Game)
  <2>1. NoGames \in [{} -> Game]
    BY DEF NoGames
  <2> QED
    BY <2>1 DEF Tables
<1>2. Out \in Session
  BY DEF Out, Session
<1>3. AtRest \in Task
  BY <1>1, <1>2 DEF AtRest, Task
<1>4. 0 \in 0 .. Countdown
  BY GamesAssumption
<1>5. Off \in Cycle
  BY <1>1, <1>4 DEF Off, Cycle
<1> QED
  BY <1>1, <1>3, <1>5

\* The first state is well typed.
LEMMA TypedInit == Init => Typed
<1> SUFFICES ASSUME Init PROVE Typed
  OBVIOUS
<1>1. sess \in [User -> Session]
  BY DEF Init, Out, Session
<1>2. starts \in 0 .. MaxStarts
  BY GamesAssumption DEF Init
<1> QED
  BY <1>1, <1>2, TablesMade DEF Init, Typed

\* No step breaks the types.
LEMMA TypedNext == Typed /\ [Next]_vars => Typed'
<1> SUFFICES ASSUME Typed, [Next]_vars PROVE Typed'
  OBVIOUS
<1>0. Flagged'
  BY FlagsNext
<1>1. /\ games \in Tables(Game) /\ sess \in [User -> Session]
      /\ task \in [User -> Task] /\ cycle \in [Id -> Cycle]
  BY DEF Typed
<1>2. SUFFICES /\ games' \in Tables(Game) /\ sess' \in [User -> Session]
               /\ task' \in [User -> Task] /\ cycle' \in [Id -> Cycle]
  BY <1>0 DEF Typed, Flagged
<1>a. All(Game)
  BY TypedParts DEF All
<1>3. ASSUME NEW u \in User, Handler(u)
      PROVE  /\ games' \in Tables(Game) /\ sess' \in [User -> Session]
             /\ task' \in [User -> Task] /\ cycle' \in [Id -> Cycle]
  <2>1. Start(u) => StartGame(Mine(u)) \in Game
    <3>1. Start(u) => Mine(u) \in Game
      BY TypedParts DEF Start, HasGame, Mine
    <3> QED
      BY <3>1, StartGameIs
  <2>2. Game \in SUBSET Game
    OBVIOUS
  <2>3. Handled(u, Game)
    BY <1>1, <1>3, <2>1, <2>2, GameClosed, HandlerIn
  <2>4. PICK G \in Tables(Game), s \in Session, i \in Id \cup {NoGame} : Handles(u, G, s, i)
    BY <2>3 DEF Handled
  <2> DEFINE k == [pc |-> "save", copy |-> G, read |-> games, then |-> s, start |-> i]
  <2>5. k \in Task
    BY <1>1 DEF Task
  <2>6. task' = [task EXCEPT ![u] = k]
    BY <2>4 DEF Handles, Set
  <2> HIDE DEF k
  <2>7. task' \in [User -> Task]
    BY <1>1, <2>5, <2>6
  <2> QED
    BY <1>1, <2>4, <2>7 DEF Handles
<1>4. ASSUME NEW u \in User, Forget(u)
      PROVE  /\ games' \in Tables(Game) /\ sess' \in [User -> Session]
             /\ task' \in [User -> Task] /\ cycle' \in [Id -> Cycle]
  <2>1. Cleared(u) \in Session
    <3>1. sess[u] \in Session
      BY <1>1
    <3> QED
      BY <3>1, SessionMade DEF Cleared
  <2> QED
    BY <1>1, <1>4, <2>1 DEF Forget
<1>5. ASSUME NEW u \in User, Save(u)
      PROVE  /\ games' \in Tables(Game) /\ sess' \in [User -> Session]
             /\ task' \in [User -> Task] /\ cycle' \in [Id -> Cycle]
  <2>1. /\ games' = task[u].copy /\ sess' = [sess EXCEPT ![u] = task[u].then]
        /\ \E k \in {AtRest, [AtRest EXCEPT !.pc = "spawn", !.start = task[u].start]} :
             task' = [task EXCEPT ![u] = k]
        /\ cycle' = cycle
    BY <1>5 DEF Save
  <2>2. [AtRest EXCEPT !.pc = "spawn", !.start = task[u].start] \in Task
    <3>1. task[u].start \in Id \cup {NoGame}
      BY TypedParts
    <3> DEFINE i == task[u].start
    <3> HIDE DEF i
    <3>2. [AtRest EXCEPT !.pc = "spawn", !.start = i] \in Task
      BY <3>1, TablesMade DEF Task, i
    <3> QED
      BY <3>2 DEF i
  <2> QED
    BY <1>1, <2>1, <2>2, TablesMade, TypedParts
<1>6. ASSUME NEW u \in User, SpawnCycle(u)
      PROVE  /\ games' \in Tables(Game) /\ sess' \in [User -> Session]
             /\ task' \in [User -> Task] /\ cycle' \in [Id -> Cycle]
  <2> DEFINE i == task[u].start
  <2>1. /\ games' = games /\ sess' = sess /\ task' = [task EXCEPT ![u] = AtRest]
        /\ cycle' = [cycle EXCEPT ![i].pc = "begin"] \/ cycle' = cycle
    BY <1>6 DEF SpawnCycle
  <2> HIDE DEF i
  <2>2. \A c \in Cycle : [c EXCEPT !.pc = "begin"] \in Cycle
    BY DEF Cycle
  <2>3. [cycle EXCEPT ![i].pc = "begin"] \in [Id -> Cycle]
    BY <1>1, <2>2
  <2> QED
    BY <1>1, <2>1, <2>3, TablesMade
<1>7. ASSUME NEW i \in Id, CycleGoes(i)
      PROVE  /\ games' \in Tables(Game) /\ sess' \in [User -> Session]
             /\ task' \in [User -> Task] /\ cycle' \in [Id -> Cycle]
  <2>1. PICK c \in CycleIn(Game) : Cycles(i, c)
    BY <1>7, <1>a, GameClosed, CycleGoesIn
  <2>2. c \in Cycle
    BY DEF CycleIn, Cycle
  <2> QED
    BY <1>1, <2>1, <2>2 DEF Cycles
<1>8. ASSUME NEW i \in Id, CycleSave(i)
      PROVE  /\ games' \in Tables(Game) /\ sess' \in [User -> Session]
             /\ task' \in [User -> Task] /\ cycle' \in [Id -> Cycle]
  <2> DEFINE c == [Off EXCEPT !.pc = cycle[i].then, !.steps = cycle[i].steps]
  <2>1. games' = cycle[i].copy /\ sess' = sess /\ task' = task /\ cycle' = [cycle EXCEPT ![i] = c]
    BY <1>8 DEF CycleSave
  <2>2. c \in Cycle
    <3> DEFINE p == cycle[i].then
               n == cycle[i].steps
    <3>1. p \in {"off", "count", "tick", "last"} /\ n \in 0 .. Countdown
      BY TypedParts
    <3> HIDE DEF p, n
    <3>2. [Off EXCEPT !.pc = p, !.steps = n] \in Cycle
      BY <3>1, TablesMade DEF Cycle
    <3> QED
      BY <3>2 DEF p, n
  <2> HIDE DEF c
  <2> QED
    BY <1>1, <2>1, <2>2, TypedParts
<1>9. CASE UNCHANGED vars
  BY <1>1, <1>9 DEF vars
<1> QED
  BY <1>3, <1>4, <1>5, <1>6, <1>7, <1>8, <1>9, NextIs

-----------------------------------------------------------------------------
(* Every game that runs has its cycle                                      *)

Runs(G, i) == i \in DOMAIN G /\ G[i].state = "Started"
Calm == ~raced /\ ~missed /\ ~failed
Held(u) ==
  task[u].pc = "save" =>
    \A j \in Id : Runs(task[u].copy, j) => Runs(task[u].read, j) \/ j = task[u].start
Carried(i) ==
  cycle[i].pc \in {"take", "save"} =>
    \A j \in Id : Runs(cycle[i].copy, j) => Runs(cycle[i].read, j)
Ending(i) ==
  /\ cycle[i].pc = "take" => cycle[i].then = "tick"
  /\ cycle[i].pc = "save" => /\ cycle[i].then # "off"
                             /\ cycle[i].then = "last" => ~Runs(cycle[i].copy, i)
Awaits(i) == \E u \in User : task[u].pc = "spawn" /\ task[u].start = i
Driven(i) == Runs(games, i) => cycle[i].pc \notin {"off", "last"} \/ Awaits(i)
Kept ==
  Calm => /\ \A u \in User : Held(u)
          /\ \A i \in Id : Carried(i) /\ Ending(i) /\ Driven(i)

\* What changes teams or viewers does not change the state of a game.
LEMMA StateKept ==
  ASSUME NEW g \in Game
  PROVE  /\ \A x : [g EXCEPT !.teams = x].state = g.state
         /\ \A x, y : [g EXCEPT !.viewers = x, !.teams = y].state = g.state
         /\ \A x : [g EXCEPT !.viewers = x].state = g.state
<1>1. DOMAIN g = GameFields
  BY DEF Game, GameFields
<1> QED
  BY <1>1 DEF GameFields

\* With one game changed and in the same state, no more games run.
LEMMA OneChanged ==
  ASSUME Typed, NEW i, NEW h, i \in DOMAIN games, h.state = games[i].state
  PROVE  \A j \in Id : Runs([games EXCEPT ![i] = h], j) => Runs(games, j)
  BY TypedParts DEF Runs

\* A handler starts no game but the one that it has a cycle spawned for.
HandledWell(u) ==
  \E G, s, i : /\ Handles(u, G, s, i)
               /\ \A j \in Id : Runs(G, j) => Runs(games, j) \/ j = i

\* A handler that reads only, or starts no game.
LEMMA BegunWell ==
  ASSUME NEW u \in User, NEW G, NEW s, Ready(u), Begin(u, G, s),
         \A j \in Id : Runs(G, j) => Runs(games, j)
  PROVE  HandledWell(u)
  BY DEF Begin, HandledWell, Handles

\* No handler makes a game run but start_game, which then spawns the cycle.
LEMMA HandlerWell ==
  ASSUME Typed, NEW u \in User, Handler(u)
  PROVE  HandledWell(u)
<1> DEFINE i == sess[u].game
           g == games[i]
<1>1. HasGame(u) => i \in Id /\ i \in DOMAIN games /\ g \in Game
  BY TypedParts DEF HasGame
<1>2. \A j \in Id : Runs(LobbyLess(u), j) => Runs(games, j)
  BY DEF LobbyLess, Runs, NoGames
<1>3. CASE EnterLobby(u)
  BY <1>3, BegunWell DEF EnterLobby
<1>4. CASE LeaveLobby(u)
  BY <1>2, <1>4, BegunWell DEF LeaveLobby
<1>5. CASE Disconnect(u)
  <2> DEFINE G == IF sess[u].here THEN LobbyLess(u) ELSE games
  <2>1. Handles(u, G, Out, NoGame)
    BY <1>5 DEF Disconnect, Handles
  <2>2. \A j \in Id : Runs(G, j) => Runs(games, j)
    BY <1>2
  <2> HIDE DEF G
  <2> QED
    BY <2>1, <2>2 DEF HandledWell
<1>6. ASSUME NEW k \in Id, Checkout(u, k)
      PROVE  HandledWell(u)
  <2> DEFINE G == [games EXCEPT ![k].viewers = @ \cup {u}]
             h == [games[k] EXCEPT !.viewers = @ \cup {u}]
             s == [sess[u] EXCEPT !.game = k, !.team = NoTeam]
  <2>1. Ready(u) /\ Begin(u, G, s) /\ k \in DOMAIN games
    BY <1>6 DEF Checkout
  <2>2. games[k] \in Game
    BY <2>1, TypedParts
  <2>3. h.state = games[k].state
    BY <2>2, StateKept
  <2>4. G = [games EXCEPT ![k] = h]
    OBVIOUS
  <2> HIDE DEF G, h, s
  <2>5. \A j \in Id : Runs(G, j) => Runs(games, j)
    BY <2>1, <2>3, <2>4, OneChanged
  <2> QED
    BY <2>1, <2>5, BegunWell
<1>7. ASSUME NEW n \in TeamAmounts, ProcessCreate(u, n)
      PROVE  HandledWell(u)
  <2> DEFINE m == Min(Id \ DOMAIN games)
             h == NewGame(u, n)
             G == With(games, m, h)
             s == [sess[u] EXCEPT !.game = m, !.team = 0]
  <2>1. Ready(u) /\ Begin(u, G, s)
    BY <1>7 DEF ProcessCreate
  <2>2. h.state # "Started"
    BY NewGameIs
  <2> HIDE DEF m, h
  <2>3. \A j \in Id : Runs(G, j) => Runs(games, j)
    BY <2>2 DEF Runs, With
  <2> HIDE DEF G, s
  <2> QED
    BY <2>1, <2>3, BegunWell
<1>8. ASSUME NEW t \in Team, SwitchTeam(u, t)
      PROVE  HandledWell(u)
  <2> DEFINE h == IF sess[u].team = NoTeam
                    THEN [g EXCEPT !.viewers = @ \ {u}, !.teams[t] = Append(@, GamePlayer(u))]
                    ELSE MoveTo(g, u, sess[u].team, t)
             G == [games EXCEPT ![i] = h]
             s == [sess[u] EXCEPT !.team = t]
  <2>1. Ready(u) /\ HasGame(u) /\ Begin(u, G, s)
    BY <1>8 DEF SwitchTeam, Mine
  <2>2. h.state = g.state
    BY <1>1, <2>1, StateKept DEF MoveTo
  <2> HIDE DEF h, s
  <2>3. \A j \in Id : Runs(G, j) => Runs(games, j)
    BY <1>1, <2>1, <2>2, OneChanged
  <2> HIDE DEF G
  <2> QED
    BY <2>1, <2>3, BegunWell
<1>9. CASE Leave(u)
  <2>1. Ready(u) /\ Begin(u, Left(u), Cleared(u))
    BY <1>9 DEF Leave
  <2>2. \A j \in Id : Runs(Left(u), j) => Runs(games, j)
    <3>1. CASE ~HasGame(u)
      BY <3>1 DEF Left
    <3>2. CASE HasGame(u) /\ g.owner = u
      BY <3>2 DEF Left, Mine, Less, Runs
    <3>3. CASE HasGame(u) /\ g.owner # u
      <4> DEFINE h == IF sess[u].team \in TeamsOf(g) THEN MoveOut(g, u, sess[u].team)
                      ELSE IF sess[u].team = NoTeam THEN [g EXCEPT !.viewers = @ \ {u}] ELSE g
      <4>1. Left(u) = [games EXCEPT ![i] = h]
        BY <3>3 DEF Left, Mine
      <4>2. h.state = g.state
        BY <1>1, <3>3, StateKept DEF MoveOut
      <4> HIDE DEF h
      <4>3. \A j \in Id : Runs([games EXCEPT ![i] = h], j) => Runs(games, j)
        BY <1>1, <3>3, <4>2, OneChanged
      <4> QED
        BY <4>1, <4>3
    <3> QED
      BY <3>1, <3>2, <3>3
  <2> QED
    BY <2>1, <2>2, BegunWell
<1>10. ASSUME NEW uid, Kick(u, uid)
       PROVE  HandledWell(u)
  <2> DEFINE h == MoveOut(g, First(g, uid).user, First(g, uid).team)
             G == [games EXCEPT ![i] = h]
  <2>1. Ready(u) /\ HasGame(u) /\ Begin(u, G, sess[u])
    BY <1>10 DEF Kick, Mine
  <2>2. h.state = g.state
    BY <1>1, <2>1, StateKept DEF MoveOut
  <2> HIDE DEF h
  <2>3. \A j \in Id : Runs(G, j) => Runs(games, j)
    BY <1>1, <2>1, <2>2, OneChanged
  <2> HIDE DEF G
  <2> QED
    BY <2>1, <2>3, BegunWell
<1>11. CASE Start(u)
  <2> DEFINE h == StartGame(g)
             G == [games EXCEPT ![i] = h]
  <2>1. HasGame(u) /\ Handles(u, G, sess[u], i)
    BY <1>11 DEF Start, Mine, Handles
  <2> HIDE DEF h
  <2>2. \A j \in Id : Runs(G, j) => Runs(games, j) \/ j = i
    BY DEF Runs
  <2> HIDE DEF G
  <2> QED
    BY <2>1, <2>2 DEF HandledWell
<1>12. CASE EnterArena(u)
  BY <1>12, BegunWell DEF EnterArena
<1>13. ASSUME NEW goal \in Goal, IngameMove(u, goal)
       PROVE  HandledWell(u)
  <2> DEFINE h == [g EXCEPT !.teams = [t \in DOMAIN @ |-> Aim(@[t], u, goal)]]
             G == [games EXCEPT ![i].teams = [t \in DOMAIN @ |-> Aim(@[t], u, goal)]]
  <2>1. Ready(u) /\ HasGame(u) /\ Begin(u, G, sess[u])
    BY <1>13 DEF IngameMove
  <2>2. h.state = g.state
    BY <1>1, <2>1, StateKept
  <2>3. G = [games EXCEPT ![i] = h]
    OBVIOUS
  <2> HIDE DEF h, G
  <2>4. \A j \in Id : Runs(G, j) => Runs(games, j)
    BY <1>1, <2>1, <2>2, <2>3, OneChanged
  <2> QED
    BY <2>1, <2>4, BegunWell
<1> QED
  BY <1>3, <1>4, <1>5, <1>6, <1>7, <1>8, <1>9, <1>10, <1>11, <1>12, <1>13 DEF Handler

\* In the beginning there is no game.
LEMMA KeptInit == Init => Kept
  BY DEF Init, Kept, Held, Carried, Ending, Driven, Runs, AtRest, Off, NoGames, Id

\* What a step leaves of the tasks and of the cycles, it leaves right.
LEMMA CyclesOnly ==
  ASSUME Typed, Kept, Calm, NEW i \in Id, NEW c, cycle' = [cycle EXCEPT ![i] = c],
         UNCHANGED <<games, task>>,
         c.pc \in {"take", "save"} => \A j \in Id : Runs(c.copy, j) => Runs(c.read, j),
         c.pc = "take" => c.then = "tick",
         c.pc = "save" => c.then # "off" /\ (c.then = "last" => ~Runs(c.copy, i)),
         Runs(games, i) => c.pc \notin {"off", "last"} \/ Awaits(i)
  PROVE  Kept'
<1>1. cycle'[i] = c /\ \A j \in Id \ {i} : cycle'[j] = cycle[j]
  BY DEF Typed
<1>2. \A u \in User : Held(u)'
  BY DEF Kept, Held
<1>3. \A j \in Id : j = i => (Carried(j) /\ Ending(j) /\ Driven(j))'
  BY <1>1 DEF Carried, Ending, Driven, Awaits
<1>4. \A j \in Id : j # i => (Carried(j) /\ Ending(j) /\ Driven(j))'
  BY <1>1 DEF Kept, Carried, Ending, Driven, Awaits
<1> QED
  BY <1>2, <1>3, <1>4, Zenon DEF Kept

\* Handlers and cycles lose no copy before something is saved.
LEMMA CalmBefore ==
  ASSUME Calm', (\E u \in User : Handler(u)) \/ (\E i \in Id : CycleGoes(i))
  PROVE  Calm
<1>1. UNCHANGED flags => Calm
  BY DEF Calm, flags
<1>2. ASSUME NEW u \in User, Handler(u)
      PROVE  Calm
  <2>1. ASSUME NEW G, NEW s, Begin(u, G, s)
        PROVE  Calm
    BY <1>1, <2>1 DEF Begin
  <2>2. CASE \/ EnterLobby(u) \/ LeaveLobby(u) \/ (\E i \in Id : Checkout(u, i))
             \/ (\E n \in TeamAmounts : ProcessCreate(u, n))
             \/ (\E t \in Team : SwitchTeam(u, t))
             \/ Leave(u) \/ EnterArena(u) \/ (\E uid : Kick(u, uid))
             \/ (\E goal \in Goal : IngameMove(u, goal))
    BY <2>1, <2>2 DEF EnterLobby, LeaveLobby, Checkout, ProcessCreate, SwitchTeam, Leave,
       EnterArena, IngameMove, Kick
  <2>3. UNCHANGED <<raced, missed, failed>> => Calm
    BY DEF Calm
  <2>4. CASE Disconnect(u)
    BY <2>3, <2>4 DEF Disconnect
  <2>5. CASE Start(u)
    BY <2>3, <2>5 DEF Start
  <2> QED
    BY <1>2, <2>2, <2>4, <2>5 DEF Handler
<1>3. ASSUME NEW i \in Id, CycleGoes(i)
      PROVE  Calm
  <2>1. CASE \/ CycleBegin(i) \/ CycleCount(i) \/ CycleCounted(i) \/ CycleTick(i)
             \/ CycleEnd(i) \/ FinishGame(i) \/ CycleLast(i)
    BY <1>1, <2>1 DEF CycleBegin, CycleCount, CycleCounted, CycleTick, CycleEnd, FinishGame,
       CycleLast
  <2>2. CASE CycleCharge(i)
    BY <2>2 DEF CycleCharge, Calm
  <2>3. ASSUME NEW done, FinishFails(i, done)
        PROVE  Calm
    BY <2>3 DEF FinishFails, Calm
  <2> QED
    BY <1>3, <2>1, <2>2, <2>3 DEF CycleGoes
<1> QED
  BY <1>2, <1>3

\* Every step keeps a cycle for every game that runs.
LEMMA KeptNext ==
  Typed /\ Kept /\ [Next]_vars => Kept'
<1> SUFFICES ASSUME Typed, Kept, [Next]_vars, Calm' PROVE Kept'
  BY DEF Kept
<1>d. DOMAIN task = User /\ DOMAIN cycle = Id /\ DOMAIN games \subseteq Id
  BY TypedParts DEF Typed
<1>c. /\ \A i \in Id : cycle[i] \in Cycle
      /\ \A i \in Id : Has(i) => i \in DOMAIN games /\ games[i] \in Game
  BY TypedParts DEF Has
<1>1. ASSUME NEW u \in User, Handler(u)
      PROVE  Kept'
  <2>1. PICK G, s, i : /\ Handles(u, G, s, i)
                       /\ \A j \in Id : Runs(G, j) => Runs(games, j) \/ j = i
    BY <1>1, HandlerWell DEF HandledWell
  <2>2. /\ task'[u].pc = "save" /\ task'[u].copy = G /\ task'[u].read = games
        /\ task'[u].start = i /\ \A v \in User \ {u} : task'[v] = task[v]
        /\ task[u].pc = "ready" /\ games' = games /\ cycle' = cycle
    BY <2>1, SetIs DEF Handles, Ready
  <2>3. Calm
    BY <1>1, CalmBefore
  <2>4. \A v \in User : Held(v)'
    BY <2>1, <2>2, <2>3 DEF Kept, Held
  <2>5. \A j \in Id : (Carried(j) /\ Ending(j))'
    BY <2>2, <2>3 DEF Kept, Carried, Ending
  <2>6. \A j \in Id : Awaits(j) => Awaits(j)'
    BY <2>2 DEF Awaits
  <2>7. \A j \in Id : Driven(j)'
    BY <2>2, <2>3, <2>6 DEF Kept, Driven
  <2> QED
    BY <2>4, <2>5, <2>7 DEF Kept
<1>2. ASSUME NEW u \in User, Forget(u)
      PROVE  Kept'
  BY <1>2 DEF Forget, flags, Kept, Calm, Held, Carried, Ending, Driven, Awaits
<1>3. ASSUME NEW u \in User, Save(u)
      PROVE  Kept'
  <2>1. /\ task[u].pc = "save" /\ games' = task[u].copy /\ cycle' = cycle /\ Calm
        /\ games = task[u].read
        /\ task'[u] = IF task[u].start = NoGame THEN AtRest
                      ELSE [AtRest EXCEPT !.pc = "spawn", !.start = task[u].start]
        /\ \A v \in User \ {u} : task'[v] = task[v]
    BY <1>3, <1>d DEF Save, Calm
  <2>2. /\ task'[u].pc # "save"
        /\ task[u].start # NoGame => task'[u].pc = "spawn" /\ task'[u].start = task[u].start
    BY <2>1 DEF AtRest
  <2>3. \A v \in User : Held(v)'
    BY <2>1, <2>2 DEF Kept, Held
  <2>4. \A j \in Id : (Carried(j) /\ Ending(j))'
    BY <2>1 DEF Kept, Carried, Ending
  <2>5. ASSUME NEW j \in Id
        PROVE  /\ Runs(games', j) => Runs(games, j) \/ j = task[u].start
               /\ Awaits(j) => Awaits(j)'
               /\ j = task[u].start => Awaits(j)'
    <3>1. j # NoGame
      BY GamesAssumption DEF Id, NoGame
    <3> QED
      BY <2>1, <2>2, <3>1 DEF Kept, Held, Awaits
  <2>6. \A j \in Id : Driven(j)'
    <3> TAKE j \in Id
    <3>1. Driven(j)
      BY <2>1 DEF Kept
    <3>2. Runs(games, j)' <=> Runs(games', j)
      OBVIOUS
    <3> QED
      BY <2>1, <2>5, <3>1, <3>2 DEF Driven
  <2> QED
    BY <2>3, <2>4, <2>6 DEF Kept
<1>4. ASSUME NEW u \in User, SpawnCycle(u)
      PROVE  Kept'
  <2> DEFINE i == task[u].start
  <2>1. /\ task[u].pc = "spawn" /\ games' = games /\ Calm
        /\ "last" \notin {cycle[i].pc, cycle[i].then}
        /\ task'[u] = AtRest /\ \A v \in User \ {u} : task'[v] = task[v]
        /\ IF cycle[i].pc = "off" THEN cycle' = [cycle EXCEPT ![i].pc = "begin"]
           ELSE UNCHANGED cycle
    BY <1>4, <1>d DEF SpawnCycle, Calm
  <2> HIDE DEF i
  <2>2. /\ \A j \in Id \ {i} : cycle'[j] = cycle[j]
        /\ i \in Id => cycle'[i].pc \notin {"off", "last"}
        /\ i \in Id => \/ cycle'[i].pc = "begin" \/ cycle'[i] = cycle[i]
    BY <1>c, <1>d, <2>1 DEF Cycle
  <2>3. \A v \in User : Held(v)'
    BY <2>1 DEF Kept, Held, AtRest
  <2>4. \A j \in Id : (Carried(j) /\ Ending(j))'
    BY <2>1, <2>2 DEF Kept, Carried, Ending
  <2>5. \A j \in Id \ {i} : Awaits(j) => Awaits(j)'
    BY <2>1 DEF Awaits, i
  <2>6. \A j \in Id : Driven(j)'
    <3> TAKE j \in Id
    <3>1. CASE j = i
      BY <2>2, <3>1 DEF Driven
    <3>2. CASE j # i
      BY <2>1, <2>2, <2>5, <3>2 DEF Kept, Driven
    <3> QED
      BY <3>1, <3>2
  <2> QED
    BY <2>3, <2>4, <2>6 DEF Kept
<1>5. ASSUME NEW i \in Id, CycleGoes(i)
      PROVE  Kept'
  <2>0. /\ Calm /\ Carried(i) /\ Ending(i) /\ Driven(i)
    <3>1. Calm
      BY <1>5, CalmBefore
    <3> QED
      BY <3>1 DEF Kept
  <2>1. Has(i) => Runs(games, i) <=> games[i].state = "Started"
    BY <1>c DEF Runs
  <2>2. ~Has(i) => ~Runs(games, i)
    BY DEF Has, Runs
  <2>3. ASSUME Stop(i), UNCHANGED <<games, task>>, ~Runs(games, i) \/ cycle[i].pc = "last"
        PROVE  Kept'
    <3>1. /\ Off.pc = "off" /\ cycle' = [cycle EXCEPT ![i] = Off]
          /\ Runs(games, i) => Awaits(i)
      BY <2>0, <2>3 DEF Stop, Off, Driven
    <3> QED
      BY <2>0, <2>3, <3>1, CyclesOnly
  <2>4. ASSUME NEW p \in {"take", "save"}, NEW G, NEW t, NEW n, Hold(i, p, G, t, n),
               UNCHANGED <<games, task>>, \A j \in Id : Runs(G, j) => Runs(games, j),
               p = "take" => t = "tick", t # "off", t = "last" => ~Runs(G, i)
        PROVE  Kept'
    <3> DEFINE c == [pc |-> p, copy |-> G, read |-> games, then |-> t, steps |-> n]
    <3>1. cycle' = [cycle EXCEPT ![i] = c]
      BY <2>4 DEF Hold
    <3>2. c.pc = p /\ c.copy = G /\ c.read = games /\ c.then = t /\ p \notin {"off", "last"}
      OBVIOUS
    <3> HIDE DEF c
    <3> QED
      BY <2>0, <2>4, <3>1, <3>2, CyclesOnly
  <2>5. ASSUME NEW h, Has(i), h.state = games[i].state \/ h.state = "Ended"
        PROVE  /\ \A j \in Id : Runs([games EXCEPT ![i] = h], j) => Runs(games, j)
               /\ h.state = "Ended" => ~Runs([games EXCEPT ![i] = h], i)
    BY <1>c, <2>5 DEF Runs
  <2>6. CASE CycleBegin(i)
    <3> DEFINE n == IF Has(i) THEN Countdown ELSE 0
               c == [cycle[i] EXCEPT !.pc = "count", !.steps = n]
    <3>1. c.pc = "count"
      BY <1>c DEF Cycle
    <3>2. cycle' = [cycle EXCEPT ![i] = c] /\ UNCHANGED <<games, task>>
      BY <1>d, <2>6 DEF CycleBegin, rest
    <3> HIDE DEF c
    <3> QED
      BY <2>0, <3>1, <3>2, CyclesOnly
  <2>7. CASE CycleCount(i)
    <3>1. UNCHANGED <<games, task>>
          /\ IF Has(i) THEN Hold(i, "save", games, "count", cycle[i].steps - 1) ELSE Stop(i)
      BY <2>7 DEF CycleCount, rest
    <3> QED
      BY <2>2, <2>3, <2>4, <3>1
  <2>8. CASE CycleCounted(i)
    <3>1. UNCHANGED <<games, task>>
          /\ IF Has(i) THEN Hold(i, "take", games, "tick", 0) ELSE Stop(i)
      BY <2>8 DEF CycleCounted, rest
    <3> QED
      BY <2>2, <2>3, <2>4, <3>1
  <2>9. CASE CycleCharge(i)
    <3> DEFINE c == [cycle[i] EXCEPT !.pc = "save"]
    <3>1. /\ cycle[i].pc = "take" /\ cycle' = [cycle EXCEPT ![i] = c]
          /\ UNCHANGED <<games, task>>
      BY <1>d, <2>9 DEF CycleCharge, rest
    <3>2. c.pc = "save" /\ c.copy = cycle[i].copy /\ c.read = cycle[i].read
          /\ c.then = cycle[i].then
      BY <1>c DEF Cycle
    <3> HIDE DEF c
    <3>3. /\ \A j \in Id : Runs(c.copy, j) => Runs(c.read, j)
          /\ c.then = "tick"
      BY <2>0, <3>1, <3>2 DEF Carried, Ending
    <3> QED
      BY <2>0, <3>1, <3>2, <3>3, CyclesOnly
  <2>10. CASE CycleTick(i)
    <3> DEFINE h == Tick(games[i])
               G == [games EXCEPT ![i] = h]
    <3>1. Has(i) /\ Hold(i, "save", G, "tick", 0) /\ UNCHANGED <<games, task>>
      BY <2>10 DEF CycleTick, rest
    <3>2. h.state = games[i].state
      BY <1>c, <3>1, TickTyped
    <3> HIDE DEF h
    <3>3. \A j \in Id : Runs(G, j) => Runs(games, j)
      BY <2>5, <3>1, <3>2
    <3> HIDE DEF G
    <3> QED
      BY <2>4, <3>1, <3>3
  <2>11. CASE CycleEnd(i)
    BY <2>2, <2>3, <2>11 DEF CycleEnd, rest
  <2>12. CASE FinishGame(i)
    <3> DEFINE h == Over(games[i])
               G == [games EXCEPT ![i] = h]
    <3>1. Has(i) /\ Hold(i, "save", G, "last", 0) /\ UNCHANGED <<games, task>>
      BY <2>12 DEF FinishGame, rest, Over
    <3>2. h.state = "Ended"
      BY <1>c, <3>1, TickTyped
    <3> HIDE DEF h
    <3>3. (\A j \in Id : Runs(G, j) => Runs(games, j)) /\ ~Runs(G, i)
      BY <2>5, <3>1, <3>2
    <3> HIDE DEF G
    <3> QED
      BY <2>4, <3>1, <3>3
  <2>13. CASE CycleLast(i)
    BY <2>3, <2>13 DEF CycleLast, rest
  <2>14. ASSUME NEW done, FinishFails(i, done)
         PROVE  Kept'
    BY <2>14 DEF FinishFails, Calm
  <2> QED
    BY <1>5, <2>6, <2>7, <2>8, <2>9, <2>10, <2>11, <2>12, <2>13, <2>14 DEF CycleGoes
<1>6. ASSUME NEW i \in Id, CycleSave(i)
      PROVE  Kept'
  <2>1. /\ cycle[i].pc = "save" /\ games' = cycle[i].copy /\ task' = task /\ Calm
        /\ games = cycle[i].read
        /\ cycle'[i] = [Off EXCEPT !.pc = cycle[i].then, !.steps = cycle[i].steps]
        /\ \A j \in Id \ {i} : cycle'[j] = cycle[j]
    BY <1>6, <1>d DEF CycleSave, Calm
  <2>2. cycle'[i].pc = cycle[i].then /\ cycle[i].then \in {"off", "count", "tick", "last"}
    BY <1>c, <2>1 DEF Off, Cycle
  <2>3. \A v \in User : Held(v)'
    BY <2>1 DEF Kept, Held
  <2>4. \A j \in Id : (Carried(j) /\ Ending(j))'
    <3>1. \A j \in Id : j = i => (Carried(j) /\ Ending(j))'
      BY <2>2 DEF Carried, Ending
    <3>2. \A j \in Id : j # i => (Carried(j) /\ Ending(j))'
      BY <2>1 DEF Kept, Carried, Ending
    <3> QED
      BY <3>1, <3>2, Zenon
  <2>5. \A j \in Id : Runs(games', j) => Runs(games, j)
    BY <2>1 DEF Kept, Carried
  <2>6. \A j \in Id : Driven(j)'
    <3> TAKE j \in Id
    <3>1. Driven(j) /\ Ending(i)
      BY <2>1 DEF Kept
    <3>2. Runs(games, j)' <=> Runs(games', j)
      OBVIOUS
    <3>3. Awaits(j)' <=> Awaits(j)
      BY <2>1 DEF Awaits
    <3>4. CASE j = i
      BY <2>1, <2>2, <3>1, <3>2, <3>4 DEF Driven, Ending
    <3>5. CASE j # i
      BY <2>1, <2>5, <3>1, <3>2, <3>3, <3>5 DEF Driven
    <3> QED
      BY <3>4, <3>5
  <2> QED
    BY <2>3, <2>4, <2>6 DEF Kept
<1>7. CASE UNCHANGED vars
  BY <1>7 DEF vars, flags, Kept, Calm, Held, Carried, Ending, Driven, Awaits
<1> QED
  BY <1>1, <1>2, <1>3, <1>4, <1>5, <1>6, <1>7, NextIs

\* A game that runs has a cycle that ends it (spawn_game_cycle_if_needed, run_game_cycle):
\* whatever handlers and cycles do in whatever order, unless a copy was lost, the game
\* was started again while its cycle ended, or its scores could not be written.
THEOREM GamesHaveCycles == Spec => []GameHasCycle
<1>1. Init => Typed /\ Kept
  BY TypedInit, KeptInit
<1>2. Typed /\ Kept /\ [Next]_vars => Typed' /\ Kept'
  BY TypedNext, KeptNext
<1>3. Typed /\ Kept => GameHasCycle
  <2> SUFFICES ASSUME Typed, Kept PROVE GameHasCycle
    OBVIOUS
  <2>1. DOMAIN games \subseteq Id
    BY TypedParts
  <2> QED
    BY <2>1 DEF Kept, Calm, Driven, Runs, Awaits, GameHasCycle
<1> QED
  BY <1>1, <1>2, <1>3, PTL DEF Spec

-----------------------------------------------------------------------------
(* A team some of whose players are gone                                   *)

\* The players of s are players of team, each at a place of its own there.
Sits(s, team, f) ==
  /\ f \in [DOMAIN s -> DOMAIN team]
  /\ \A m \in DOMAIN s : s[m] = team[f[m]]
  /\ \A m, n \in DOMAIN s : m # n => f[m] # f[n]
Part(s, team) == \E f \in [DOMAIN s -> DOMAIN team] : Sits(s, team, f)

\* A team is a part of itself.
LEMMA PartSelf ==
  ASSUME NEW team
  PROVE  Part(team, team)
<1> DEFINE f == [m \in DOMAIN team |-> m]
<1>1. f \in [DOMAIN team -> DOMAIN team] /\ Sits(team, team, f)
  BY DEF Sits
<1> QED
  BY <1>1 DEF Part

\* A part of a part is a part.
LEMMA PartOfPart ==
  ASSUME NEW s, NEW r, NEW team, Part(s, r), Part(r, team)
  PROVE  Part(s, team)
<1>1. PICK f \in [DOMAIN s -> DOMAIN r] : Sits(s, r, f)
  BY DEF Part
<1>2. PICK e \in [DOMAIN r -> DOMAIN team] : Sits(r, team, e)
  BY DEF Part
<1> DEFINE h == [m \in DOMAIN s |-> e[f[m]]]
<1>3. h \in [DOMAIN s -> DOMAIN team] /\ Sits(s, team, h)
  BY <1>1, <1>2 DEF Sits
<1> HIDE DEF h
<1> QED
  BY <1>3 DEF Part

\* The players of s are among the first k of the team.
Among(s, team, k) ==
  \E f \in [DOMAIN s -> 1 .. k] :
    /\ \A m \in DOMAIN s : s[m] = team[f[m]]
    /\ \A m, n \in DOMAIN s : m # n => f[m] # f[n]

\* One player more to look at: kept or not, the kept ones are among those looked at.
LEMMA AmongOne ==
  ASSUME NEW team \in Seq(Player), NEW k \in 1 .. Len(team), NEW s \in Seq(Player),
         Among(s, team, k - 1)
  PROVE  Among(s, team, k) /\ Among(Append(s, team[k]), team, k)
<1>1. PICK f \in [DOMAIN s -> 1 .. k - 1] :
        /\ \A m \in DOMAIN s : s[m] = team[f[m]]
        /\ \A m, n \in DOMAIN s : m # n => f[m] # f[n]
  BY DEF Among
<1>2. Among(s, team, k)
  <2>1. f \in [DOMAIN s -> 1 .. k]
    OBVIOUS
  <2> QED
    BY <1>1, <2>1 DEF Among
<1>3. Among(Append(s, team[k]), team, k)
  <2> DEFINE r == Append(s, team[k])
             h == [m \in 1 .. Len(s) + 1 |-> IF m \in 1 .. Len(s) THEN f[m] ELSE k]
  <2>1. /\ DOMAIN r = 1 .. Len(s) + 1 /\ Len(s) \in Nat /\ DOMAIN s = 1 .. Len(s)
        /\ \A m \in 1 .. Len(s) : r[m] = s[m]
        /\ r[Len(s) + 1] = team[k]
        /\ \A m \in 1 .. Len(s) + 1 : m \in 1 .. Len(s) \/ m = Len(s) + 1
    OBVIOUS
  <2>2. h \in [1 .. Len(s) + 1 -> 1 .. k]
    BY <2>1
  <2>3. \A m \in 1 .. Len(s) + 1 : h[m] = IF m \in 1 .. Len(s) THEN f[m] ELSE k
    OBVIOUS
  <2>4. \A m \in 1 .. Len(s) : f[m] \in 1 .. k - 1
    BY <2>1
  <2>5. \A m \in 1 .. Len(s) : f[m] # k
    BY <2>4
  <2> HIDE DEF r, h
  <2>6. \A m \in 1 .. Len(s) + 1 : r[m] = team[h[m]]
    <3> TAKE m \in 1 .. Len(s) + 1
    <3>1. CASE m \in 1 .. Len(s)
      BY <1>1, <2>1, <2>3, <3>1
    <3>2. CASE m \notin 1 .. Len(s)
      BY <2>1, <2>3, <3>2
    <3> QED
      BY <3>1, <3>2
  <2>7. \A m, n \in 1 .. Len(s) + 1 : m # n => h[m] # h[n]
    <3> TAKE m, n \in 1 .. Len(s) + 1
    <3>1. CASE m \in 1 .. Len(s) /\ n \in 1 .. Len(s)
      BY <1>1, <2>1, <2>3, <3>1
    <3>2. CASE m \in 1 .. Len(s) /\ n \notin 1 .. Len(s)
      BY <2>3, <2>5, <3>2
    <3>3. CASE m \notin 1 .. Len(s) /\ n \in 1 .. Len(s)
      BY <2>3, <2>5, <3>3
    <3>4. CASE m \notin 1 .. Len(s) /\ n \notin 1 .. Len(s)
      BY <2>1, <3>4
    <3> QED
      BY <3>1, <3>2, <3>3, <3>4
  <2>8. h \in [DOMAIN r -> 1 .. k] /\ (\A m \in DOMAIN r : r[m] = team[h[m]])
        /\ \A m, n \in DOMAIN r : m # n => h[m] # h[n]
    BY <2>1, <2>2, <2>6, <2>7, Zenon
  <2>9. Among(r, team, k)
    BY <2>8, Zenon DEF Among
  <2> QED
    BY <2>9 DEF r
<1> QED
  BY <1>2, <1>3

\* Without a user, a team is a part of what it was.
LEMMA WithoutPart ==
  ASSUME NEW team \in Seq(Player), NEW u
  PROVE  Part(Without(team, u), team)
<1>1. PICK f \in [0 .. Len(team) -> Seq(Player)] :
           /\ f[0] = <<>>
           /\ \A k \in 1 .. Len(team) :
                f[k] = IF team[k].user = u THEN f[k - 1] ELSE Append(f[k - 1], team[k])
           /\ f[Len(team)] = Without(team, u)
  BY WithoutLoop
<1> DEFINE P == {k \in Nat : k <= Len(team) => Among(f[k], team, k)}
<1>2. Len(team) \in Nat /\ DOMAIN team = 1 .. Len(team)
  OBVIOUS
<1>3. 0 \in P
  <2>1. Among(<<>>, team, 0)
    <3>1. <<>> \in [DOMAIN <<>> -> 1 .. 0] /\ DOMAIN <<>> = {}
      OBVIOUS
    <3> QED
      BY <3>1 DEF Among
  <2> QED
    BY <1>1, <2>1
<1>4. ASSUME NEW k \in Nat, k \in P
      PROVE  k + 1 \in P
  <2> SUFFICES ASSUME k + 1 <= Len(team) PROVE Among(f[k + 1], team, k + 1)
    OBVIOUS
  <2>1. k + 1 \in 1 .. Len(team) /\ k + 1 - 1 = k /\ k \in 0 .. Len(team) /\ k <= Len(team)
    BY <1>2
  <2>2. f[k] \in Seq(Player) /\ Among(f[k], team, k)
    BY <1>4, <2>1
  <2>3. f[k + 1] = IF team[k + 1].user = u THEN f[k] ELSE Append(f[k], team[k + 1])
    BY <1>1, <2>1
  <2>4. Among(f[k], team, k + 1) /\ Among(Append(f[k], team[k + 1]), team, k + 1)
    BY <2>1, <2>2, AmongOne
  <2> QED
    BY <2>3, <2>4
<1>5. Nat \subseteq P
  <2> HIDE DEF P
  <2> QED
    BY <1>3, <1>4, NatInduct
<1>6. Among(Without(team, u), team, Len(team))
  BY <1>1, <1>2, <1>5
<1> QED
  BY <1>2, <1>6 DEF Among, Part, Sits

\* Without the player at a place, too.
LEMMA RemovePart ==
  ASSUME NEW team \in Seq(Player), NEW n \in DOMAIN team
  PROVE  Part(RemoveAt(team, n), team) /\ RemoveAt(team, n) \in Seq(Player)
<1> DEFINE l == Len(team)
           r == RemoveAt(team, n)
           f == [m \in 1 .. l - 1 |-> IF m < n THEN m ELSE m + 1]
<1>1. l \in Nat /\ n \in 1 .. l /\ DOMAIN team = 1 .. l
  OBVIOUS
<1>2. r \in Seq(Player) /\ Len(r) = l - 1
      /\ \A m \in 1 .. l - 1 : r[m] = IF m < n THEN team[m] ELSE team[m + 1]
  <2> DEFINE a == SubSeq(team, 1, n - 1)
             b == SubSeq(team, n + 1, l)
  <2>1. r = a \o b
    BY DEF RemoveAt
  <2>2. a \in Seq(Player) /\ Len(a) = n - 1 /\ \A m \in 1 .. n - 1 : a[m] = team[m]
    BY <1>1
  <2>3. b \in Seq(Player) /\ Len(b) = l - n /\ \A m \in 1 .. l - n : b[m] = team[m + n]
    <3>1. b \in Seq(Player) /\ Len(b) = l - n
      BY <1>1
    <3>2. \A m \in 1 .. l - n : b[m] = team[n + 1 + m - 1]
      BY <1>1
    <3>3. \A m \in 1 .. l - n : n + 1 + m - 1 = m + n
      BY <1>1
    <3> QED
      BY <3>1, <3>2, <3>3
  <2> HIDE DEF a, b, r
  <2>4. r \in Seq(Player) /\ Len(r) = l - 1
    <3>1. a \o b \in Seq(Player) /\ Len(a \o b) = Len(a) + Len(b)
      <4>1. a \in Seq(Player) /\ b \in Seq(Player)
        BY <2>2, <2>3
      <4> QED
        BY <4>1
    <3>2. n - 1 + (l - n) = l - 1
      BY <1>1
    <3> QED
      BY <2>1, <2>2, <2>3, <3>1, <3>2
  <2>5. ASSUME NEW m \in 1 .. l - 1
        PROVE  r[m] = IF m < n THEN team[m] ELSE team[m + 1]
    <3>1. CASE m < n
      <4>1. r[m] = a[m] /\ m \in 1 .. n - 1
        BY <1>1, <2>1, <2>2, <2>3, <2>5, <3>1
      <4> QED
        BY <2>2, <3>1, <4>1
    <3>2. CASE ~(m < n)
      <4> DEFINE k == m - n + 1
      <4>1. r[m] = b[k] /\ k \in 1 .. l - n /\ k + n = m + 1
        BY <1>1, <2>1, <2>2, <2>3, <2>5, <3>2
      <4> HIDE DEF k
      <4>2. b[k] = team[k + n]
        BY <2>3, <4>1
      <4> QED
        BY <3>2, <4>1, <4>2
    <3> QED
      BY <3>1, <3>2
  <2> QED
    BY <2>4, <2>5
<1>3. DOMAIN r = 1 .. l - 1
  BY <1>2
<1> HIDE DEF r
<1>4. f \in [1 .. l - 1 -> 1 .. l] /\ \A m \in 1 .. l - 1 : f[m] = IF m < n THEN m ELSE m + 1
  BY <1>1
<1> HIDE DEF l, f
<1>5. \A m \in 1 .. l - 1 : r[m] = team[f[m]]
  BY <1>2, <1>4
<1>6. \A m, k \in 1 .. l - 1 : m # k => f[m] # f[k]
  BY <1>1, <1>4
<1>7. Sits(r, team, f) /\ f \in [DOMAIN r -> DOMAIN team]
  BY <1>1, <1>3, <1>4, <1>5, <1>6 DEF Sits
<1>8. Part(r, team)
  BY <1>7 DEF Part
<1> QED
  BY <1>2, <1>8 DEF r

\* Taking a user out leaves a part of every team.
LEMMA TakenPart ==
  ASSUME NEW g \in Game, NEW u \in User, NEW from
  PROVE  \A t \in TeamsOf(g) : Part(Taken(g, u, from).teams[t], g.teams[t])
<1> DEFINE fewer == [g.teams EXCEPT ![from] = Without(@, u)]
           twins == {t \in DOMAIN fewer : Plays(fewer[t], u)}
           twin == Min(twins)
           n == Min({m \in DOMAIN fewer[twin] : fewer[twin][m].user = u})
<1>1. fewer \in [TeamsOf(g) -> Seq(Player)] /\ g.teams \in [TeamsOf(g) -> Seq(Player)]
  BY GameTeams, WithoutTyped
<1>2. ASSUME twins # {}
      PROVE  twin \in TeamsOf(g) /\ n \in DOMAIN fewer[twin]
  <2>1. twins \in SUBSET Nat
    BY <1>1, GameTeams DEF Team
  <2>2. twin \in twins /\ twin \in TeamsOf(g)
    BY <1>1, <1>2, <2>1, MinIn
  <2>3. fewer[twin] \in Seq(Player) /\ Plays(fewer[twin], u)
    BY <1>1, <2>2
  <2> HIDE DEF twin, fewer
  <2> DEFINE M == {m \in DOMAIN fewer[twin] : fewer[twin][m].user = u}
  <2>4. M # {} /\ M \in SUBSET Nat
    BY <2>3 DEF Plays
  <2>5. n \in M
    <3> HIDE DEF M
    <3>1. Min(M) \in M
      BY <2>4, MinIn
    <3> QED
      BY <3>1 DEF M
  <2>6. n \in DOMAIN fewer[twin]
    BY <2>5
  <2> HIDE DEF n
  <2> QED
    BY <2>2, <2>6
<1>3. Taken(g, u, from).teams
        = IF g.owner = u \/ twins = {} THEN fewer
          ELSE [fewer EXCEPT ![twin] = RemoveAt(@, n)]
  BY DEF Taken
<1>4. \A t \in TeamsOf(g) : Part(fewer[t], g.teams[t])
  <2>1. ASSUME NEW t \in TeamsOf(g)
        PROVE  fewer[t] = g.teams[t] \/ fewer[t] = Without(g.teams[t], u)
    BY <1>1
  <2>2. \A t \in TeamsOf(g) : g.teams[t] \in Seq(Player)
    BY <1>1
  <2> HIDE DEF fewer
  <2> QED
    BY <2>1, <2>2, PartSelf, WithoutPart
<1> HIDE DEF fewer, twins, twin, n
<1>5. CASE g.owner = u \/ twins = {}
  BY <1>3, <1>4, <1>5
<1>6. CASE g.owner # u /\ twins # {}
  <2> DEFINE R == [fewer EXCEPT ![twin] = RemoveAt(@, n)]
  <2>1. Part(RemoveAt(fewer[twin], n), fewer[twin])
    BY <1>1, <1>2, <1>6, RemovePart
  <2>2. \A t \in TeamsOf(g) : R[t] = IF t = twin THEN RemoveAt(fewer[twin], n) ELSE fewer[t]
    BY <1>1
  <2> HIDE DEF R
  <2>3. \A t \in TeamsOf(g) : Part(R[t], fewer[t])
    BY <2>1, <2>2, PartSelf
  <2>4. \A t \in TeamsOf(g) : Part(R[t], g.teams[t])
    BY <1>4, <2>3, PartOfPart
  <2> QED
    BY <1>3, <1>6, <2>4 DEF R
<1> QED
  BY <1>5, <1>6

-----------------------------------------------------------------------------
(* No two players on one tile                                              *)

\* Players who stand apart do so when some of them are gone.
LEMMA ClearParts ==
  ASSUME NEW B, NEW teams, Clear(B, teams), NEW fewer, DOMAIN fewer = DOMAIN teams,
         \A t \in DOMAIN teams : Part(fewer[t], teams[t])
  PROVE  Clear(B, fewer)
<1>1. ASSUME NEW t \in DOMAIN teams
      PROVE  /\ Apart(fewer[t]) /\ \A m \in DOMAIN fewer[t] : fewer[t][m].at \in B
             /\ \A m \in DOMAIN fewer[t] : \E k \in DOMAIN teams[t] : fewer[t][m] = teams[t][k]
  <2>1. PICK f \in [DOMAIN fewer[t] -> DOMAIN teams[t]] : Sits(fewer[t], teams[t], f)
    BY DEF Part
  <2>2. Apart(teams[t]) /\ \A m \in DOMAIN teams[t] : teams[t][m].at \in B
    BY DEF Clear
  <2> QED
    BY <2>1, <2>2 DEF Sits, Apart
<1>2. ASSUME NEW i \in DOMAIN teams, NEW j \in DOMAIN teams, i # j,
             NEW m \in DOMAIN fewer[i], NEW n \in DOMAIN fewer[j]
      PROVE  fewer[i][m].at # fewer[j][n].at
  <2>1. PICK k \in DOMAIN teams[i] : fewer[i][m] = teams[i][k]
    BY <1>1
  <2>2. PICK l \in DOMAIN teams[j] : fewer[j][n] = teams[j][l]
    BY <1>1
  <2>3. teams[i][k].at # teams[j][l].at
    BY <1>2 DEF Clear
  <2> QED
    BY <2>1, <2>2, <2>3
<1> QED
  BY <1>1, <1>2 DEF Clear

\* A step leads to a tile that was free, and frees no other player's.
LEMMA ClearStep ==
  ASSUME NEW g \in Game, Neat(g), NEW t \in TeamsOf(g), NEW n \in DOMAIN g.teams[t],
         NEW h, NEW e, GoesOn(g, h, t, n, e)
  PROVE  Neat(h)
<1> DEFINE p == g.teams[t][n]
           q == h.teams[t][n]
<1>1. /\ TeamsOf(h) = TeamsOf(g) /\ \A s \in TeamsOf(g) : DOMAIN h.teams[s] = DOMAIN g.teams[s]
      /\ \A s \in TeamsOf(g) : \A m \in DOMAIN g.teams[s] :
           s # t \/ m # n => h.teams[s][m] = g.teams[s][m]
      /\ \/ q.at = p.at /\ h.blocked = g.blocked
         \/ q.at \in Arena \ g.blocked /\ h.blocked = (g.blocked \ {p.at}) \cup {q.at}
  BY DEF GoesOn, SameSeats, Others, OnePlayerOn
<1>2. /\ \A s \in TeamsOf(g) : \A m \in DOMAIN g.teams[s] : g.teams[s][m].at \in g.blocked
      /\ \A s \in TeamsOf(g) : \A m, k \in DOMAIN g.teams[s] :
           m # k => g.teams[s][m].at # g.teams[s][k].at
      /\ \A s, r \in TeamsOf(g) : s # r =>
           \A m \in DOMAIN g.teams[s], k \in DOMAIN g.teams[r] :
             g.teams[s][m].at # g.teams[r][k].at
  BY DEF Neat, Clear, Apart, TeamsOf
<1>3. ASSUME NEW s \in TeamsOf(g), NEW m \in DOMAIN g.teams[s], s # t \/ m # n
      PROVE  /\ h.teams[s][m].at = g.teams[s][m].at /\ h.teams[s][m].at \in h.blocked
             /\ h.teams[s][m].at # q.at
  <2>1. g.teams[s][m].at # p.at /\ g.teams[s][m].at \in g.blocked
    BY <1>2, <1>3
  <2> QED
    BY <1>1, <1>3, <2>1
<1>4. q.at \in h.blocked
  BY <1>1, <1>2
<1>5. ASSUME NEW s \in TeamsOf(g)
      PROVE  /\ Apart(h.teams[s])
             /\ \A m \in DOMAIN h.teams[s] : h.teams[s][m].at \in h.blocked
  <2>1. \A m, k \in DOMAIN g.teams[s] : m # k => h.teams[s][m].at # h.teams[s][k].at
    <3> TAKE m, k \in DOMAIN g.teams[s]
    <3>1. CASE s = t /\ m = n
      BY <1>3, <3>1
    <3>2. CASE s = t /\ k = n
      BY <1>3, <3>2
    <3>3. CASE s # t \/ (m # n /\ k # n)
      BY <1>2, <1>3, <3>3
    <3> QED
      BY <3>1, <3>2, <3>3
  <2>2. \A m \in DOMAIN g.teams[s] : h.teams[s][m].at \in h.blocked
    BY <1>3, <1>4
  <2> QED
    BY <1>1, <2>1, <2>2 DEF Apart
<1>6. ASSUME NEW s \in TeamsOf(g), NEW r \in TeamsOf(g), s # r,
             NEW m \in DOMAIN g.teams[s], NEW k \in DOMAIN g.teams[r]
      PROVE  h.teams[s][m].at # h.teams[r][k].at
  <2>1. CASE s = t /\ m = n
    BY <1>3, <1>6, <2>1
  <2>2. CASE r = t /\ k = n
    BY <1>3, <1>6, <2>2
  <2>3. CASE (s # t \/ m # n) /\ (r # t \/ k # n)
    BY <1>2, <1>3, <1>6, <2>3
  <2> QED
    BY <2>1, <2>2, <2>3
<1> QED
  BY <1>1, <1>5, <1>6 DEF Neat, Clear, TeamsOf

NeatGame == {g \in Game : g.state = "Started" => Neat(g)}

\* Every operation keeps players apart in a game that runs, but for start_game.
LEMMA NeatClosed == Closed(NeatGame)
<1>1. ASSUME NEW g \in NeatGame
      PROVE  g \in Game /\ (g.state = "Started" => Neat(g))
  BY DEF NeatGame
<1>2. \A g \in NeatGame, V \in SUBSET User : Viewed(g, V) \in NeatGame
  <2> TAKE g \in NeatGame, V \in SUBSET User
  <2>1. /\ Viewed(g, V) \in Game /\ Viewed(g, V).state = g.state
        /\ Viewed(g, V).teams = g.teams /\ Viewed(g, V).blocked = g.blocked
    BY <1>1, ViewedIs DEF SameRound
  <2> QED
    BY <1>1, <2>1 DEF NeatGame, Neat
<1>3. \A u \in User, n \in TeamAmounts : NewGame(u, n) \in NeatGame
  BY NewGameIs DEF NeatGame
<1>4. \A g \in NeatGame, u \in User : \A t \in TeamsOf(g) :
        g.state = "Waiting" => Joined(g, u, t) \in NeatGame
  BY <1>1, JoinedIs DEF NeatGame, SameRound
<1>5. \A g \in NeatGame, u \in User, s \in Team : \A t \in TeamsOf(g) :
        g.state = "Waiting" => MoveTo(g, u, s, t) \in NeatGame
  BY <1>1, MoveTyped DEF NeatGame
<1>6. \A g \in NeatGame, u \in User : \A t \in TeamsOf(g) : MoveOut(g, u, t) \in NeatGame
  <2> TAKE g \in NeatGame, u \in User
  <2> TAKE t \in TeamsOf(g)
  <2> DEFINE T == Taken(g, u, t).teams
             h == MoveOut(g, u, t)
  <2>1. g \in Game /\ h \in Game /\ h.state = g.state
    BY <1>1, MoveTyped
  <2>2. T \in [TeamsOf(g) -> Seq(Player)] /\ \A s \in TeamsOf(g) : Part(T[s], g.teams[s])
    BY <2>1, TakenTyped, TakenPart
  <2>3. h = [g EXCEPT !.teams = T]
    BY DEF MoveOut
  <2> HIDE DEF T, h
  <2>4. h.teams = T /\ h.blocked = g.blocked
    BY <2>1, <2>2, <2>3, TeamsChange
  <2>5. Neat(g) => Clear(g.blocked, T)
    BY <2>2, ClearParts DEF Neat, TeamsOf
  <2>6. h \in NeatGame
    BY <1>1, <2>1, <2>4, <2>5 DEF NeatGame, Neat
  <2> QED
    BY <2>6 DEF h
<1>7. \A g \in NeatGame, u \in User, goal \in Goal :
        g.state = "Started" => Aimed(g, u, goal) \in NeatGame
  <2> TAKE g \in NeatGame, u \in User, goal \in Goal
  <2> HAVE g.state = "Started"
  <2> DEFINE h == Aimed(g, u, goal)
  <2>1. goal \in Tile /\ g \in Game /\ Neat(g)
    BY <1>1, GamesAssumption
  <2>2. h \in Game /\ SameRound(g, h) /\ SameSeats(g, h) /\ h.blocked = g.blocked
        /\ \A s \in TeamsOf(g) : \A m \in DOMAIN g.teams[s] :
             h.teams[s][m].at = g.teams[s][m].at
    <3>1. /\ h \in Game /\ SameRound(g, h) /\ h.blocked = g.blocked
          /\ h.teams = [t \in TeamsOf(g) |-> Aim(g.teams[t], u, goal)]
          /\ TeamsOf(h) = TeamsOf(g)
      BY <2>1, AimedIs
    <3>2. \A s \in TeamsOf(g) : g.teams[s] \in Seq(Player)
      BY <2>1, GameTeams
    <3> HIDE DEF h
    <3>3. \A s \in TeamsOf(g) : /\ DOMAIN h.teams[s] = DOMAIN g.teams[s]
                                /\ \A m \in DOMAIN g.teams[s] :
                                     h.teams[s][m].at = g.teams[s][m].at
      BY <2>1, <3>1, <3>2, AimTyped
    <3> QED
      BY <3>1, <3>3 DEF SameSeats
  <2> HIDE DEF h
  <2>3. /\ DOMAIN h.teams = DOMAIN g.teams
        /\ \A s \in DOMAIN g.teams : DOMAIN h.teams[s] = DOMAIN g.teams[s]
        /\ \A s \in DOMAIN g.teams : \A m \in DOMAIN g.teams[s] :
             h.teams[s][m].at = g.teams[s][m].at
    BY <2>2 DEF SameSeats, TeamsOf
  <2>4. \A i \in DOMAIN g.teams : Apart(h.teams[i])
    BY <2>1, <2>3 DEF Neat, Clear, Apart
  <2>5. \A i \in DOMAIN g.teams : \A m \in DOMAIN h.teams[i] : h.teams[i][m].at \in g.blocked
    BY <2>1, <2>3 DEF Neat, Clear
  <2>6. \A i, j \in DOMAIN g.teams : i # j =>
          \A m \in DOMAIN h.teams[i], n \in DOMAIN h.teams[j] :
            h.teams[i][m].at # h.teams[j][n].at
    BY <2>1, <2>3 DEF Neat, Clear
  <2>7. Neat(h)
    BY <2>2, <2>3, <2>4, <2>5, <2>6 DEF Neat, Clear
  <2>8. h \in NeatGame
    BY <2>2, <2>7 DEF NeatGame
  <2> QED
    BY <2>8 DEF h
<1>8. ASSUME NEW g \in Game, Neat(g)
      PROVE  Neat(Moved(g))
  <2> DEFINE X == {h \in Game : SameSeats(g, h) /\ Neat(h)}
  <2>1. g \in X
    BY <1>8 DEF SameSeats
  <2>2. \A h \in X : h \in Game /\ SameSeats(g, h)
    OBVIOUS
  <2>3. ASSUME NEW h \in X, NEW t \in TeamsOf(h), NEW i \in DOMAIN h.teams[t]
        PROVE  Step(h, t, i) \in X
    <3>1. PICK e \in Nat : GoesOn(h, Step(h, t, i), t, i, e)
      BY StepGoesOn
    <3>2. Step(h, t, i) \in Game /\ SameSeats(h, Step(h, t, i))
      BY <3>1 DEF GoesOn
    <3>3. Neat(Step(h, t, i))
      BY <3>1, ClearStep
    <3> QED
      BY <3>2, <3>3 DEF SameSeats
  <2> HIDE DEF X
  <2>4. Moved(g) \in X
    BY <2>1, <2>2, <2>3, MovedIn
  <2> QED
    BY <2>4 DEF X
<1>9. ASSUME NEW g \in NeatGame, g.state = "Started"
      PROVE  Neat(Tick(g))
  <2>1. Neat(Moved(g)) /\ Tick(g).teams = Moved(g).teams /\ Tick(g).blocked = Moved(g).blocked
    BY <1>1, <1>8, <1>9, TickIs
  <2> QED
    BY <2>1 DEF Neat
<1>10. \A g \in NeatGame : Tick(g) \in Game => Tick(g) \in NeatGame
  BY <1>1, <1>9, TickTyped DEF NeatGame
<1>11. \A g \in NeatGame : Over(g) \in Game => Over(g) \in NeatGame
  BY <1>1, TickTyped DEF NeatGame
<1>12. \A g \in NeatGame : /\ Tick(g).left > 0 => Tick(g) \in NeatGame
                           /\ Tick(g).left = 0 => Tick(g) \in NeatGame /\ Over(g) \in NeatGame
  BY <1>1, <1>10, <1>11, TickTyped
<1> QED
  BY <1>2, <1>3, <1>4, <1>5, <1>6, <1>7, <1>12 DEF Closed

AllNeat == stacked \/ All(NeatGame)

\* And start_game sets them apart, unless its search fails.
LEMMA AllNeatNext ==
  Typed /\ AllNeat /\ [Next]_vars => AllNeat'
<1> SUFFICES ASSUME Typed, AllNeat, [Next]_vars, ~stacked' PROVE All(NeatGame)'
  BY DEF AllNeat
<1>1. ~stacked
  <2>1. UNCHANGED stacked \/ \E u \in User : Start(u)
    BY DEF Next, InLobby, CycleStep, EnterLobby, LeaveLobby, Disconnect, Checkout, ProcessCreate,
       SwitchTeam, Leave, Forget, Kick, SpawnCycle, EnterArena, Save, IngameMove, Begin, CycleBegin,
       CycleCount, CycleCounted, CycleCharge, CycleSave, CycleTick, CycleEnd, FinishGame,
       CycleLast, FinishFails, flags, vars
  <2>2. \A u \in User : Start(u) => (stacked' = (stacked \/ Placed(Mine(u)).full))
    BY DEF Start
  <2> QED
    BY <2>1, <2>2
<1>2. All(NeatGame)
  BY <1>1 DEF AllNeat
<1>3. ASSUME NEW u \in User, Start(u)
      PROVE  StartGame(Mine(u)) \in NeatGame
  <2>1. HasGame(u) /\ ~Placed(Mine(u)).full
    BY <1>3 DEF Start
  <2>2. Mine(u) \in Game
    BY <2>1, TypedParts DEF HasGame, Mine
  <2> QED
    BY <2>1, <2>2, StartGameIs DEF NeatGame
<1>4. NeatGame \in SUBSET Game
  BY DEF NeatGame
<1> QED
  BY <1>2, <1>3, <1>4, NeatClosed, AllNext

\* In a game that runs no two players stand on one tile, and the tiles they stand on are
\* closed to the others (assign_spawn_points, tick): whatever copies are lost, unless the
\* search for spawn tiles failed.
THEOREM NobodyCollides == Spec => []NoCollision
<1>1. Init => Typed /\ AllNeat
  <2>1. NoGames \in Tables(NeatGame)
    <3>1. NoGames \in [{} -> NeatGame]
      BY DEF NoGames
    <3> QED
      BY <3>1 DEF Tables
  <2>2. AtRest.copy = NoGames /\ Off.copy = NoGames
    BY DEF AtRest, Off
  <2> QED
    BY <2>1, <2>2, TypedInit DEF Init, AllNeat, All
<1>2. Typed /\ AllNeat /\ [Next]_vars => Typed' /\ AllNeat'
  BY TypedNext, AllNeatNext
<1>3. Typed /\ AllNeat => NoCollision
  <2> SUFFICES ASSUME Typed, All(NeatGame), NEW i \in DOMAIN games, games[i].state = "Started"
               PROVE  LET at(k) == games[i].teams[k[1]][k[2]].at
                      IN \A k, l \in Standing(games[i]) :
                           at(k) \in games[i].blocked /\ (k # l => at(k) # at(l))
    BY DEF AllNeat, NoCollision
  <2> DEFINE g == games[i]
             at(k) == g.teams[k[1]][k[2]].at
  <2>1. Neat(g)
    <3>1. g \in NeatGame
      BY TableChange DEF All
    <3> QED
      BY <3>1 DEF NeatGame
  <2> HIDE DEF g
  <2>2. ASSUME NEW k \in Standing(g), NEW l \in Standing(g)
        PROVE  at(k) \in g.blocked /\ (k # l => at(k) # at(l))
    <3>1. /\ k[1] \in DOMAIN g.teams /\ k[2] \in DOMAIN g.teams[k[1]]
          /\ l[1] \in DOMAIN g.teams /\ l[2] \in DOMAIN g.teams[l[1]]
          /\ k # l => k[1] # l[1] \/ k[2] # l[2]
      BY DEF Standing, TeamsOf
    <3>2. at(k) \in g.blocked
      BY <2>1, <3>1 DEF Neat, Clear
    <3>3. k[1] # l[1] => at(k) # at(l)
      BY <2>1, <3>1 DEF Neat, Clear
    <3>4. k[1] = l[1] /\ k[2] # l[2] => at(k) # at(l)
      BY <2>1, <3>1 DEF Neat, Clear, Apart
    <3> QED
      BY <3>1, <3>2, <3>3, <3>4
  <2> QED
    BY <2>2 DEF g
<1> QED
  BY <1>1, <1>2, <1>3, PTL DEF Spec

-----------------------------------------------------------------------------
(* What is looked up of a user                                             *)

EndOf(g, u, k) ==
  k = <<k[1], k[2]>> /\ k[1] \in TeamsOf(g) /\ k[2] \in DOMAIN g.teams[k[1]]
  /\ g.teams[k[1]][k[2]].user = u
ScoresAt(g, u) == [k \in Ends(g, u) |-> g.teams[k[1]][k[2]].score]

\* What is looked up of a user: the places, their number, and the points there.
LEMMA EndsAre ==
  ASSUME NEW g \in Game, NEW u
  PROVE  /\ \A k : k \in Ends(g, u) <=> EndOf(g, u, k)
         /\ IsFiniteSet(Ends(g, u)) /\ EndsOf(g, u) \in Nat
         /\ Natural(ScoresAt(g, u), Ends(g, u))
         /\ ScoreOf(g, u) = SumFunctionOnSet(ScoresAt(g, u), Ends(g, u))
         /\ ScoreOf(g, u) \in Nat
<1> DEFINE Part1(t) == {<<t, n>> : n \in {m \in DOMAIN g.teams[t] : g.teams[t][m].user = u}}
<1>1. \A k : k \in Ends(g, u) <=> EndOf(g, u, k)
  <2> TAKE k
  <2>1. k \in Ends(g, u) <=> \E t \in TeamsOf(g) : k \in Part1(t)
    BY DEF Ends
  <2>2. \A t : k \in Part1(t) <=> \E n \in DOMAIN g.teams[t] : g.teams[t][n].user = u /\ k = <<t, n>>
    OBVIOUS
  <2>3. \A t, n : <<t, n>>[1] = t /\ <<t, n>>[2] = n
    OBVIOUS
  <2> HIDE DEF Part1
  <2>4. ASSUME k \in Ends(g, u)
        PROVE  EndOf(g, u, k)
    <3>1. PICK t \in TeamsOf(g) : k \in Part1(t)
      BY <2>1, <2>4
    <3>2. PICK n \in DOMAIN g.teams[t] : g.teams[t][n].user = u /\ k = <<t, n>>
      BY <2>2, <3>1
    <3> QED
      BY <2>3, <3>2 DEF EndOf
  <2>5. ASSUME EndOf(g, u, k)
        PROVE  k \in Ends(g, u)
    <3>1. k[1] \in TeamsOf(g) /\ k[2] \in DOMAIN g.teams[k[1]]
          /\ g.teams[k[1]][k[2]].user = u /\ k = <<k[1], k[2]>>
      BY <2>5 DEF EndOf
    <3>2. k \in Part1(k[1])
      BY <2>2, <3>1
    <3> QED
      BY <2>1, <3>1, <3>2
  <2> QED
    BY <2>4, <2>5
<1>2. IsFiniteSet(Ends(g, u))
  <2>1. \A t \in TeamsOf(g) : IsFiniteSet(Part1(t))
    <3> TAKE t \in TeamsOf(g)
    <3> DEFINE N == {m \in DOMAIN g.teams[t] : g.teams[t][m].user = u}
    <3>1. PICK n \in Nat : DOMAIN g.teams[t] = 1 .. n
      BY GameTeams
    <3>2. IsFiniteSet(N)
      BY <3>1, FS_Interval, FS_Subset
    <3> DEFINE f == [m \in N |-> <<t, m>>]
    <3>3. Part1(t) = {f[m] : m \in N}
      OBVIOUS
    <3> HIDE DEF N, f, Part1
    <3> QED
      BY <3>2, <3>3, Pictures
  <2>2. IsFiniteSet({Part1(t) : t \in TeamsOf(g)})
    <3> DEFINE f == [t \in TeamsOf(g) |-> Part1(t)]
    <3> HIDE DEF Part1
    <3>1. {Part1(t) : t \in TeamsOf(g)} = {f[t] : t \in TeamsOf(g)}
      OBVIOUS
    <3>2. IsFiniteSet(TeamsOf(g))
      BY GameTeams
    <3> HIDE DEF f
    <3> QED
      BY <3>1, <3>2, Pictures
  <2> HIDE DEF Part1
  <2>3. IsFiniteSet(UNION {Part1(t) : t \in TeamsOf(g)})
    BY <2>1, <2>2, FS_UNION
  <2> QED
    BY <2>3 DEF Ends, Part1
<1>3. EndsOf(g, u) \in Nat
  BY <1>2, FS_CardinalityType DEF EndsOf
<1>4. \A k \in Ends(g, u) : g.teams[k[1]][k[2]].score \in Nat
  <2> TAKE k \in Ends(g, u)
  <2>1. k[1] \in TeamsOf(g) /\ k[2] \in DOMAIN g.teams[k[1]]
    BY <1>1 DEF EndOf
  <2> QED
    BY <2>1, PlayerIn, PlayerParts
<1>5. Natural(ScoresAt(g, u), Ends(g, u))
  BY <1>2, <1>4 DEF Natural, ScoresAt
<1>6. ScoreOf(g, u) = SumFunctionOnSet(ScoresAt(g, u), Ends(g, u))
  <2>1. DOMAIN ScoresAt(g, u) = Ends(g, u)
    BY DEF ScoresAt
  <2> QED
    BY <2>1 DEF ScoreOf, SumFunction, ScoresAt, SumFunctionOnSet, FoldFunction
<1> QED
  BY <1>1, <1>2, <1>3, <1>5, <1>6, SumNat

\* Who has no player has no points.
LEMMA NobodysScore ==
  ASSUME NEW g \in Game, NEW u, ~InTeam(g, u)
  PROVE  Ends(g, u) = {} /\ EndsOf(g, u) = 0 /\ ScoreOf(g, u) = 0
<1>1. \A k : ~EndOf(g, u, k)
  BY DEF EndOf, InTeam, Plays
<1>2. Ends(g, u) = {}
  BY <1>1, EndsAre
<1> QED
  BY <1>2, EndsAre, SumEmpty, FS_EmptySet DEF EndsOf

\* Players without points make a score of none.
LEMMA ScoreZero ==
  ASSUME NEW g \in Game, NEW u,
         \A t \in TeamsOf(g) : \A n \in DOMAIN g.teams[t] : g.teams[t][n].score = 0
  PROVE  ScoreOf(g, u) = 0
<1> DEFINE S == Ends(g, u)
           e == ScoresAt(g, u)
           Z == {R \in SUBSET S : SumFunctionOnSet(e, R) = 0}
<1>1. \A k \in S : e[k] = 0
  BY EndsAre DEF EndOf, ScoresAt
<1>2. Natural(e, S) /\ IsFiniteSet(S) /\ ScoreOf(g, u) = SumFunctionOnSet(e, S)
  BY EndsAre
<1> HIDE DEF e, S
<1>3. {} \in Z
  BY SumEmpty
<1>4. ASSUME NEW R \in SUBSET S, R # {}, \A x \in R : R \ {x} \in Z
      PROVE  R \in Z
  <2>1. PICK x \in R : TRUE
    BY <1>4
  <2>2. Natural(e, R)
    BY <1>2, FS_Subset DEF Natural
  <2>3. SumFunctionOnSet(e, R) = e[x] + SumFunctionOnSet(e, R \ {x})
    BY <2>1, <2>2, SumRemove
  <2>4. e[x] = 0 /\ SumFunctionOnSet(e, R \ {x}) = 0
    BY <1>1, <1>4, <2>1
  <2> QED
    BY <2>3, <2>4
<1>5. SUBSET S \subseteq Z
  <2> HIDE DEF Z
  <2> QED
    BY <1>2, <1>3, <1>4, SetInduct
<1>6. S \in Z
  BY <1>5
<1> QED
  BY <1>2, <1>6

\* The same players with more points have more.
LEMMA ScoreMore ==
  ASSUME NEW g \in Game, NEW h \in Game, SameSeats(g, h), NEW u,
         \A t \in TeamsOf(g) : \A n \in DOMAIN g.teams[t] :
           /\ h.teams[t][n].user = g.teams[t][n].user
           /\ g.teams[t][n].score <= h.teams[t][n].score
  PROVE  ScoreOf(g, u) <= ScoreOf(h, u) /\ Ends(h, u) = Ends(g, u)
<1>1. \A k : EndOf(g, u, k) <=> EndOf(h, u, k)
  BY DEF SameSeats, EndOf
<1>2. Ends(h, u) = Ends(g, u)
  BY <1>1, EndsAre
<1> DEFINE S == Ends(g, u)
           id == [k \in S |-> k]
<1>3. id \in [S -> S] /\ \A k \in S : id[k] = k
  OBVIOUS
<1>4. \A k \in S : ScoresAt(g, u)[k] <= ScoresAt(h, u)[k]
  <2> TAKE k \in S
  <2>1. k[1] \in TeamsOf(g) /\ k[2] \in DOMAIN g.teams[k[1]]
    BY EndsAre DEF EndOf
  <2>2. ScoresAt(g, u)[k] = g.teams[k[1]][k[2]].score
        /\ ScoresAt(h, u)[k] = h.teams[k[1]][k[2]].score
    BY <1>2 DEF ScoresAt
  <2> QED
    BY <2>1, <2>2
<1> HIDE DEF id
<1>5. SumFunctionOnSet(ScoresAt(g, u), S) <= SumFunctionOnSet(ScoresAt(h, u), S)
  <2>1. Natural(ScoresAt(g, u), S) /\ Natural(ScoresAt(h, u), S)
    BY <1>2, EndsAre
  <2> HIDE DEF S
  <2> QED
    BY <1>3, <1>4, <2>1, SumInto
<1> QED
  BY <1>2, <1>5, EndsAre

\* Fewer players have fewer points, and fewer places.
LEMMA ScoreFewer ==
  ASSUME NEW g \in Game, NEW h \in Game, TeamsOf(h) = TeamsOf(g), NEW u,
         \A t \in TeamsOf(g) : Part(h.teams[t], g.teams[t])
  PROVE  ScoreOf(h, u) <= ScoreOf(g, u) /\ EndsOf(h, u) <= EndsOf(g, u)
<1> DEFINE F(t) == CHOOSE f \in [DOMAIN h.teams[t] -> DOMAIN g.teams[t]] :
                     Sits(h.teams[t], g.teams[t], f)
           m == [k \in Ends(h, u) |-> <<k[1], F(k[1])[k[2]]>>]
<1>1. \A t \in TeamsOf(g) : /\ F(t) \in [DOMAIN h.teams[t] -> DOMAIN g.teams[t]]
                            /\ Sits(h.teams[t], g.teams[t], F(t))
  BY DEF Part
<1> HIDE DEF F
<1>2. ASSUME NEW k \in Ends(h, u)
      PROVE  /\ k = <<k[1], k[2]>> /\ m[k] = <<k[1], F(k[1])[k[2]]>>
             /\ m[k][1] = k[1] /\ m[k][2] = F(k[1])[k[2]]
             /\ k[1] \in TeamsOf(g) /\ k[2] \in DOMAIN h.teams[k[1]]
             /\ h.teams[k[1]][k[2]].user = u
             /\ F(k[1])[k[2]] \in DOMAIN g.teams[k[1]]
             /\ h.teams[k[1]][k[2]] = g.teams[k[1]][F(k[1])[k[2]]]
  <2>1. EndOf(h, u, k)
    BY EndsAre
  <2>2. k = <<k[1], k[2]>> /\ k[1] \in TeamsOf(g) /\ k[2] \in DOMAIN h.teams[k[1]]
        /\ h.teams[k[1]][k[2]].user = u
    BY <2>1 DEF EndOf
  <2>3. F(k[1]) \in [DOMAIN h.teams[k[1]] -> DOMAIN g.teams[k[1]]]
        /\ Sits(h.teams[k[1]], g.teams[k[1]], F(k[1]))
    BY <1>1, <2>2
  <2> QED
    BY <2>2, <2>3 DEF Sits
<1>3. \A k \in Ends(h, u) : m[k] \in Ends(g, u)
  <2> TAKE k \in Ends(h, u)
  <2> DEFINE l == m[k]
  <2>1. l = <<l[1], l[2]>> /\ l[1] \in TeamsOf(g) /\ l[2] \in DOMAIN g.teams[l[1]]
        /\ g.teams[l[1]][l[2]].user = u
    BY <1>2
  <2> HIDE DEF l
  <2>2. EndOf(g, u, l)
    BY <2>1 DEF EndOf
  <2> QED
    BY <2>2, EndsAre DEF l
<1>4. m \in [Ends(h, u) -> Ends(g, u)]
  BY <1>3
<1>5. ASSUME NEW k \in Ends(h, u), NEW l \in Ends(h, u), k # l
      PROVE  m[k] # m[l]
  <2>1. CASE k[1] # l[1]
    BY <1>2, <2>1
  <2>2. CASE k[1] = l[1]
    <3>1. k[2] # l[2]
      BY <1>2, <1>5, <2>2
    <3>2. F(k[1])[k[2]] # F(k[1])[l[2]]
      <4>1. Sits(h.teams[k[1]], g.teams[k[1]], F(k[1])) /\ k[2] \in DOMAIN h.teams[k[1]]
            /\ l[2] \in DOMAIN h.teams[k[1]]
        BY <1>1, <1>2, <2>2
      <4> QED
        BY <3>1, <4>1 DEF Sits
    <3> QED
      BY <1>2, <2>2, <3>2
  <2> QED
    BY <2>1, <2>2
<1>6. \A k \in Ends(h, u) : ScoresAt(h, u)[k] <= ScoresAt(g, u)[m[k]]
  <2> TAKE k \in Ends(h, u)
  <2>1. ScoresAt(h, u)[k] = h.teams[k[1]][k[2]].score
    BY DEF ScoresAt
  <2>2. ScoresAt(g, u)[m[k]] = g.teams[m[k][1]][m[k][2]].score
    BY <1>3 DEF ScoresAt
  <2>3. ScoresAt(h, u)[k] = ScoresAt(g, u)[m[k]]
    BY <1>2, <2>1, <2>2
  <2>4. ScoresAt(h, u)[k] \in Nat
    BY EndsAre DEF Natural
  <2> QED
    BY <2>3, <2>4
<1> HIDE DEF m
<1>7. SumFunctionOnSet(ScoresAt(h, u), Ends(h, u)) <= SumFunctionOnSet(ScoresAt(g, u), Ends(g, u))
  <2>1. Natural(ScoresAt(h, u), Ends(h, u)) /\ Natural(ScoresAt(g, u), Ends(g, u))
    BY EndsAre
  <2> QED
    BY <1>4, <1>5, <1>6, <2>1, SumInto
<1>8. EndsOf(h, u) <= EndsOf(g, u)
  <2>1. IsFiniteSet(Ends(g, u))
    BY EndsAre
  <2>2. m \in Injection(Ends(h, u), Ends(g, u))
    BY <1>4, <1>5 DEF Injection, IsInjective
  <2> QED
    BY <2>1, <2>2, FS_Injection DEF EndsOf
<1> QED
  BY <1>7, <1>8, EndsAre

-----------------------------------------------------------------------------
(* Tickets and points                                                      *)

\* The same players, none with fewer points.
Richer(g, h) ==
  /\ SameSeats(g, h)
  /\ \A t \in TeamsOf(g) : \A n \in DOMAIN g.teams[t] :
       /\ h.teams[t][n].user = g.teams[t][n].user
       /\ g.teams[t][n].score <= h.teams[t][n].score

\* A step makes nobody poorer.
LEMMA RicherStep ==
  ASSUME NEW g \in Game, NEW h, NEW t \in TeamsOf(g), NEW n \in DOMAIN g.teams[t],
         NEW e \in Nat, GoesOn(g, h, t, n, e)
  PROVE  Richer(g, h)
<1>1. SameSeats(g, h) /\ Others(g, h, t, n) /\ OnePlayerOn(g, h, t, n, e)
  BY DEF GoesOn
<1>2. ASSUME NEW s \in TeamsOf(g), NEW m \in DOMAIN g.teams[s]
      PROVE  /\ h.teams[s][m].user = g.teams[s][m].user
             /\ g.teams[s][m].score <= h.teams[s][m].score
  <2>1. g.teams[s][m].score \in Nat
    BY PlayerIn, PlayerParts
  <2>2. CASE s = t /\ m = n
    BY <1>1, <2>1, <2>2 DEF OnePlayerOn
  <2>3. CASE s # t \/ m # n
    BY <1>1, <2>1, <2>3 DEF Others
  <2> QED
    BY <2>2, <2>3
<1> QED
  BY <1>1, <1>2 DEF Richer

\* Twice richer is richer.
LEMMA RicherStill ==
  ASSUME NEW g \in Game, NEW h \in Game, NEW k \in Game, Richer(g, h), Richer(h, k)
  PROVE  Richer(g, k)
<1>1. SameSeats(g, k)
  BY DEF Richer, SameSeats
<1>2. ASSUME NEW s \in TeamsOf(g), NEW m \in DOMAIN g.teams[s]
      PROVE  /\ k.teams[s][m].user = g.teams[s][m].user
             /\ g.teams[s][m].score <= k.teams[s][m].score
  <2>1. s \in TeamsOf(h) /\ m \in DOMAIN h.teams[s] /\ s \in TeamsOf(k) /\ m \in DOMAIN k.teams[s]
    BY <1>1 DEF Richer, SameSeats
  <2>2. g.teams[s][m].score \in Nat /\ h.teams[s][m].score \in Nat /\ k.teams[s][m].score \in Nat
    BY <2>1, PlayerIn, PlayerParts
  <2> QED
    BY <2>1, <2>2 DEF Richer
<1> QED
  BY <1>1, <1>2 DEF Richer

\* A tick makes nobody poorer.
LEMMA TickScore ==
  ASSUME NEW g \in Game, Tick(g) \in Game
  PROVE  /\ Richer(g, Tick(g))
         /\ \A u : ScoreOf(g, u) <= ScoreOf(Tick(g), u) /\ Ends(Tick(g), u) = Ends(g, u)
<1> DEFINE X == {h \in Game : Richer(g, h)}
<1>0. Richer(g, g)
  <2>1. \A t \in TeamsOf(g) : \A n \in DOMAIN g.teams[t] : g.teams[t][n].score \in Nat
    BY PlayerIn, PlayerParts
  <2> QED
    BY <2>1 DEF Richer, SameSeats
<1>1. g \in X /\ \A h \in X : h \in Game /\ SameSeats(g, h)
  BY <1>0 DEF Richer
<1>2. ASSUME NEW h \in X, NEW t \in TeamsOf(h), NEW i \in DOMAIN h.teams[t]
      PROVE  Step(h, t, i) \in X
  <2>1. PICK e \in Nat : GoesOn(h, Step(h, t, i), t, i, e)
    BY StepGoesOn
  <2>2. Step(h, t, i) \in Game /\ Richer(h, Step(h, t, i))
    BY <2>1, RicherStep DEF GoesOn
  <2> QED
    BY <2>2, RicherStill
<1> HIDE DEF X
<1>3. Moved(g) \in X
  BY <1>1, <1>2, MovedIn
<1>4. Richer(g, Moved(g))
  BY <1>3 DEF X
<1>5. Tick(g).teams = IF g.state = "Started" THEN Moved(g).teams ELSE g.teams
  BY TickTyped
<1>6. Richer(g, Tick(g))
  <2>1. \A h, k : h.teams = k.teams => (Richer(g, h) <=> Richer(g, k))
    BY DEF Richer, SameSeats, TeamsOf
  <2> QED
    BY <1>0, <1>4, <1>5, <2>1
<1>7. ASSUME NEW u
      PROVE  ScoreOf(g, u) <= ScoreOf(Tick(g), u) /\ Ends(Tick(g), u) = Ends(g, u)
  BY <1>6, ScoreMore DEF Richer
<1> QED
  BY <1>6, <1>7

Purses ==
  /\ tickets \in [User -> Int] /\ points \in [User -> Nat] /\ scored \in [User -> Nat]
  /\ \A i \in Id : cycle[i].pc \in {"take", "save"} => i \in DOMAIN cycle[i].copy

\* Tickets and points stay numbers, and a cycle that charges has its game.
LEMMA PursesNext ==
  Typed /\ Purses /\ [Next]_vars => Purses'
<1> SUFFICES ASSUME Typed, Purses, [Next]_vars PROVE Purses'
  OBVIOUS
<1>0. tickets \in [User -> Int] /\ points \in [User -> Nat] /\ scored \in [User -> Nat]
  BY DEF Purses
<1>d. DOMAIN cycle = Id
  BY DEF Typed
<1>1. UNCHANGED <<purse, cycle>> => Purses'
  BY DEF Purses, purse
<1>2. ASSUME NEW u \in User, Handler(u) \/ Forget(u) \/ Save(u)
      PROVE  Purses'
  <2>1. CASE Handler(u)
    <3>1. UNCHANGED purse
      <4>1. CASE \/ EnterLobby(u) \/ LeaveLobby(u) \/ (\E i \in Id : Checkout(u, i))
                 \/ (\E n \in TeamAmounts : ProcessCreate(u, n))
                 \/ (\E t \in Team : SwitchTeam(u, t))
                 \/ Leave(u) \/ EnterArena(u) \/ (\E uid : Kick(u, uid))
                 \/ (\E goal \in Goal : IngameMove(u, goal))
        BY <4>1 DEF EnterLobby, LeaveLobby, Checkout, ProcessCreate, SwitchTeam, Leave,
           EnterArena, IngameMove, Kick, Begin
      <4>2. CASE Disconnect(u) \/ Start(u)
        BY <4>2 DEF Disconnect, Start
      <4> QED
        BY <2>1, <4>1, <4>2 DEF Handler
    <3>2. UNCHANGED cycle
      <4>1. CASE \/ EnterLobby(u) \/ LeaveLobby(u) \/ (\E i \in Id : Checkout(u, i))
                 \/ (\E n \in TeamAmounts : ProcessCreate(u, n))
                 \/ (\E t \in Team : SwitchTeam(u, t))
                 \/ Leave(u) \/ EnterArena(u) \/ (\E uid : Kick(u, uid))
                 \/ (\E goal \in Goal : IngameMove(u, goal))
        BY <4>1 DEF EnterLobby, LeaveLobby, Checkout, ProcessCreate, SwitchTeam, Leave,
           EnterArena, IngameMove, Kick, Begin
      <4>2. CASE Disconnect(u) \/ Start(u)
        BY <4>2 DEF Disconnect, Start
      <4> QED
        BY <2>1, <4>1, <4>2 DEF Handler
    <3> QED
      BY <1>1, <3>1, <3>2
  <2>2. CASE Forget(u) \/ Save(u)
    BY <1>1, <2>2 DEF Forget, Save
  <2> QED
    BY <1>2, <2>1, <2>2
<1>3. ASSUME NEW u \in User, SpawnCycle(u)
      PROVE  Purses'
  <2> DEFINE i == task[u].start
  <2>1. UNCHANGED purse
        /\ (cycle' = cycle \/ (cycle[i].pc = "off" /\ cycle' = [cycle EXCEPT ![i].pc = "begin"]))
    BY <1>3 DEF SpawnCycle
  <2>2. \A j \in Id : DOMAIN cycle[j] = {"pc", "then", "steps", "copy", "read"}
    BY TypedParts DEF Cycle
  <2> HIDE DEF i
  <2>3. \A j \in Id : cycle'[j].pc \in {"take", "save"} =>
          cycle[j].pc \in {"take", "save"} /\ cycle'[j].copy = cycle[j].copy
    BY <1>d, <2>1, <2>2
  <2> QED
    BY <2>1, <2>3 DEF Purses, purse
<1>4. ASSUME NEW i \in Id, CycleGoes(i)
      PROVE  Purses'
  <2>1. /\ \A j \in Id : cycle[j].pc \in {"take", "save"} => i \in Id
        /\ games \in Tables(Game)
        /\ Has(i) => games[i] \in Game /\ i \in DOMAIN games
    BY TypedParts DEF Has
  <2>2. ASSUME NEW c, cycle' = [cycle EXCEPT ![i] = c],
               c.pc \in {"take", "save"} => i \in DOMAIN c.copy
        PROVE  \A j \in Id : cycle'[j].pc \in {"take", "save"} => j \in DOMAIN cycle'[j].copy
    BY <1>d, <2>2 DEF Purses
  <2>3. Stop(i) => \A j \in Id : cycle'[j].pc \in {"take", "save"} => j \in DOMAIN cycle'[j].copy
    <3>1. Off.pc = "off"
      BY DEF Off
    <3> QED
      BY <2>2, <3>1 DEF Stop
  <2>4. ASSUME NEW p, NEW G, NEW t, NEW n, Hold(i, p, G, t, n), Has(i), DOMAIN G = DOMAIN games
        PROVE  \A j \in Id : cycle'[j].pc \in {"take", "save"} => j \in DOMAIN cycle'[j].copy
    <3> DEFINE c == [pc |-> p, copy |-> G, read |-> games, then |-> t, steps |-> n]
    <3>1. cycle' = [cycle EXCEPT ![i] = c] /\ i \in DOMAIN c.copy
      BY <2>1, <2>4 DEF Hold
    <3> HIDE DEF c
    <3> QED
      BY <2>2, <3>1
  <2>5. CASE CycleBegin(i)
    <3> DEFINE n == IF Has(i) THEN Countdown ELSE 0
               c == [cycle[i] EXCEPT !.pc = "count", !.steps = n]
    <3>1. c.pc = "count"
      BY TypedParts DEF Cycle
    <3>2. cycle' = [cycle EXCEPT ![i] = c] /\ UNCHANGED purse
      BY <1>d, <2>5 DEF CycleBegin
    <3> HIDE DEF c
    <3> QED
      BY <1>0, <2>2, <3>1, <3>2 DEF Purses, purse
  <2>6. CASE CycleCount(i) \/ CycleCounted(i)
    <3>1. UNCHANGED purse /\ (Stop(i) \/ (Has(i) /\ \E p, t, n : Hold(i, p, games, t, n)))
      BY <2>6 DEF CycleCount, CycleCounted
    <3> QED
      BY <1>0, <2>3, <2>4, <3>1 DEF Purses, purse
  <2>7. CASE CycleCharge(i)
    <3> DEFINE c == [cycle[i] EXCEPT !.pc = "save"]
    <3>1. /\ cycle[i].pc = "take" /\ cycle' = [cycle EXCEPT ![i] = c]
          /\ UNCHANGED <<points, scored>>
          /\ tickets' = [u \in User |-> tickets[u] - 2 * EndsOf(cycle[i].copy[i], u)]
      BY <1>d, <2>7 DEF CycleCharge
    <3>2. i \in DOMAIN cycle[i].copy
      BY <3>1 DEF Purses
    <3>3. cycle[i].copy[i] \in Game
      BY <3>2, TypedParts, TableChange
    <3>4. c.copy = cycle[i].copy
      BY TypedParts DEF Cycle
    <3> HIDE DEF c
    <3>5. \A u \in User : tickets[u] \in Int /\ EndsOf(cycle[i].copy[i], u) \in Nat
      BY <1>0, <3>3, EndsAre
    <3>6. tickets' \in [User -> Int]
      BY <3>1, <3>5
    <3> QED
      BY <1>0, <2>2, <3>1, <3>2, <3>4, <3>6 DEF Purses
  <2>8. ASSUME Has(i), Scored(games[i]), Tick(games[i]) \in Game
        PROVE  scored' \in [User -> Nat]
    <3>1. \A u \in User : /\ scored[u] \in Nat /\ ScoreOf(games[i], u) \in Nat
                          /\ ScoreOf(Tick(games[i]), u) \in Nat
                          /\ ScoreOf(games[i], u) <= ScoreOf(Tick(games[i]), u)
      BY <1>0, <2>1, <2>8, EndsAre, TickScore
    <3>2. \A u \in User : scored[u] + ScoreOf(Tick(games[i]), u) - ScoreOf(games[i], u) \in Nat
      BY <3>1
    <3> QED
      BY <2>8, <3>2 DEF Scored
  <2>9. Has(i) /\ Tick(games[i]).left >= 0 => Tick(games[i]) \in Game
    BY <2>1, TickTyped
  <2>10. CASE CycleTick(i)
    <3> DEFINE G == [games EXCEPT ![i] = Tick(@)]
    <3>1. /\ Has(i) /\ Tick(games[i]).left > 0 /\ Scored(games[i])
          /\ Hold(i, "save", G, "tick", 0) /\ UNCHANGED <<tickets, points>>
      BY <2>10 DEF CycleTick
    <3>2. DOMAIN G = DOMAIN games /\ Tick(games[i]).left >= 0
      BY <2>1, <3>1, TickTyped
    <3> HIDE DEF G
    <3> QED
      BY <1>0, <2>4, <2>8, <2>9, <3>1, <3>2 DEF Purses
  <2>11. CASE CycleEnd(i) \/ CycleLast(i)
    BY <1>0, <2>3, <2>11 DEF CycleEnd, CycleLast, Purses, purse
  <2>12. ASSUME Has(i), Tick(games[i]).left = 0
         PROVE  \A u \in User : points[u] + ScoreOf(Tick(games[i]), u) \in Nat
    BY <1>0, <2>9, <2>12, EndsAre
  <2>13. CASE FinishGame(i)
    <3> DEFINE G == [games EXCEPT ![i] = [Tick(games[i]) EXCEPT !.state = "Ended"]]
    <3>1. /\ Has(i) /\ Tick(games[i]).left = 0 /\ Scored(games[i])
          /\ Hold(i, "save", G, "last", 0) /\ UNCHANGED tickets
          /\ points' = [u \in User |-> points[u] + ScoreOf(Tick(games[i]), u)]
      BY <2>13 DEF FinishGame
    <3>2. DOMAIN G = DOMAIN games
      BY <2>1, <3>1
    <3>3. points' \in [User -> Nat]
      BY <2>12, <3>1
    <3> HIDE DEF G
    <3> QED
      BY <1>0, <2>4, <2>8, <2>9, <3>1, <3>2, <3>3 DEF Purses
  <2>14. ASSUME NEW done, FinishFails(i, done)
         PROVE  Purses'
    <3> DEFINE G == [games EXCEPT ![i] = Tick(games[i])]
    <3>1. /\ Has(i) /\ Tick(games[i]).left = 0 /\ Scored(games[i])
          /\ Hold(i, "save", G, "last", 0) /\ UNCHANGED tickets
          /\ points' = [u \in User |->
               points[u] + (IF u \in done THEN ScoreOf(Tick(games[i]), u) ELSE 0)]
      BY <2>14 DEF FinishFails
    <3>2. DOMAIN G = DOMAIN games
      BY <2>1, <3>1
    <3>3. points' \in [User -> Nat]
      BY <1>0, <2>12, <3>1
    <3> HIDE DEF G
    <3> QED
      BY <1>0, <2>4, <2>8, <2>9, <3>1, <3>2, <3>3 DEF Purses
  <2> QED
    BY <1>4, <2>5, <2>6, <2>7, <2>10, <2>11, <2>13, <2>14 DEF CycleGoes
<1>5. ASSUME NEW i \in Id, CycleSave(i)
      PROVE  Purses'
  <2>1. /\ UNCHANGED purse
        /\ cycle' = [cycle EXCEPT ![i] = [Off EXCEPT !.pc = cycle[i].then, !.steps = cycle[i].steps]]
        /\ cycle[i].then \in {"off", "count", "tick", "last"}
    BY <1>5, TypedParts DEF CycleSave
  <2>2. cycle'[i].pc = cycle[i].then /\ \A j \in Id \ {i} : cycle'[j] = cycle[j]
    BY <1>d, <2>1 DEF Off
  <2>3. \A j \in Id : cycle'[j].pc \in {"take", "save"} => cycle'[j] = cycle[j]
    BY <2>1, <2>2
  <2> QED
    BY <2>1, <2>3 DEF Purses, purse
<1>6. CASE UNCHANGED vars
  BY <1>1, <1>6 DEF vars
<1> QED
  BY <1>2, <1>3, <1>4, <1>5, <1>6, NextIs

\* Whatever is done, and in whatever order: the lobby, the sessions, the copies on their
\* way and the purses stay well typed, with one to four teams in every game.
THEOREM TypeCorrect == Spec => []TypeOK
<1>1. Init => Typed /\ Purses
  <2>1. Init => tickets \in [User -> Int] /\ points \in [User -> Nat] /\ scored \in [User -> Nat]
    BY GamesAssumption DEF Init
  <2>2. Init => \A i \in Id : cycle[i].pc \notin {"take", "save"}
    BY DEF Init, Off
  <2> QED
    BY <2>1, <2>2, TypedInit DEF Purses
<1>2. Typed /\ Purses /\ [Next]_vars => Typed' /\ Purses'
  BY TypedNext, PursesNext
<1>3. Typed /\ Purses => TypeOK
  <2> SUFFICES ASSUME Typed, Purses PROVE TypeOK
    OBVIOUS
  <2>1. \A G \in Tables(Game) : IsTable(G)
    BY TableIs DEF IsTable
  <2>2. starts \in 0 .. MaxStarts /\ loose \subseteq User /\ sess \in [User -> Session]
    BY DEF Typed
  <2> QED
    BY <2>1, <2>2, TypedParts DEF TypeOK, Purses
<1> QED
  BY <1>1, <1>2, <1>3, PTL DEF Spec

-----------------------------------------------------------------------------
(* Who moves                                                               *)

\* The player who moves is the user's: one who was there, or one without points.
LEMMA TakenPlayer ==
  ASSUME NEW g \in Game, NEW u \in User, NEW from
  PROVE  /\ Taken(g, u, from).player.user = u
         /\ \/ Taken(g, u, from).player.score = 0
            \/ \E t \in TeamsOf(g) : \E n \in DOMAIN g.teams[t] :
                 Taken(g, u, from).player = g.teams[t][n]
<1> DEFINE fewer == [g.teams EXCEPT ![from] = Without(@, u)]
           twins == {t \in DOMAIN fewer : Plays(fewer[t], u)}
           twin == Min(twins)
           n == Min({m \in DOMAIN fewer[twin] : fewer[twin][m].user = u})
<1>1. fewer \in [TeamsOf(g) -> Seq(Player)]
  BY GameTeams, WithoutTyped
<1>2. ASSUME twins # {}
      PROVE  twin \in TeamsOf(g) /\ n \in DOMAIN fewer[twin] /\ fewer[twin][n].user = u
  <2>1. twins \in SUBSET Nat
    BY <1>1, GameTeams DEF Team
  <2>2. twin \in twins /\ twin \in TeamsOf(g)
    BY <1>1, <1>2, <2>1, MinIn
  <2>3. fewer[twin] \in Seq(Player) /\ Plays(fewer[twin], u)
    BY <1>1, <2>2
  <2> HIDE DEF twin, fewer
  <2> DEFINE M == {m \in DOMAIN fewer[twin] : fewer[twin][m].user = u}
  <2>4. M # {} /\ M \in SUBSET Nat
    BY <2>3 DEF Plays
  <2>5. n \in M
    <3> HIDE DEF M
    <3>1. Min(M) \in M
      BY <2>4, MinIn
    <3> QED
      BY <3>1 DEF M
  <2>6. n \in DOMAIN fewer[twin] /\ fewer[twin][n].user = u
    BY <2>5
  <2> HIDE DEF n
  <2> QED
    BY <2>2, <2>6
<1>3. Taken(g, u, from)
        = IF g.owner = u THEN [teams |-> fewer, player |-> GamePlayer(u)]
          ELSE IF twins = {} THEN [teams |-> fewer, player |-> NewPlayer(u, 0)]
          ELSE [teams |-> [fewer EXCEPT ![twin] = RemoveAt(@, n)], player |-> fewer[twin][n]]
  BY DEF Taken
<1>4. \A t \in TeamsOf(g) : Part(fewer[t], g.teams[t])
  <2>1. g.teams \in [TeamsOf(g) -> Seq(Player)]
    BY GameTeams
  <2>2. ASSUME NEW t \in TeamsOf(g)
        PROVE  fewer[t] = g.teams[t] \/ fewer[t] = Without(g.teams[t], u)
    BY <2>1
  <2> HIDE DEF fewer
  <2> QED
    BY <2>1, <2>2, PartSelf, WithoutPart
<1> HIDE DEF fewer, twins, twin, n
<1>5. CASE g.owner = u \/ twins = {}
  <2>1. \A m : NewPlayer(u, m).user = u /\ NewPlayer(u, m).score = 0
    BY DEF NewPlayer
  <2> QED
    BY <1>3, <1>5, <2>1 DEF GamePlayer
<1>6. CASE g.owner # u /\ twins # {}
  <2>1. Taken(g, u, from).player = fewer[twin][n]
    BY <1>3, <1>6
  <2>2. \E m \in DOMAIN g.teams[twin] : fewer[twin][n] = g.teams[twin][m]
    BY <1>2, <1>4, <1>6 DEF Part, Sits
  <2> QED
    BY <1>2, <1>6, <2>1, <2>2
<1> QED
  BY <1>5, <1>6

\* A team that a user moves to has the player last, if it is not there yet.
LEMMA MoveToIs ==
  ASSUME NEW g \in Game, NEW u \in User, NEW from, NEW to \in TeamsOf(g)
  PROVE  LET k == Taken(g, u, from)
             h == MoveTo(g, u, from, to)
         IN /\ h \in Game /\ SameRound(g, h) /\ h.scores = g.scores /\ TeamsOf(h) = TeamsOf(g)
            /\ \A t \in TeamsOf(g) : \/ h.teams[t] = k.teams[t] /\ (t = to => Plays(h.teams[t], u))
                                     \/ t = to /\ h.teams[t] = Append(k.teams[t], k.player)
                                        /\ ~Plays(k.teams[t], u)
<1> DEFINE k == Taken(g, u, from)
           T == IF Plays(k.teams[to], u) THEN k.teams
                ELSE [k.teams EXCEPT ![to] = Append(@, k.player)]
<1>1. k.teams \in [TeamsOf(g) -> Seq(Player)] /\ k.player \in Player
  BY TakenTyped
<1>2. MoveTo(g, u, from, to) = [g EXCEPT !.teams = T]
  BY DEF MoveTo
<1> HIDE DEF k
<1>3. T \in [TeamsOf(g) -> Seq(Player)]
  BY <1>1
<1>4. \A t \in TeamsOf(g) : \/ T[t] = k.teams[t] /\ (t = to => Plays(T[t], u))
                            \/ t = to /\ T[t] = Append(k.teams[t], k.player)
                               /\ ~Plays(k.teams[t], u)
  BY <1>1
<1> HIDE DEF T
<1>5. /\ [g EXCEPT !.teams = T] \in Game /\ [g EXCEPT !.teams = T].teams = T
      /\ SameRound(g, [g EXCEPT !.teams = T])
      /\ [g EXCEPT !.teams = T].scores = g.scores
      /\ TeamsOf([g EXCEPT !.teams = T]) = TeamsOf(g)
  BY <1>3, TeamsChange DEF SameRound
<1> QED
  BY <1>2, <1>4, <1>5 DEF k

\* Who is taken out leaves a part of every team, and the game as it was otherwise.
LEMMA MoveOutIs ==
  ASSUME NEW g \in Game, NEW u \in User, NEW from
  PROVE  LET h == MoveOut(g, u, from)
         IN /\ h \in Game /\ SameRound(g, h) /\ h.scores = g.scores /\ TeamsOf(h) = TeamsOf(g)
            /\ h.teams = Taken(g, u, from).teams
            /\ \A t \in TeamsOf(g) : Part(h.teams[t], g.teams[t])
<1> DEFINE T == Taken(g, u, from).teams
<1>1. T \in [TeamsOf(g) -> Seq(Player)] /\ \A t \in TeamsOf(g) : Part(T[t], g.teams[t])
  BY TakenTyped, TakenPart
<1>2. MoveOut(g, u, from) = [g EXCEPT !.teams = T]
  BY DEF MoveOut
<1> HIDE DEF T
<1>3. /\ [g EXCEPT !.teams = T] \in Game /\ [g EXCEPT !.teams = T].teams = T
      /\ SameRound(g, [g EXCEPT !.teams = T])
      /\ [g EXCEPT !.teams = T].scores = g.scores
      /\ TeamsOf([g EXCEPT !.teams = T]) = TeamsOf(g)
  BY <1>1, TeamsChange DEF SameRound
<1> QED
  BY <1>1, <1>2, <1>3 DEF T

-----------------------------------------------------------------------------
(* The points of a team                                                    *)

PointsIn(team) == [n \in DOMAIN team |-> team[n].score]
TeamPoints(team) == SumFunction(PointsIn(team))

\* The points of a team are a number.
LEMMA PointsAre ==
  ASSUME NEW team \in Seq(Player)
  PROVE  /\ Natural(PointsIn(team), DOMAIN team)
         /\ TeamPoints(team) = SumFunctionOnSet(PointsIn(team), DOMAIN team)
         /\ TeamPoints(team) \in Nat
<1>1. \A n \in DOMAIN team : team[n].score \in Nat
  BY PlayerParts
<1>2. IsFiniteSet(DOMAIN team)
  <2>1. PICK n \in Nat : DOMAIN team = 1 .. n
    OBVIOUS
  <2> QED
    BY <2>1, FS_Interval
<1>3. Natural(PointsIn(team), DOMAIN team)
  BY <1>1, <1>2 DEF Natural, PointsIn
<1>4. TeamPoints(team) = SumFunctionOnSet(PointsIn(team), DOMAIN team)
  <2>1. DOMAIN PointsIn(team) = DOMAIN team
    BY DEF PointsIn
  <2> QED
    BY <2>1 DEF TeamPoints, SumFunction, SumFunctionOnSet, FoldFunction
<1> QED
  BY <1>3, <1>4, SumNat

\* A part of a team has no more points than the team.
LEMMA PartPoints ==
  ASSUME NEW s \in Seq(Player), NEW team \in Seq(Player), Part(s, team)
  PROVE  TeamPoints(s) <= TeamPoints(team)
<1>1. PICK f \in [DOMAIN s -> DOMAIN team] : Sits(s, team, f)
  BY DEF Part
<1>2. \A m \in DOMAIN s : PointsIn(s)[m] <= PointsIn(team)[f[m]]
  <2>1. \A m \in DOMAIN s : s[m].score \in Nat
    BY PlayerParts
  <2> QED
    BY <1>1, <2>1 DEF Sits, PointsIn
<1>3. SumFunctionOnSet(PointsIn(s), DOMAIN s) <= SumFunctionOnSet(PointsIn(team), DOMAIN team)
  <2>1. Natural(PointsIn(s), DOMAIN s) /\ Natural(PointsIn(team), DOMAIN team)
    BY PointsAre
  <2> QED
    BY <1>1, <1>2, <2>1, SumInto DEF Sits
<1> QED
  BY <1>3, PointsAre

\* Players without points make a team without.
LEMMA NoPoints ==
  ASSUME NEW team \in Seq(Player), \A n \in DOMAIN team : team[n].score = 0
  PROVE  TeamPoints(team) = 0
<1>1. \A n \in DOMAIN team : PointsIn(team)[n] = 0
  BY DEF PointsIn
<1> QED
  BY <1>1, PointsAre, SumZero

\* The same points at every place make the same points of the team.
LEMMA SamePoints ==
  ASSUME NEW s \in Seq(Player), NEW team \in Seq(Player), DOMAIN s = DOMAIN team,
         \A n \in DOMAIN team : s[n].score = team[n].score
  PROVE  TeamPoints(s) = TeamPoints(team)
<1>1. PointsIn(s) = PointsIn(team)
  BY DEF PointsIn
<1> QED
  BY <1>1 DEF TeamPoints

\* One player of the team has e points more, and so has the team.
LEMMA MorePoints ==
  ASSUME NEW s \in Seq(Player), NEW team \in Seq(Player), DOMAIN s = DOMAIN team,
         NEW n \in DOMAIN team, NEW e \in Nat, s[n].score = team[n].score + e,
         \A m \in DOMAIN team : m # n => s[m] = team[m]
  PROVE  TeamPoints(s) = TeamPoints(team) + e
<1>1. PointsIn(s)[n] \in Nat /\ PointsIn(team)[n] \in Nat
      /\ PointsIn(s)[n] = PointsIn(team)[n] + e
  BY PlayerParts DEF PointsIn
<1>2. \A m \in DOMAIN team \ {n} : PointsIn(s)[m] = PointsIn(team)[m]
  BY DEF PointsIn
<1>3. Natural(PointsIn(team), DOMAIN team)
  BY PointsAre
<1>4. SumFunctionOnSet(PointsIn(s), DOMAIN team) + PointsIn(team)[n]
        = SumFunctionOnSet(PointsIn(team), DOMAIN team) + PointsIn(s)[n]
  <2> DEFINE before == PointsIn(team)
             after == PointsIn(s)
             places == DOMAIN team
  <2>1. /\ Natural(before, places)
        /\ n \in places
        /\ after[n] \in Nat
        /\ \A m \in places \ {n} : after[m] = before[m]
    BY <1>1, <1>2, <1>3
  <2> HIDE DEF before, after, places
  <2>2. SumFunctionOnSet(after, places) + before[n] = SumFunctionOnSet(before, places) + after[n]
    BY ONLY <2>1, SumChange
  <2> QED
    BY <2>2 DEF before, after, places
<1>5. /\ TeamPoints(s) = SumFunctionOnSet(PointsIn(s), DOMAIN team)
      /\ TeamPoints(team) = SumFunctionOnSet(PointsIn(team), DOMAIN team)
      /\ TeamPoints(s) \in Nat /\ TeamPoints(team) \in Nat
  BY PointsAre
<1> DEFINE y == PointsIn(team)[n]
           a == TeamPoints(s)
           b == TeamPoints(team)
<1>6. a \in Nat /\ b \in Nat /\ y \in Nat /\ a + y = b + (y + e)
  BY <1>1, <1>4, <1>5
<1> HIDE DEF a, b, y
<1>7. a = b + e
  BY <1>6
<1> QED
  BY <1>7 DEF a, b

\* No team has fewer points than its players, and before the start nobody has any.
Zeros(team) == \A n \in DOMAIN team : team[n].score = 0
Fair(teams, scores) ==
  /\ DOMAIN scores = DOMAIN teams
  /\ \A t \in DOMAIN teams : TeamPoints(teams[t]) <= scores[t]
FairGame ==
  {g \in Game : /\ Fair(g.teams, g.scores)
                /\ g.state = "Waiting" => \A t \in TeamsOf(g) : Zeros(g.teams[t])}

\* Where there are no points, the team's are enough.
LEMMA ZerosFair ==
  ASSUME NEW g \in Game, DOMAIN g.scores = TeamsOf(g), \A t \in TeamsOf(g) : Zeros(g.teams[t])
  PROVE  g \in FairGame
<1>1. \A t \in TeamsOf(g) : TeamPoints(g.teams[t]) = 0
  BY GameTeams, NoPoints DEF Zeros
<1>2. \A t \in TeamsOf(g) : g.scores[t] \in Nat
  BY ScoresNat
<1>3. \A t \in TeamsOf(g) : TeamPoints(g.teams[t]) <= g.scores[t]
  BY <1>1, <1>2
<1> QED
  BY <1>3 DEF FairGame, Fair, TeamsOf

\* A step gives the team what it gives the player.
LEMMA FairStep ==
  ASSUME NEW g \in Game, NEW t \in TeamsOf(g), NEW n \in DOMAIN g.teams[t], NEW h, NEW e \in Nat,
         GoesOn(g, h, t, n, e), Fair(g.teams, g.scores)
  PROVE  Fair(h.teams, h.scores)
<1>1. /\ h \in Game /\ TeamsOf(h) = TeamsOf(g) /\ DOMAIN h.scores = DOMAIN g.scores
      /\ \A s \in TeamsOf(g) : DOMAIN h.teams[s] = DOMAIN g.teams[s]
      /\ \A s \in DOMAIN g.scores :
           h.scores[s] = IF s = t THEN g.scores[s] + e ELSE g.scores[s]
      /\ h.teams[t][n].score = g.teams[t][n].score + e
      /\ \A s \in TeamsOf(g) : \A m \in DOMAIN g.teams[s] :
           s # t \/ m # n => h.teams[s][m] = g.teams[s][m]
  BY DEF GoesOn, SameSeats, ScoresOn, OnePlayerOn, Others
<1>2. \A s \in TeamsOf(g) : g.teams[s] \in Seq(Player) /\ h.teams[s] \in Seq(Player)
  BY <1>1, GameTeams
<1>3. TeamPoints(h.teams[t]) = TeamPoints(g.teams[t]) + e
  BY <1>1, <1>2, MorePoints
<1>4. \A s \in TeamsOf(g) : s # t => TeamPoints(h.teams[s]) = TeamPoints(g.teams[s])
  BY <1>1, <1>2, SamePoints
<1>5. \A s \in TeamsOf(g) : /\ TeamPoints(g.teams[s]) \in Nat /\ g.scores[s] \in Nat
                            /\ TeamPoints(g.teams[s]) <= g.scores[s]
  BY <1>2, PointsAre, ScoresNat DEF Fair, TeamsOf
<1>6. \A s \in TeamsOf(g) : TeamPoints(h.teams[s]) <= h.scores[s]
  BY <1>1, <1>3, <1>4, <1>5 DEF Fair, TeamsOf
<1> QED
  BY <1>1, <1>6 DEF Fair, TeamsOf

\* Every operation but start_game keeps a team's points at least its players'.
LEMMA FairClosed == Closed(FairGame)
<1>1. ASSUME NEW g \in FairGame
      PROVE  /\ g \in Game /\ Fair(g.teams, g.scores) /\ DOMAIN g.scores = TeamsOf(g)
             /\ g.state = "Waiting" => \A t \in TeamsOf(g) : Zeros(g.teams[t])
  BY DEF FairGame, Fair, TeamsOf
<1>2. \A g \in FairGame, V \in SUBSET User : Viewed(g, V) \in FairGame
  <2> TAKE g \in FairGame, V \in SUBSET User
  <2>1. /\ Viewed(g, V) \in Game /\ Viewed(g, V).state = g.state
        /\ Viewed(g, V).teams = g.teams /\ Viewed(g, V).scores = g.scores
    BY <1>1, ViewedIs DEF SameRound
  <2> QED
    BY <1>1, <2>1 DEF FairGame, TeamsOf
<1>3. \A u \in User, n \in TeamAmounts : NewGame(u, n) \in FairGame
  <2> TAKE u \in User, n \in TeamAmounts
  <2> DEFINE g == NewGame(u, n)
  <2>1. /\ g \in Game /\ TeamsOf(g) = 0 .. n - 1 /\ g.teams[0] = <<GamePlayer(u)>>
        /\ \A t \in 1 .. n - 1 : g.teams[t] = <<>>
        /\ DOMAIN g.scores = 0 .. n - 1
        /\ n \in 1 .. 4
    BY NewGameIs
  <2> HIDE DEF g
  <2>2. GamePlayer(u).score = 0
    BY DEF GamePlayer, NewPlayer
  <2>3. Zeros(g.teams[0]) /\ \A t \in 1 .. n - 1 : Zeros(g.teams[t])
    BY <2>1, <2>2 DEF Zeros
  <2>4. \A t \in TeamsOf(g) : Zeros(g.teams[t])
    BY <2>1, <2>3
  <2> QED
    BY <2>1, <2>4, ZerosFair DEF g
<1>4. ASSUME NEW g \in FairGame, NEW u \in User, NEW t \in TeamsOf(g), g.state = "Waiting"
      PROVE  Joined(g, u, t) \in FairGame
  <2> DEFINE h == Joined(g, u, t)
  <2>0. g \in Game
    BY <1>1
  <2>1. /\ h \in Game /\ TeamsOf(h) = TeamsOf(g) /\ h.scores = g.scores
        /\ h.teams = [g.teams EXCEPT ![t] = Append(@, GamePlayer(u))]
    BY <2>0, JoinedIs, Zenon
  <2> HIDE DEF h
  <2>2. g.teams \in [TeamsOf(g) -> Seq(Player)] /\ GamePlayer(u).score = 0
    BY <1>1, GameTeams DEF GamePlayer, NewPlayer
  <2>3. Zeros(Append(g.teams[t], GamePlayer(u)))
    <3>1. Zeros(g.teams[t]) /\ g.teams[t] \in Seq(Player)
      BY <1>1, <1>4, <2>2
    <3> QED
      BY <2>2, <3>1 DEF Zeros
  <2>4. \A s \in TeamsOf(h) : Zeros(h.teams[s])
    BY <1>1, <1>4, <2>1, <2>2, <2>3
  <2> QED
    BY <1>1, <2>1, <2>4, ZerosFair DEF h
<1>5. ASSUME NEW g \in FairGame, NEW u \in User, NEW from \in Team, NEW to \in TeamsOf(g),
             g.state = "Waiting"
      PROVE  MoveTo(g, u, from, to) \in FairGame
  <2> DEFINE k == Taken(g, u, from)
             h == MoveTo(g, u, from, to)
  <2>1. /\ h \in Game /\ h.scores = g.scores /\ TeamsOf(h) = TeamsOf(g)
        /\ \A t \in TeamsOf(g) : h.teams[t] \in {k.teams[t], Append(k.teams[t], k.player)}
    BY <1>1, MoveToIs
  <2>2. /\ \A t \in TeamsOf(g) : k.teams[t] \in Seq(Player) /\ Part(k.teams[t], g.teams[t])
        /\ k.player.score = 0 \/ \E t \in TeamsOf(g) : \E n \in DOMAIN g.teams[t] :
                                   k.player = g.teams[t][n]
    BY <1>1, TakenTyped, TakenPart, TakenPlayer
  <2> HIDE DEF h, k
  <2>3. \A t \in TeamsOf(g) : Zeros(g.teams[t])
    BY <1>1, <1>5
  <2>4. k.player.score = 0 /\ \A t \in TeamsOf(g) : Zeros(k.teams[t])
    <3>1. \A t \in TeamsOf(g) : Zeros(k.teams[t])
      BY <2>2, <2>3 DEF Zeros, Part, Sits
    <3> QED
      BY <2>2, <2>3, <3>1 DEF Zeros
  <2>5. \A t \in TeamsOf(g) : Zeros(Append(k.teams[t], k.player))
    BY <2>2, <2>4 DEF Zeros
  <2>6. \A t \in TeamsOf(h) : Zeros(h.teams[t])
    BY <2>1, <2>4, <2>5
  <2> QED
    BY <1>1, <2>1, <2>6, ZerosFair DEF h
<1>6. ASSUME NEW g \in FairGame, NEW u \in User, NEW from \in TeamsOf(g)
      PROVE  MoveOut(g, u, from) \in FairGame
  <2> DEFINE h == MoveOut(g, u, from)
  <2>1. /\ h \in Game /\ h.state = g.state /\ h.scores = g.scores /\ TeamsOf(h) = TeamsOf(g)
        /\ \A t \in TeamsOf(g) : Part(h.teams[t], g.teams[t])
    BY <1>1, MoveOutIs DEF SameRound
  <2> HIDE DEF h
  <2>2. \A t \in TeamsOf(g) : g.teams[t] \in Seq(Player) /\ h.teams[t] \in Seq(Player)
    BY <1>1, <2>1, GameTeams
  <2>3. ASSUME NEW t \in TeamsOf(g)
        PROVE  TeamPoints(h.teams[t]) <= h.scores[t]
    <3>1. TeamPoints(h.teams[t]) <= TeamPoints(g.teams[t]) /\ TeamPoints(g.teams[t]) <= g.scores[t]
      BY <1>1, <2>1, <2>2, PartPoints DEF Fair, TeamsOf
    <3>2. TeamPoints(h.teams[t]) \in Nat /\ TeamPoints(g.teams[t]) \in Nat /\ g.scores[t] \in Nat
      BY <1>1, <2>2, PointsAre, ScoresNat
    <3> QED
      BY <2>1, <3>1, <3>2
  <2>4. \A t \in TeamsOf(g) : Zeros(g.teams[t]) => Zeros(h.teams[t])
    BY <2>1, <2>2 DEF Zeros, Part, Sits
  <2>5. h \in FairGame
    BY <1>1, <2>1, <2>3, <2>4 DEF FairGame, Fair, TeamsOf
  <2> QED
    BY <2>5 DEF h
<1>7. ASSUME NEW g \in FairGame, NEW u \in User, NEW goal \in Goal, g.state = "Started"
      PROVE  Aimed(g, u, goal) \in FairGame
  <2> DEFINE h == Aimed(g, u, goal)
  <2>0. goal \in Tile
    BY GamesAssumption
  <2>1. /\ h \in Game /\ h.state = g.state /\ h.scores = g.scores /\ TeamsOf(h) = TeamsOf(g)
        /\ h.teams = [t \in TeamsOf(g) |-> Aim(g.teams[t], u, goal)]
    BY <1>1, <2>0, AimedIs DEF SameRound
  <2> HIDE DEF h
  <2>2. \A t \in TeamsOf(g) : g.teams[t] \in Seq(Player) /\ h.teams[t] \in Seq(Player)
    BY <1>1, <2>1, GameTeams
  <2>3. \A t \in TeamsOf(g) : /\ DOMAIN h.teams[t] = DOMAIN g.teams[t]
                              /\ \A m \in DOMAIN g.teams[t] :
                                   h.teams[t][m].score = g.teams[t][m].score
    BY <2>0, <2>1, <2>2, AimTyped
  <2>4. \A t \in TeamsOf(g) : TeamPoints(h.teams[t]) = TeamPoints(g.teams[t])
    BY <2>2, <2>3, SamePoints
  <2>5. h \in FairGame
    BY <1>1, <1>7, <2>1, <2>4 DEF FairGame, Fair, TeamsOf
  <2> QED
    BY <2>5 DEF h
<1>8. ASSUME NEW g \in FairGame
      PROVE  Fair(Moved(g).teams, Moved(g).scores)
  <2> DEFINE X == {h \in Game : SameSeats(g, h) /\ Fair(h.teams, h.scores)}
  <2>1. g \in X
    BY <1>1 DEF SameSeats
  <2>2. \A h \in X : h \in Game /\ SameSeats(g, h)
    OBVIOUS
  <2>3. ASSUME NEW h \in X, NEW t \in TeamsOf(h), NEW i \in DOMAIN h.teams[t]
        PROVE  Step(h, t, i) \in X
    <3>1. PICK e \in Nat : GoesOn(h, Step(h, t, i), t, i, e)
      BY StepGoesOn
    <3>2. Step(h, t, i) \in Game /\ SameSeats(h, Step(h, t, i))
      BY <3>1 DEF GoesOn
    <3>3. Fair(Step(h, t, i).teams, Step(h, t, i).scores)
      BY <3>1, FairStep
    <3> QED
      BY <3>2, <3>3 DEF SameSeats
  <2> HIDE DEF X
  <2>4. Moved(g) \in X
    BY <1>1, <2>1, <2>2, <2>3, MovedIn
  <2> QED
    BY <2>4 DEF X
<1>9. ASSUME NEW g \in FairGame, Tick(g).left >= 0
      PROVE  Tick(g) \in FairGame /\ Over(g) \in FairGame
  <2>1. CASE g.state = "Started"
    <3>1. /\ Tick(g) \in Game /\ Over(g) \in Game
          /\ Tick(g).state = "Started" /\ Over(g).state = "Ended"
          /\ Tick(g).teams = Moved(g).teams /\ Tick(g).scores = Moved(g).scores
          /\ Over(g).teams = Moved(g).teams /\ Over(g).scores = Moved(g).scores
      BY <1>1, <1>9, <2>1, TickTyped
    <3> QED
      BY <1>8, <3>1 DEF FairGame
  <2>2. CASE g.state # "Started"
    <3>1. /\ Tick(g) = g /\ Over(g) \in Game /\ Over(g).state = "Ended"
          /\ Over(g).teams = g.teams /\ Over(g).scores = g.scores
      BY <1>1, <1>9, <2>2, TickTyped, TickIs
    <3> QED
      BY <1>1, <3>1 DEF FairGame
  <2> QED
    BY <2>1, <2>2
<1>10. \A g \in FairGame : /\ Tick(g).left > 0 => Tick(g) \in FairGame
                           /\ Tick(g).left = 0 => Tick(g) \in FairGame /\ Over(g) \in FairGame
  BY <1>1, <1>9, TickTyped
<1> QED
  BY <1>2, <1>3, <1>4, <1>5, <1>6, <1>7, <1>10 DEF Closed

\* A game that is started for the first time starts at nought.
LEMMA FairStart ==
  ASSUME NEW g \in FairGame, g.state = "Waiting"
  PROVE  StartGame(g) \in FairGame /\ \A t \in TeamsOf(g) : Zeros(StartGame(g).teams[t])
<1> DEFINE h == StartGame(g)
<1>1. g \in Game /\ \A t \in TeamsOf(g) : Zeros(g.teams[t])
  BY DEF FairGame
<1>2. /\ h \in Game /\ TeamsOf(h) = TeamsOf(g) /\ DOMAIN h.scores = TeamsOf(h)
      /\ \A t \in TeamsOf(g) : SamePlayers(g.teams[t], h.teams[t])
  BY <1>1, StartGameIs
<1> HIDE DEF h
<1>3. \A t \in TeamsOf(g) : g.teams[t] \in Seq(Player) /\ h.teams[t] \in Seq(Player)
  BY <1>1, <1>2, GameTeams
<1>4. ASSUME NEW t \in TeamsOf(g)
      PROVE  Zeros(h.teams[t])
  <2>1. /\ DOMAIN h.teams[t] = DOMAIN g.teams[t]
        /\ \A n \in DOMAIN g.teams[t] : h.teams[t][n].score = g.teams[t][n].score
    BY <1>2, <1>3 DEF SamePlayers
  <2> QED
    BY <1>1, <2>1 DEF Zeros
<1> QED
  BY <1>2, <1>4, ZerosFair DEF h

AllFair == restarted \/ All(FairGame)

\* So does start_game, unless the game was started before.
LEMMA AllFairNext ==
  Typed /\ AllFair /\ [Next]_vars => AllFair'
<1> SUFFICES ASSUME Typed, AllFair, [Next]_vars, ~restarted' PROVE All(FairGame)'
  BY DEF AllFair
<1>1. ~restarted
  <2>1. UNCHANGED restarted \/ \E u \in User : Start(u)
    BY DEF Next, InLobby, CycleStep, EnterLobby, LeaveLobby, Disconnect, Checkout, ProcessCreate,
       SwitchTeam, Leave, Forget, Kick, SpawnCycle, EnterArena, Save, IngameMove, Begin, CycleBegin,
       CycleCount, CycleCounted, CycleCharge, CycleSave, CycleTick, CycleEnd, FinishGame,
       CycleLast, FinishFails, flags, vars
  <2>2. \A u \in User : Start(u) => (restarted' = (restarted \/ Mine(u).state # "Waiting"))
    BY DEF Start
  <2> QED
    BY <2>1, <2>2
<1>2. All(FairGame)
  BY <1>1 DEF AllFair
<1>3. ASSUME NEW u \in User, Start(u)
      PROVE  StartGame(Mine(u)) \in FairGame
  <2>1. HasGame(u) /\ Mine(u).state = "Waiting"
    BY <1>3 DEF Start
  <2>2. Mine(u) \in FairGame
    BY <1>2, <2>1, TableChange DEF HasGame, Mine, All
  <2> QED
    BY <2>1, <2>2, FairStart
<1>4. FairGame \in SUBSET Game
  BY DEF FairGame
<1> QED
  BY <1>2, <1>3, <1>4, FairClosed, AllNext

-----------------------------------------------------------------------------
(* What the steps do                                                       *)

SeatKept(u, s) == s.game = sess[u].game /\ s.team = sess[u].team
\* A handler leaves the games alone, or loses all of them.
Unedited(u, G, s, i) ==
  /\ G \in {games, NoGames} /\ i = NoGame
  /\ \/ SeatKept(u, s)
     \/ s.game = NoGame /\ (HasGame(u) => gone')
\* It makes h of game j:
Looks(u, j, h, s) ==
  /\ sess[u].game = NoGame /\ s.game = j /\ s.team = NoTeam
  /\ \E V \in SUBSET User : h = Viewed(games[j], V)
Enters(u, j, h, s) ==
  /\ sess[u].game = j /\ s.game = j /\ s.team \in TeamsOf(games[j]) /\ tickets[u] > 1
  /\ games[j].state = "Waiting"
  /\ IF sess[u].team = NoTeam THEN h = Joined(games[j], u, s.team)
     ELSE h = MoveTo(games[j], u, sess[u].team, s.team)
Leaves(u, j, h, s) ==
  /\ sess[u].game = j /\ s.game = NoGame
  /\ IF sess[u].team \in TeamsOf(games[j]) THEN h = MoveOut(games[j], u, sess[u].team)
     ELSE \E V \in SUBSET User : h = Viewed(games[j], V)
Kicks(u, j, h, s) ==
  SeatKept(u, s) /\ \E v \in User : \E t \in TeamsOf(games[j]) : h = MoveOut(games[j], v, t)
Aims(u, j, h, s) ==
  SeatKept(u, s) /\ games[j].state = "Started" /\ \E goal \in Tile : h = Aimed(games[j], u, goal)
Starts(u, j, h, s) ==
  /\ SeatKept(u, s) /\ h = StartGame(games[j])
  /\ restarted' = (restarted \/ games[j].state # "Waiting")
Edited(u, G, s, i) ==
  \E j \in DOMAIN games, h \in Game :
    /\ G = [games EXCEPT ![j] = h]
    /\ \/ i = NoGame /\ \/ Looks(u, j, h, s) \/ Enters(u, j, h, s) \/ Leaves(u, j, h, s)
                        \/ Kicks(u, j, h, s) \/ Aims(u, j, h, s)
       \/ i = j /\ Starts(u, j, h, s)
\* It makes a game, or takes one away.
Created(u, G, s, i) ==
  /\ i = NoGame /\ sess[u].game = NoGame /\ tickets[u] > 1 /\ s.team = 0
  /\ \E m \in Id \ DOMAIN games, n \in TeamAmounts :
       s.game = m /\ G = With(games, m, NewGame(u, n))
Dropped(u, G, s, i) ==
  i = NoGame /\ s.game = NoGame /\ HasGame(u) /\ G = Less(games, sess[u].game)

Edits(u, G, s, i) ==
  Unedited(u, G, s, i) \/ Edited(u, G, s, i) \/ Created(u, G, s, i) \/ Dropped(u, G, s, i)
HandlerEdited(u) ==
  /\ UNCHANGED <<purse, raced, reused, loose>>
  /\ \E G, s, i : Handles(u, G, s, i) /\ Edits(u, G, s, i)

\* A handler that begins one of the edits.
LEMMA BegunEdits ==
  ASSUME NEW u \in User, NEW G, NEW s, Ready(u), Begin(u, G, s), Edits(u, G, s, NoGame)
  PROVE  HandlerEdited(u)
  BY DEF Begin, HandlerEdited, Handles, flags, purse

\* What a handler changes of a session, and what not.
LEMMA SessionKept ==
  ASSUME NEW s \in Session
  PROVE  /\ \A b : [s EXCEPT !.here = b].game = s.game /\ [s EXCEPT !.here = b].team = s.team
         /\ \A i, t : /\ [s EXCEPT !.game = i, !.team = t].game = i
                      /\ [s EXCEPT !.game = i, !.team = t].team = t
         /\ \A t : [s EXCEPT !.team = t].team = t /\ [s EXCEPT !.team = t].game = s.game
<1>1. DOMAIN s = {"here", "game", "team"}
  BY DEF Session
<1> QED
  BY <1>1

\* Every handler makes one of the edits, and touches neither purses nor histories.
LEMMA HandlerEdits ==
  ASSUME Typed, NEW u \in User, Handler(u)
  PROVE  HandlerEdited(u)
<1> DEFINE i == sess[u].game
           g == games[i]
<1>1. /\ HasGame(u) => i \in Id /\ i \in DOMAIN games /\ g \in Game /\ Mine(u) = g
                         /\ i # NoGame
      /\ sess[u] \in Session /\ sess[u].team \in Team \cup {NoTeam}
  <2>1. \A j \in Id : j # NoGame
    BY GamesAssumption DEF Id, NoGame
  <2> QED
    BY <2>1, TypedParts DEF HasGame, Mine
<1>2. LobbyLess(u) \in {games, NoGames}
  BY DEF LobbyLess
<1>3. \A j \in DOMAIN games, h \in Game : \A s :
        Looks(u, j, h, s) \/ Enters(u, j, h, s) \/ Leaves(u, j, h, s) \/ Kicks(u, j, h, s)
          \/ Aims(u, j, h, s)
        => Edits(u, [games EXCEPT ![j] = h], s, NoGame)
  BY Zenon DEF Edits, Edited
<1>4. CASE EnterLobby(u)
  <2> DEFINE s == [sess[u] EXCEPT !.here = TRUE]
  <2>1. Ready(u) /\ Begin(u, games, s)
    BY <1>4 DEF EnterLobby
  <2>2. SeatKept(u, s)
    BY <1>1, SessionKept DEF SeatKept
  <2> HIDE DEF s
  <2> QED
    BY <2>1, <2>2, BegunEdits DEF Edits, Unedited
<1>5. CASE LeaveLobby(u)
  BY <1>1, <1>2, <1>5, SessionKept, BegunEdits DEF LeaveLobby, Edits, Unedited, SeatKept
<1>6. CASE Disconnect(u)
  <2> DEFINE G == IF sess[u].here THEN LobbyLess(u) ELSE games
  <2>1. Handles(u, G, Out, NoGame)
    BY <1>6 DEF Disconnect, Handles
  <2>2. UNCHANGED <<purse, raced, reused, loose>> /\ gone' = (gone \/ sess[u].game # NoGame)
    BY <1>6 DEF Disconnect, purse
  <2>3. G \in {games, NoGames} /\ Out.game = NoGame
    BY <1>2 DEF Out
  <2> HIDE DEF G
  <2>4. Unedited(u, G, Out, NoGame)
    BY <1>1, <2>2, <2>3 DEF Unedited
  <2> QED
    BY <2>1, <2>2, <2>4 DEF HandlerEdited, Edits
<1>7. ASSUME NEW k \in Id, Checkout(u, k)
      PROVE  HandlerEdited(u)
  <2> DEFINE V == games[k].viewers \cup {u}
             h == Viewed(games[k], V)
             s == [sess[u] EXCEPT !.game = k, !.team = NoTeam]
             G == [games EXCEPT ![k].viewers = @ \cup {u}]
  <2>1. Ready(u) /\ Begin(u, G, s) /\ k \in DOMAIN games /\ sess[u].game = NoGame
    BY <1>7 DEF Checkout, MayCreate
  <2>2. games[k] \in Game /\ V \in SUBSET User
    BY <2>1, TypedParts, GameParts
  <2>3. h \in Game /\ G = [games EXCEPT ![k] = h] /\ s.game = k /\ s.team = NoTeam
    BY <1>1, <2>2, ViewedIs, SessionKept DEF Viewed
  <2>4. Looks(u, k, h, s)
    BY <2>1, <2>2, <2>3 DEF Looks
  <2> HIDE DEF h, G, s
  <2> QED
    BY <1>3, <2>1, <2>3, <2>4, BegunEdits
<1>8. ASSUME NEW n \in TeamAmounts, ProcessCreate(u, n)
      PROVE  HandlerEdited(u)
  <2> DEFINE m == Min(Id \ DOMAIN games)
             G == With(games, m, NewGame(u, n))
             s == [sess[u] EXCEPT !.game = m, !.team = 0]
  <2>1. /\ Ready(u) /\ Begin(u, G, s) /\ Id \ DOMAIN games # {}
        /\ sess[u].game = NoGame /\ tickets[u] > 1
    BY <1>8 DEF ProcessCreate, MayCreate
  <2>2. m \in Id \ DOMAIN games
    BY <2>1, FreeId
  <2>3. s.game = m /\ s.team = 0
    BY <1>1, SessionKept
  <2> HIDE DEF m, s
  <2>4. Created(u, G, s, NoGame)
    BY <2>1, <2>2, <2>3 DEF Created
  <2> HIDE DEF G
  <2> QED
    BY <2>1, <2>4, BegunEdits DEF Edits
<1>9. ASSUME NEW t \in Team, SwitchTeam(u, t)
      PROVE  HandlerEdited(u)
  <2> DEFINE h == IF sess[u].team = NoTeam THEN Joined(g, u, t)
                  ELSE MoveTo(g, u, sess[u].team, t)
             G == [games EXCEPT ![i] = h]
             s == [sess[u] EXCEPT !.team = t]
  <2>1. /\ Ready(u) /\ HasGame(u) /\ Begin(u, G, s) /\ tickets[u] > 1
        /\ g.state = "Waiting" /\ t \in TeamsOf(g)
    BY <1>9 DEF SwitchTeam, Mine, TeamHasSpace, Joined
  <2>2. h \in Game
    BY <1>1, <2>1, JoinedIs, MoveTyped
  <2>3. s.game = i /\ s.team = t
    BY <1>1, SessionKept
  <2>4. Enters(u, i, h, s)
    BY <2>1, <2>3 DEF Enters
  <2> HIDE DEF h, s
  <2> QED
    BY <1>1, <1>3, <2>1, <2>2, <2>4, BegunEdits
<1>10. CASE Leave(u)
  <2> DEFINE s == Cleared(u)
  <2>1. Ready(u) /\ Begin(u, Left(u), s)
    BY <1>10 DEF Leave
  <2>2. s.game = NoGame
    BY <1>1, SessionKept DEF Cleared
  <2> HIDE DEF s
  <2>3. CASE ~HasGame(u)
    BY <2>1, <2>2, <2>3, BegunEdits DEF Left, Edits, Unedited
  <2>4. CASE HasGame(u) /\ g.owner = u
    <3>1. Left(u) = Less(games, i)
      BY <2>4 DEF Left, Mine
    <3> QED
      BY <2>1, <2>2, <2>4, <3>1, BegunEdits DEF Edits, Dropped
  <2>5. CASE HasGame(u) /\ g.owner # u
    <3> DEFINE V == IF sess[u].team = NoTeam THEN g.viewers \ {u} ELSE g.viewers
               h == IF sess[u].team \in TeamsOf(g) THEN MoveOut(g, u, sess[u].team)
                    ELSE Viewed(g, V)
    <3>1. g = Viewed(g, g.viewers) /\ V \in SUBSET User /\ g.viewers \in SUBSET User
      BY <1>1, <2>5, GameParts DEF Viewed, Game
    <3>2. Left(u) = [games EXCEPT ![i] = h]
      BY <2>5, <3>1 DEF Left, Mine, Viewed
    <3>3. h \in Game
      BY <1>1, <2>5, <3>1, ViewedIs, MoveOutIs
    <3>4. Leaves(u, i, h, s)
      BY <1>1, <2>2, <2>5, <3>1 DEF Leaves
    <3> HIDE DEF h
    <3> QED
      BY <1>1, <1>3, <2>1, <2>5, <3>2, <3>3, <3>4, BegunEdits
  <2> QED
    BY <2>3, <2>4, <2>5
<1>11. ASSUME NEW uid, Kick(u, uid)
       PROVE  HandlerEdited(u)
  <2> DEFINE k == First(g, uid)
             h == MoveOut(g, k.user, k.team)
  <2>1. /\ Ready(u) /\ HasGame(u) /\ Begin(u, [games EXCEPT ![i] = h], sess[u])
        /\ \E t \in TeamsOf(g) : \E n \in DOMAIN g.teams[t] : g.teams[t][n].uid = uid
    BY <1>11 DEF Kick, Mine
  <2>2. k.team \in TeamsOf(g) /\ k.user \in User
    BY <1>1, <2>1, FirstIs
  <2>3. h \in Game
    BY <1>1, <2>1, <2>2, MoveOutIs
  <2>4. Kicks(u, i, h, sess[u])
    BY <2>2 DEF Kicks, SeatKept
  <2> HIDE DEF h
  <2> QED
    BY <1>1, <1>3, <2>1, <2>3, <2>4, BegunEdits
<1>12. CASE Start(u)
  <2> DEFINE h == StartGame(g)
             G == [games EXCEPT ![i] = h]
  <2>1. HasGame(u) /\ Handles(u, G, sess[u], i)
        /\ restarted' = (restarted \/ g.state # "Waiting")
        /\ UNCHANGED <<purse, raced, reused, loose>>
    BY <1>12 DEF Start, Mine, Handles
  <2>2. h \in Game
    BY <1>1, <2>1, StartGameIs
  <2>3. Starts(u, i, h, sess[u])
    BY <2>1 DEF Starts, SeatKept
  <2> HIDE DEF h
  <2>4. Edited(u, G, sess[u], i)
    BY <1>1, <2>1, <2>2, <2>3 DEF Edited
  <2> QED
    BY <2>1, <2>4 DEF HandlerEdited, Edits
<1>13. CASE EnterArena(u)
  BY <1>1, <1>13, SessionKept, BegunEdits DEF EnterArena, Edits, Unedited, SeatKept
<1>14. ASSUME NEW goal \in Goal, IngameMove(u, goal)
       PROVE  HandlerEdited(u)
  <2> DEFINE h == Aimed(g, u, goal)
             G == [games EXCEPT ![i].teams = [t \in DOMAIN @ |-> Aim(@[t], u, goal)]]
  <2>1. Ready(u) /\ HasGame(u) /\ Begin(u, G, sess[u]) /\ g.state = "Started" /\ goal \in Tile
    BY <1>14, GamesAssumption DEF IngameMove, Mine
  <2>2. h \in Game
    BY <1>1, <2>1, AimedIs
  <2>3. G = [games EXCEPT ![i] = h]
    BY DEF Aimed
  <2>4. Aims(u, i, h, sess[u])
    BY <2>1 DEF Aims, SeatKept
  <2> HIDE DEF h, G
  <2> QED
    BY <1>1, <1>3, <2>1, <2>2, <2>3, <2>4, BegunEdits
<1> QED
  BY <1>4, <1>5, <1>6, <1>7, <1>8, <1>9, <1>10, <1>11, <1>12, <1>13, <1>14 DEF Handler

\* What happened once has happened.
LEMMA FlagsGrow ==
  ASSUME [Next]_vars
  PROVE  (raced => raced') /\ (gone => gone') /\ (restarted => restarted') /\ (reused => reused')
<1>1. raced => raced'
  <2>1. UNCHANGED raced \/ (\E u \in User : Save(u)) \/ (\E i \in Id : CycleCharge(i) \/ CycleSave(i))
    BY DEF Next, InLobby, CycleStep, EnterLobby, LeaveLobby, Disconnect, Checkout, ProcessCreate,
       SwitchTeam, Leave, Forget, Kick, SpawnCycle, EnterArena, Start, IngameMove, Begin, CycleBegin,
       CycleCount, CycleCounted, CycleTick, CycleEnd, FinishGame,
       CycleLast, FinishFails, flags, vars
  <2>2. (\E u \in User : Save(u)) \/ (\E i \in Id : CycleCharge(i) \/ CycleSave(i))
          => (raced => raced')
    BY DEF Save, CycleCharge, CycleSave
  <2> QED
    BY <2>1, <2>2
<1>2. gone => gone'
  <2>1. UNCHANGED gone \/ \E u \in User : Disconnect(u)
    BY DEF Next, InLobby, CycleStep, EnterLobby, LeaveLobby, Save, Checkout, ProcessCreate,
       SwitchTeam, Leave, Forget, Kick, SpawnCycle, EnterArena, Start, IngameMove, Begin, CycleBegin,
       CycleCount, CycleCounted, CycleCharge, CycleSave, CycleTick, CycleEnd, FinishGame,
       CycleLast, FinishFails, flags, vars
  <2>2. (\E u \in User : Disconnect(u)) => (gone => gone')
    BY DEF Disconnect
  <2> QED
    BY <2>1, <2>2
<1>3. restarted => restarted'
  <2>1. UNCHANGED restarted \/ \E u \in User : Start(u)
    BY DEF Next, InLobby, CycleStep, EnterLobby, LeaveLobby, Save, Checkout, ProcessCreate,
       SwitchTeam, Leave, Forget, Kick, SpawnCycle, EnterArena, Disconnect, IngameMove, Begin,
       CycleBegin, CycleCount, CycleCounted, CycleCharge, CycleSave, CycleTick, CycleEnd,
       FinishGame, CycleLast, FinishFails, flags, vars
  <2>2. (\E u \in User : Start(u)) => (restarted => restarted')
    BY DEF Start
  <2> QED
    BY <2>1, <2>2
<1>4. reused => reused'
  <2>1. UNCHANGED reused \/ \E u \in User : Save(u)
    BY DEF Next, InLobby, CycleStep, EnterLobby, LeaveLobby, Start, Checkout, ProcessCreate,
       SwitchTeam, Leave, Forget, Kick, SpawnCycle, EnterArena, Disconnect, IngameMove, Begin,
       CycleBegin, CycleCount, CycleCounted, CycleCharge, CycleSave, CycleTick, CycleEnd,
       FinishGame, CycleLast, FinishFails, flags, vars
  <2>2. (\E u \in User : Save(u)) => (reused => reused')
    BY DEF Save
  <2> QED
    BY <2>1, <2>2
<1> QED
  BY <1>1, <1>2, <1>3, <1>4

\* The cycle of game i goes on to c:
Stops(i, c) ==
  c.pc = "off" /\ (~Has(i) \/ cycle[i].pc = "last") /\ UNCHANGED purse
Begins(i, c) ==
  cycle[i].pc = "begin" /\ c.pc = "count" /\ UNCHANGED purse
Counts(i, c) ==
  /\ cycle[i].pc = "count" /\ Has(i) /\ c.copy = games /\ c.read = games /\ UNCHANGED purse
  /\ \/ c.pc = "save" /\ c.then = "count"
     \/ c.pc = "take" /\ c.then = "tick"
Charges(i, c) ==
  /\ cycle[i].pc = "take" /\ c.pc = "save"
  /\ c.copy = cycle[i].copy /\ c.read = cycle[i].read /\ c.then = cycle[i].then
  /\ tickets' = [u \in User |-> tickets[u] - 2 * EndsOf(cycle[i].copy[i], u)]
  /\ raced' = (raced \/ games # cycle[i].read)
  /\ UNCHANGED <<points, scored>>
Ticks(i, c) ==
  /\ cycle[i].pc = "tick" /\ Has(i) /\ c.pc = "save" /\ c.read = games
  /\ Tick(games[i]) \in Game /\ Over(games[i]) \in Game
  /\ Scored(games[i]) /\ UNCHANGED tickets
  /\ \/ /\ c.then = "tick" /\ c.copy = [games EXCEPT ![i] = Tick(games[i])]
        /\ UNCHANGED points
     \/ /\ c.then = "last"
        /\ \/ c.copy = [games EXCEPT ![i] = Tick(games[i])]
           \/ c.copy = [games EXCEPT ![i] = Over(games[i])]
        /\ \E S \in SUBSET User : points' =
             [u \in User |-> points[u] + (IF u \in S THEN ScoreOf(Tick(games[i]), u) ELSE 0)]
CycleMoves(i, c) ==
  /\ Cycles(i, c)
  /\ Stops(i, c) \/ Begins(i, c) \/ Counts(i, c) \/ Charges(i, c) \/ Ticks(i, c)

\* Every step of a cycle is one of its moves.
LEMMA CycleGoesOn ==
  ASSUME Typed, Purses, NEW i \in Id, CycleGoes(i)
  PROVE  \E c : CycleMoves(i, c)
<1>d. DOMAIN cycle = Id
  BY DEF Typed
<1>c. cycle[i] \in Cycle /\ DOMAIN cycle[i] = {"pc", "then", "steps", "copy", "read"}
  BY TypedParts DEF Cycle
<1>g. Has(i) => i \in DOMAIN games /\ games[i] \in Game
  BY TypedParts DEF Has
<1>1. ASSUME Stop(i), ~Has(i) \/ cycle[i].pc = "last", UNCHANGED <<rest, purse>>
      PROVE  \E c : CycleMoves(i, c)
  <2>1. Stops(i, Off) /\ Cycles(i, Off)
    BY <1>1 DEF Stops, Cycles, Stop, Off, rest, purse
  <2> QED
    BY <2>1 DEF CycleMoves
<1>2. ASSUME NEW p, NEW G, NEW t, NEW n, Hold(i, p, G, t, n), UNCHANGED rest
      PROVE  \E c : /\ Cycles(i, c) /\ c.pc = p /\ c.copy = G /\ c.read = games /\ c.then = t
  <2> DEFINE c == [pc |-> p, copy |-> G, read |-> games, then |-> t, steps |-> n]
  <2>1. Cycles(i, c)
    BY <1>2 DEF Hold, Cycles, rest
  <2>2. c.pc = p /\ c.copy = G /\ c.read = games /\ c.then = t
    OBVIOUS
  <2> QED
    BY <2>1, <2>2
<1>3. Has(i) /\ Tick(games[i]).left >= 0 => Tick(games[i]) \in Game /\ Over(games[i]) \in Game
  BY <1>g, TickTyped
<1>4. CASE CycleBegin(i)
  <2> DEFINE n == IF Has(i) THEN Countdown ELSE 0
             c == [cycle[i] EXCEPT !.pc = "count", !.steps = n]
  <2>1. c.pc = "count"
    BY <1>c
  <2>2. /\ cycle' = [cycle EXCEPT ![i] = c] /\ cycle[i].pc = "begin"
        /\ UNCHANGED <<games, sess, task>> /\ UNCHANGED purse
    BY <1>d, <1>4 DEF CycleBegin, rest
  <2> HIDE DEF c
  <2>3. Cycles(i, c) /\ Begins(i, c)
    BY <2>1, <2>2 DEF Cycles, Begins
  <2> QED
    BY <2>3 DEF CycleMoves
<1>5. CASE CycleCount(i)
  <2>1. CASE ~Has(i)
    BY <1>1, <1>5, <2>1 DEF CycleCount
  <2>2. CASE Has(i)
    <3>1. /\ Hold(i, "save", games, "count", cycle[i].steps - 1)
          /\ UNCHANGED rest /\ UNCHANGED purse /\ cycle[i].pc = "count"
      BY <1>5, <2>2 DEF CycleCount
    <3>2. PICK c : /\ Cycles(i, c) /\ c.pc = "save" /\ c.copy = games /\ c.read = games
                   /\ c.then = "count"
      BY <1>2, <3>1
    <3>3. Counts(i, c)
      BY <2>2, <3>1, <3>2 DEF Counts
    <3> QED
      BY <3>2, <3>3 DEF CycleMoves
  <2> QED
    BY <2>1, <2>2
<1>6. CASE CycleCounted(i)
  <2>1. CASE ~Has(i)
    BY <1>1, <1>6, <2>1 DEF CycleCounted
  <2>2. CASE Has(i)
    <3>1. /\ Hold(i, "take", games, "tick", 0)
          /\ UNCHANGED rest /\ UNCHANGED purse /\ cycle[i].pc = "count"
      BY <1>6, <2>2 DEF CycleCounted
    <3>2. PICK c : /\ Cycles(i, c) /\ c.pc = "take" /\ c.copy = games /\ c.read = games
                   /\ c.then = "tick"
      BY <1>2, <3>1
    <3>3. Counts(i, c)
      BY <2>2, <3>1, <3>2 DEF Counts
    <3> QED
      BY <3>2, <3>3 DEF CycleMoves
  <2> QED
    BY <2>1, <2>2
<1>7. CASE CycleCharge(i)
  <2> DEFINE c == [cycle[i] EXCEPT !.pc = "save"]
  <2>1. /\ c.pc = "save" /\ c.copy = cycle[i].copy /\ c.read = cycle[i].read
        /\ c.then = cycle[i].then
    BY <1>c
  <2>2. /\ cycle' = [cycle EXCEPT ![i] = c] /\ cycle[i].pc = "take"
        /\ UNCHANGED <<games, sess, task>> /\ UNCHANGED <<points, scored>>
        /\ tickets' = [u \in User |-> tickets[u] - 2 * EndsOf(cycle[i].copy[i], u)]
        /\ raced' = (raced \/ games # cycle[i].read)
    BY <1>d, <1>7 DEF CycleCharge, rest
  <2> HIDE DEF c
  <2>3. Cycles(i, c) /\ Charges(i, c)
    BY <2>1, <2>2 DEF Cycles, Charges
  <2> QED
    BY <2>3 DEF CycleMoves
<1>8. CASE CycleTick(i)
  <2> DEFINE G == [games EXCEPT ![i] = Tick(games[i])]
  <2>1. /\ Hold(i, "save", G, "tick", 0) /\ Has(i) /\ cycle[i].pc = "tick"
        /\ UNCHANGED rest /\ UNCHANGED <<tickets, points>> /\ Scored(games[i])
        /\ Tick(games[i]).left > 0
    BY <1>8 DEF CycleTick
  <2>2. Tick(games[i]) \in Game /\ Over(games[i]) \in Game
    BY <1>3, <1>g, <2>1, TickTyped
  <2> HIDE DEF G
  <2>3. PICK c : /\ Cycles(i, c) /\ c.pc = "save" /\ c.copy = G /\ c.read = games
                 /\ c.then = "tick"
    BY <1>2, <2>1
  <2>4. Ticks(i, c)
    BY <2>1, <2>2, <2>3 DEF Ticks, G
  <2> QED
    BY <2>3, <2>4 DEF CycleMoves
<1>9. CASE CycleEnd(i)
  BY <1>1, <1>9 DEF CycleEnd
<1>10. CASE FinishGame(i)
  <2> DEFINE G == [games EXCEPT ![i] = Over(games[i])]
  <2>1. /\ Hold(i, "save", G, "last", 0) /\ Has(i) /\ cycle[i].pc = "tick"
        /\ UNCHANGED rest /\ UNCHANGED tickets /\ Scored(games[i])
        /\ Tick(games[i]).left = 0
        /\ points' = [u \in User |-> points[u] + ScoreOf(Tick(games[i]), u)]
    BY <1>10 DEF FinishGame, Over
  <2>2. Tick(games[i]) \in Game /\ Over(games[i]) \in Game
    BY <1>3, <2>1
  <2>3. points' = [u \in User |-> points[u] +
                      (IF u \in User THEN ScoreOf(Tick(games[i]), u) ELSE 0)]
    BY <2>1
  <2> HIDE DEF G
  <2>4. PICK c : /\ Cycles(i, c) /\ c.pc = "save" /\ c.copy = G /\ c.read = games
                 /\ c.then = "last"
    BY <1>2, <2>1
  <2>5. Ticks(i, c)
    BY <2>1, <2>2, <2>3, <2>4 DEF Ticks, G
  <2> QED
    BY <2>4, <2>5 DEF CycleMoves
<1>11. CASE CycleLast(i)
  BY <1>1, <1>11 DEF CycleLast
<1>12. ASSUME NEW done \in SUBSET User, FinishFails(i, done)
       PROVE  \E c : CycleMoves(i, c)
  <2> DEFINE G == [games EXCEPT ![i] = Tick(games[i])]
  <2>1. /\ Hold(i, "save", G, "last", 0) /\ Has(i) /\ cycle[i].pc = "tick"
        /\ UNCHANGED rest /\ UNCHANGED tickets /\ Scored(games[i])
        /\ Tick(games[i]).left = 0
        /\ points' = [u \in User |->
             points[u] + (IF u \in done THEN ScoreOf(Tick(games[i]), u) ELSE 0)]
    BY <1>12 DEF FinishFails
  <2>2. Tick(games[i]) \in Game /\ Over(games[i]) \in Game
    BY <1>3, <2>1
  <2> HIDE DEF G
  <2>3. PICK c : /\ Cycles(i, c) /\ c.pc = "save" /\ c.copy = G /\ c.read = games
                 /\ c.then = "last"
    BY <1>2, <2>1
  <2>4. Ticks(i, c)
    BY <2>1, <2>2, <2>3 DEF Ticks, G
  <2> QED
    BY <2>3, <2>4 DEF CycleMoves
<1> QED
  BY <1>4, <1>5, <1>6, <1>7, <1>8, <1>9, <1>10, <1>11, <1>12 DEF CycleGoes

-----------------------------------------------------------------------------
(* What a handler has to save                                              *)

\* The state is the same, and nobody has more points.
Tame(g, h) ==
  h.state = g.state /\ \A v \in User : ScoreOf(h, v) <= ScoreOf(g, v)

\* The same teams, the same points.
LEMMA SameTeamsScore ==
  ASSUME NEW g, NEW h, h.teams = g.teams, NEW v
  PROVE  Ends(h, v) = Ends(g, v) /\ ScoreOf(h, v) = ScoreOf(g, v) /\ EndsOf(h, v) = EndsOf(g, v)
  BY DEF Ends, ScoreOf, EndsOf, TeamsOf

\* Nobody has points in a fair game that waits.
LEMMA NoScore ==
  ASSUME NEW g \in FairGame, g.state = "Waiting", NEW v
  PROVE  ScoreOf(g, v) = 0
<1>1. g \in Game /\ \A t \in TeamsOf(g) : Zeros(g.teams[t])
  BY DEF FairGame
<1> QED
  BY <1>1, ScoreZero DEF Zeros

\* No edit but the start changes a game's state or gives anybody points.
LEMMA TameEdit ==
  ASSUME Typed, All(FairGame), NEW u \in User, NEW j \in DOMAIN games, NEW h \in Game, NEW s,
         \/ Looks(u, j, h, s) \/ Enters(u, j, h, s) \/ Leaves(u, j, h, s)
         \/ Kicks(u, j, h, s) \/ Aims(u, j, h, s)
  PROVE  Tame(games[j], h)
<1> DEFINE g == games[j]
<1>1. g \in Game /\ g \in FairGame
  BY TypedParts, TableChange DEF All
<1>2. \A v \in User : ScoreOf(g, v) \in Nat /\ ScoreOf(h, v) \in Nat
  BY <1>1, EndsAre
<1> HIDE DEF g
<1>3. ASSUME NEW V \in SUBSET User, h = Viewed(g, V)
      PROVE  Tame(g, h)
  <2>1. h.teams = g.teams /\ h.state = g.state
    BY <1>1, <1>3, ViewedIs DEF SameRound
  <2>2. \A v \in User : ScoreOf(h, v) = ScoreOf(g, v)
    BY <2>1, SameTeamsScore
  <2> QED
    BY <1>2, <2>1, <2>2 DEF Tame
<1>4. ASSUME NEW v \in User, NEW t, h = MoveOut(g, v, t)
      PROVE  Tame(g, h)
  <2>1. h.state = g.state /\ TeamsOf(h) = TeamsOf(g)
        /\ \A x \in TeamsOf(g) : Part(h.teams[x], g.teams[x])
    BY <1>1, <1>4, MoveOutIs DEF SameRound
  <2>2. \A w \in User : ScoreOf(h, w) <= ScoreOf(g, w)
    BY <1>1, <2>1, ScoreFewer
  <2> QED
    BY <2>1, <2>2 DEF Tame
<1>5. CASE Looks(u, j, h, s)
  BY <1>3, <1>5 DEF Looks, g
<1>6. CASE Enters(u, j, h, s)
  <2>1. /\ g.state = "Waiting" /\ s.team \in TeamsOf(g)
        /\ sess[u].team \in Team \cup {NoTeam}
        /\ IF sess[u].team = NoTeam THEN h = Joined(g, u, s.team)
           ELSE h = MoveTo(g, u, sess[u].team, s.team)
    BY <1>6, TypedParts DEF Enters, g
  <2>2. h \in FairGame /\ h.state = g.state
    <3>1. CASE sess[u].team = NoTeam
      <4>1. Joined(g, u, s.team) \in FairGame
        BY <1>1, <2>1, FairClosed, Zenon DEF Closed
      <4>2. Joined(g, u, s.team).state = g.state
        BY <1>1, <2>1, JoinedIs DEF SameRound
      <4> QED
        BY <2>1, <3>1, <4>1, <4>2
    <3>2. CASE sess[u].team # NoTeam
      <4>1. sess[u].team \in Team
        BY <2>1, <3>2
      <4>2. MoveTo(g, u, sess[u].team, s.team) \in FairGame
        BY <1>1, <2>1, <4>1, FairClosed, Zenon DEF Closed
      <4>3. MoveTo(g, u, sess[u].team, s.team).state = g.state
        BY <1>1, <2>1, MoveTyped
      <4> QED
        BY <2>1, <3>2, <4>2, <4>3
    <3> QED
      BY <3>1, <3>2
  <2>3. \A v \in User : ScoreOf(h, v) = 0
    BY <2>1, <2>2, NoScore
  <2> QED
    BY <1>2, <2>2, <2>3 DEF Tame, g
<1>7. CASE Leaves(u, j, h, s)
  <2>1. CASE sess[u].team \in TeamsOf(g)
    BY <1>4, <1>7, <2>1 DEF Leaves, g
  <2>2. CASE sess[u].team \notin TeamsOf(g)
    BY <1>3, <1>7, <2>2 DEF Leaves, g
  <2> QED
    BY <2>1, <2>2
<1>8. CASE Kicks(u, j, h, s)
  BY <1>4, <1>8 DEF Kicks, g
<1>9. CASE Aims(u, j, h, s)
  <2>1. PICK goal \in Tile : h = Aimed(g, u, goal)
    BY <1>9 DEF Aims, g
  <2>2. /\ h.state = g.state /\ TeamsOf(h) = TeamsOf(g)
        /\ h.teams = [t \in TeamsOf(g) |-> Aim(g.teams[t], u, goal)]
    BY <1>1, <2>1, AimedIs DEF SameRound
  <2>3. \A t \in TeamsOf(g) : g.teams[t] \in Seq(Player)
    BY <1>1, GameTeams
  <2>4. \A t \in TeamsOf(g) : /\ DOMAIN h.teams[t] = DOMAIN g.teams[t]
                              /\ \A n \in DOMAIN g.teams[t] :
                                   /\ h.teams[t][n].user = g.teams[t][n].user
                                   /\ h.teams[t][n].score = g.teams[t][n].score
                                   /\ h.teams[t][n].score \in Nat
    <3>1. \A t \in TeamsOf(g) : \A n \in DOMAIN g.teams[t] : g.teams[t][n].score \in Nat
      BY <1>1, PlayerIn, PlayerParts
    <3> QED
      BY <2>2, <2>3, <3>1, AimTyped
  <2>5. SameSeats(h, g)
    BY <2>2, <2>4 DEF SameSeats
  <2>6. \A t \in TeamsOf(h) : \A n \in DOMAIN h.teams[t] :
           g.teams[t][n].user = h.teams[t][n].user /\ h.teams[t][n].score <= g.teams[t][n].score
    BY <2>2, <2>4
  <2>7. \A v : ScoreOf(h, v) <= ScoreOf(g, v)
    BY <1>1, <2>5, <2>6, ScoreMore
  <2> QED
    BY <2>2, <2>7 DEF Tame, g
<1> QED
  BY <1>5, <1>6, <1>7, <1>8, <1>9 DEF g

\* The copy of a task: what is new waits, what is not new is tame, and the game that
\* is started had waited.
Told(k) ==
  /\ \A j \in DOMAIN k.copy : j \notin DOMAIN k.read => k.copy[j].state = "Waiting"
  /\ \A j \in DOMAIN k.copy \cap DOMAIN k.read :
       /\ \A v \in User : ScoreOf(k.copy[j], v) <= ScoreOf(k.read[j], v)
       /\ j # k.start => k.copy[j].state = k.read[j].state
  /\ k.start # NoGame =>
       /\ k.start \in DOMAIN k.copy \cap DOMAIN k.read
       /\ k.read[k.start].state = "Waiting" /\ k.copy[k.start].state = "Started"
       /\ \A v \in User : ScoreOf(k.copy[k.start], v) = 0

\* What a handler has to save, told by what it read.
LEMMA HandlerTold ==
  ASSUME Typed, All(FairGame), NEW u \in User, Handler(u), ~restarted'
  PROVE  Told(task'[u])
<1>1. PICK G, s, i : Handles(u, G, s, i) /\ Edits(u, G, s, i)
  BY HandlerEdits DEF HandlerEdited
<1> DEFINE k == [copy |-> G, read |-> games, start |-> i]
<1>2. k.copy = G /\ k.read = games /\ k.start = i
  OBVIOUS
<1> HIDE DEF k
<1>3. Told(task'[u]) <=> Told(k)
  <2>1. task'[u].copy = G /\ task'[u].read = games /\ task'[u].start = i
    BY <1>1, SetIs DEF Handles
  <2> QED
    BY <1>2, <2>1 DEF Told
<1>4. \A j \in DOMAIN games : \A v \in User : ScoreOf(games[j], v) <= ScoreOf(games[j], v)
  <2>1. \A j \in DOMAIN games : \A v \in User : ScoreOf(games[j], v) \in Nat
    BY TypedParts, EndsAre
  <2> QED
    BY <2>1
<1>5. CASE Unedited(u, G, s, i)
  BY <1>2, <1>3, <1>4, <1>5 DEF Unedited, Told, NoGames
<1>6. CASE Edited(u, G, s, i)
  <2>1. PICK j \in DOMAIN games, h \in Game :
          /\ G = [games EXCEPT ![j] = h]
          /\ \/ i = NoGame /\ \/ Looks(u, j, h, s) \/ Enters(u, j, h, s) \/ Leaves(u, j, h, s)
                              \/ Kicks(u, j, h, s) \/ Aims(u, j, h, s)
             \/ i = j /\ Starts(u, j, h, s)
    BY <1>6 DEF Edited
  <2>2. DOMAIN G = DOMAIN games /\ G[j] = h /\ \A l \in DOMAIN games : l # j => G[l] = games[l]
    BY <2>1
  <2>3. CASE i = NoGame /\ Tame(games[j], h)
    BY <1>2, <1>3, <1>4, <2>2, <2>3 DEF Told, Tame
  <2>4. CASE i = j /\ Starts(u, j, h, s)
    <3>1. games[j].state = "Waiting" /\ h = StartGame(games[j])
      BY <2>4 DEF Starts
    <3>2. games[j] \in FairGame /\ games[j] \in Game
      BY TableChange, TypedParts DEF All
    <3>3. h.state = "Started" /\ \A t \in TeamsOf(h) : Zeros(h.teams[t])
      BY <3>1, <3>2, FairStart, StartGameIs
    <3>4. \A v \in User : ScoreOf(h, v) = 0 /\ ScoreOf(games[j], v) = 0
      BY <3>1, <3>2, <3>3, ScoreZero, NoScore DEF Zeros
    <3> QED
      BY <1>2, <1>3, <1>4, <2>2, <2>4, <3>1, <3>3, <3>4 DEF Told
  <2> QED
    BY <2>1, <2>3, <2>4, TameEdit
<1>7. CASE Created(u, G, s, i)
  <2>1. PICK m \in Id \ DOMAIN games, n \in TeamAmounts : G = With(games, m, NewGame(u, n))
    BY <1>7 DEF Created
  <2>2. NewGame(u, n).state = "Waiting" /\ i = NoGame
    BY <1>7, NewGameIs DEF Created
  <2>3. DOMAIN G = DOMAIN games \cup {m} /\ G[m] = NewGame(u, n)
        /\ \A l \in DOMAIN games : G[l] = games[l]
    BY <2>1 DEF With
  <2> QED
    BY <1>2, <1>3, <1>4, <2>1, <2>2, <2>3 DEF Told
<1>8. CASE Dropped(u, G, s, i)
  <2>1. i = NoGame /\ DOMAIN G \subseteq DOMAIN games /\ \A l \in DOMAIN G : G[l] = games[l]
    BY <1>8 DEF Dropped, Less
  <2> QED
    BY <1>2, <1>3, <1>4, <2>1 DEF Told
<1> QED
  BY <1>1, <1>5, <1>6, <1>7, <1>8 DEF Edits

-----------------------------------------------------------------------------
(* What a cycle has to save                                                *)

\* The copy of a cycle is the table it read, but for its own game.
CopyOf(c, i) ==
  /\ DOMAIN c.copy = DOMAIN c.read /\ i \in DOMAIN c.copy
  /\ \A j \in DOMAIN c.copy \ {i} : c.copy[j] = c.read[j]
  /\ Richer(c.read[i], c.copy[i])
  /\ \/ c.copy[i].state = c.read[i].state
     \/ c.then = "last" /\ c.copy[i].state = "Ended"
  /\ c.pc = "take" \/ c.then = "count" => c.copy = c.read
  /\ c.then # "off" /\ (c.pc = "take" => c.then = "tick")
Carries == \A i \in Id : cycle[i].pc \in {"take", "save"} => CopyOf(cycle[i], i)

\* Nobody is poorer in the same game.
LEMMA RicherSelf ==
  ASSUME NEW g \in Game
  PROVE  Richer(g, g)
<1>1. \A t \in TeamsOf(g) : \A n \in DOMAIN g.teams[t] : g.teams[t][n].score \in Nat
  BY PlayerIn, PlayerParts
<1> QED
  BY <1>1 DEF Richer, SameSeats

\* The game that is over is the one that the last tick made.
LEMMA OverIs ==
  ASSUME NEW g \in Game, Tick(g) \in Game, Over(g) \in Game
  PROVE  /\ Tick(g).state = g.state /\ Over(g).state = "Ended" /\ Over(g).teams = Tick(g).teams
         /\ Richer(g, Tick(g)) /\ Richer(g, Over(g))
         /\ \A u : ScoreOf(Over(g), u) = ScoreOf(Tick(g), u)
<1>1. Tick(g).state = g.state /\ Over(g).state = "Ended" /\ Over(g).teams = Tick(g).teams
  <2>1. DOMAIN Tick(g) = GameFields
    BY DEF Game, GameFields
  <2>2. Over(g).state = "Ended" /\ Over(g).teams = Tick(g).teams
    BY <2>1 DEF Over, GameFields
  <2>3. Tick(g).state = g.state
    BY TickTyped, TickIs
  <2> QED
    BY <2>2, <2>3
<1>2. Richer(g, Tick(g))
  BY TickScore
<1>3. Richer(g, Over(g))
  BY <1>1, <1>2 DEF Richer, SameSeats, TeamsOf
<1>4. \A u : ScoreOf(Over(g), u) = ScoreOf(Tick(g), u)
  BY <1>1, SameTeamsScore
<1> QED
  BY <1>1, <1>2, <1>3, <1>4

\* A cycle that goes on holds a copy of what it reads, but for its own game.
LEMMA CarriedMoves ==
  ASSUME Typed, Carries, NEW i \in Id, NEW c, CycleMoves(i, c), c.pc \in {"take", "save"}
  PROVE  CopyOf(c, i)
<1>g. Has(i) => i \in DOMAIN games /\ games[i] \in Game
  BY TypedParts DEF Has
<1>1. CASE Counts(i, c)
  BY <1>1, <1>g, RicherSelf DEF Counts, CopyOf
<1>2. CASE Charges(i, c)
  BY <1>2 DEF Charges, Carries, CopyOf
<1>3. CASE Ticks(i, c)
  <2> DEFINE g == games[i]
  <2>1. /\ i \in DOMAIN games /\ g \in Game /\ Tick(g) \in Game /\ Over(g) \in Game
        /\ c.pc = "save" /\ c.read = games
        /\ \/ c.then = "tick" /\ c.copy = [games EXCEPT ![i] = Tick(g)]
           \/ /\ c.then = "last"
              /\ \/ c.copy = [games EXCEPT ![i] = Tick(g)]
                 \/ c.copy = [games EXCEPT ![i] = Over(g)]
    BY <1>3, <1>g DEF Ticks
  <2>2. /\ Tick(g).state = g.state /\ Over(g).state = "Ended"
        /\ Richer(g, Tick(g)) /\ Richer(g, Over(g))
    BY <2>1, OverIs
  <2>3. \A h : /\ DOMAIN [games EXCEPT ![i] = h] = DOMAIN games
               /\ [games EXCEPT ![i] = h][i] = h
               /\ \A j \in DOMAIN games \ {i} : [games EXCEPT ![i] = h][j] = games[j]
    BY <2>1
  <2>4. PICK h : /\ c.copy = [games EXCEPT ![i] = h] /\ Richer(g, h)
                 /\ h.state = g.state \/ (c.then = "last" /\ h.state = "Ended")
    BY <2>1, <2>2
  <2>5. DOMAIN c.copy = DOMAIN games /\ c.copy[i] = h
        /\ \A j \in DOMAIN games \ {i} : c.copy[j] = games[j]
    BY <2>3, <2>4
  <2>6. c.then \in {"tick", "last"} /\ c.pc = "save"
    BY <2>1
  <2> QED
    BY <2>1, <2>4, <2>5, <2>6 DEF CopyOf
<1>4. CASE Stops(i, c) \/ Begins(i, c)
  BY <1>4 DEF Stops, Begins
<1> QED
  BY <1>1, <1>2, <1>3, <1>4 DEF CycleMoves

\* And every step leaves the copies of cycles so.
LEMMA CarriesNext == Typed /\ Purses /\ Carries /\ [Next]_vars => Carries'
<1> SUFFICES ASSUME Typed, Purses, Carries, [Next]_vars PROVE Carries'
  OBVIOUS
<1>d. DOMAIN cycle = Id
  BY DEF Typed
<1>1. UNCHANGED cycle => Carries'
  BY DEF Carries
<1>2. ASSUME NEW u \in User, Handler(u) \/ Forget(u) \/ Save(u)
      PROVE  UNCHANGED cycle
  <2>1. Handler(u) => UNCHANGED cycle
    BY HandlerEdits DEF HandlerEdited, Handles
  <2> QED
    BY <1>2, <2>1 DEF Forget, Save
<1>3. ASSUME NEW i \in Id, NEW c, cycle' = [cycle EXCEPT ![i] = c],
             c.pc \in {"take", "save"} => CopyOf(c, i)
      PROVE  Carries'
  <2>1. cycle'[i] = c /\ \A j \in Id \ {i} : cycle'[j] = cycle[j]
    BY <1>d, <1>3
  <2> QED
    BY <1>3, <2>1 DEF Carries
<1>4. ASSUME NEW u \in User, SpawnCycle(u)
      PROVE  Carries'
  <2> DEFINE i == task[u].start
             c == [cycle[i] EXCEPT !.pc = "begin"]
  <2>1. CASE UNCHANGED cycle
    BY <1>1, <2>1
  <2>2. CASE ~UNCHANGED cycle
    <3>1. cycle[i].pc = "off" /\ cycle' = [cycle EXCEPT ![i] = c]
      BY <1>4, <2>2 DEF SpawnCycle
    <3>2. i \in Id
      <4>1. cycle \in [Id -> Cycle]
        BY DEF Typed
      <4>2. i \notin Id => [cycle EXCEPT ![i] = c] = cycle
        <5> HIDE DEF i, c
        <5> QED
          BY <4>1
      <4> QED
        BY <2>2, <3>1, <4>2
    <3>3. c.pc = "begin"
      BY <3>2, TypedParts DEF Cycle
    <3> HIDE DEF i, c
    <3> QED
      BY <1>3, <3>1, <3>2, <3>3
  <2> QED
    BY <2>1, <2>2
<1>5. ASSUME NEW i \in Id, CycleGoes(i)
      PROVE  Carries'
  <2>1. PICK c : CycleMoves(i, c)
    BY <1>5, CycleGoesOn
  <2> QED
    BY <1>3, <2>1, CarriedMoves DEF CycleMoves, Cycles
<1>6. ASSUME NEW i \in Id, CycleSave(i)
      PROVE  Carries'
  <2> DEFINE c == [Off EXCEPT !.pc = cycle[i].then, !.steps = cycle[i].steps]
  <2>1. cycle' = [cycle EXCEPT ![i] = c] /\ cycle[i].then \in {"off", "count", "tick", "last"}
    BY <1>6, TypedParts DEF CycleSave
  <2>2. c.pc = cycle[i].then
    BY DEF Off
  <2> HIDE DEF c
  <2> QED
    BY <1>3, <2>1, <2>2
<1>7. CASE UNCHANGED vars
  BY <1>1, <1>7 DEF vars
<1> QED
  BY <1>1, <1>2, <1>4, <1>5, <1>6, <1>7, NextIs

-----------------------------------------------------------------------------
(* Rounds: who plays while the cycle of a game is busy                     *)

Quiet == ~raced /\ ~restarted /\ ~reused
\* The cycle of a game there is, is busy only when the game was started.
Round(j) ==
  Has(j) /\ Busy(j) =>
    games[j].state = "Started" \/ (games[j].state = "Ended" /\ cycle[j].pc = "last")
\* Who is about to spawn a cycle finds none, and nobody else is about to.
Called(u) ==
  task[u].pc = "spawn" =>
    /\ task[u].start \in Id /\ cycle[task[u].start].pc = "off"
    /\ \A v \in User \ {u} : task[v].pc = "spawn" => task[v].start # task[u].start
Rounds ==
  Quiet => /\ \A u \in User : task[u].pc = "save" => Told(task[u])
           /\ \A j \in Id : Round(j)
           /\ \A u \in User : Called(u)

\* What a save does to tasks.
LEMMA SaveIs ==
  ASSUME Typed, NEW u \in User, Save(u)
  PROVE  /\ task[u].pc = "save" /\ games' = task[u].copy /\ cycle' = cycle /\ UNCHANGED purse
         /\ sess' = [sess EXCEPT ![u] = task[u].then]
         /\ task'[u].pc = (IF task[u].start = NoGame THEN "ready" ELSE "spawn")
         /\ task'[u].start = task[u].start /\ \A v \in User \ {u} : task'[v] = task[v]
         /\ ~raced' => games = task[u].read
         /\ ~reused' => \A i \in DOMAIN games' \ DOMAIN games : ~Busy(i)
         /\ UNCHANGED <<gone, restarted>>
<1>1. task \in [User -> Task] /\ AtRest.pc = "ready" /\ AtRest.start = NoGame
  BY DEF Typed, AtRest
<1>2. \A i : /\ [AtRest EXCEPT !.pc = "spawn", !.start = i].pc = "spawn"
             /\ [AtRest EXCEPT !.pc = "spawn", !.start = i].start = i
  BY DEF AtRest
<1>3. PICK k : /\ task' = [task EXCEPT ![u] = k]
               /\ k = IF task[u].start = NoGame THEN AtRest
                      ELSE [AtRest EXCEPT !.pc = "spawn", !.start = task[u].start]
  BY DEF Save
<1>4. /\ k.pc = (IF task[u].start = NoGame THEN "ready" ELSE "spawn")
      /\ k.start = task[u].start
  BY <1>1, <1>2, <1>3
<1>5. task'[u] = k /\ \A v \in User \ {u} : task'[v] = task[v]
  BY <1>1, <1>3
<1>6. /\ task[u].pc = "save" /\ games' = task[u].copy /\ cycle' = cycle /\ UNCHANGED purse
      /\ sess' = [sess EXCEPT ![u] = task[u].then]
      /\ ~raced' => games = task[u].read
      /\ ~reused' => \A i \in DOMAIN games' \ DOMAIN games : ~Busy(i)
      /\ UNCHANGED <<gone, restarted>>
  BY DEF Save
<1> QED
  BY <1>4, <1>5, <1>6

\* What spawning a cycle does.
LEMMA SpawnIs ==
  ASSUME Typed, NEW u \in User, SpawnCycle(u)
  PROVE  LET i == task[u].start
         IN /\ task[u].pc = "spawn" /\ UNCHANGED <<games, sess, purse>>
            /\ task'[u] = AtRest /\ \A v \in User \ {u} : task'[v] = task[v]
            /\ \A j \in Id : \/ cycle'[j] = cycle[j] /\ ~(j = i /\ cycle[j].pc = "off")
                             \/ j = i /\ cycle[j].pc = "off" /\ cycle'[j].pc = "begin"
<1> DEFINE i == task[u].start
<1>1. task \in [User -> Task] /\ cycle \in [Id -> Cycle] /\ i \in Id \cup {NoGame}
      /\ DOMAIN cycle = Id
  BY TypedParts DEF Typed
<1>2. /\ task[u].pc = "spawn" /\ UNCHANGED <<games, sess, purse>>
      /\ task' = [task EXCEPT ![u] = AtRest]
      /\ IF cycle[i].pc = "off" THEN cycle' = [cycle EXCEPT ![i].pc = "begin"]
         ELSE UNCHANGED cycle
  BY DEF SpawnCycle
<1>3. task'[u] = AtRest /\ \A v \in User \ {u} : task'[v] = task[v]
  BY <1>1, <1>2
<1>4. ASSUME NEW j \in Id
      PROVE  \/ cycle'[j] = cycle[j] /\ ~(j = i /\ cycle[j].pc = "off")
             \/ j = i /\ cycle[j].pc = "off" /\ cycle'[j].pc = "begin"
  <2>1. CASE j = i /\ cycle[j].pc = "off"
    <3>1. cycle' = [cycle EXCEPT ![j].pc = "begin"] /\ cycle[j] \in Cycle
      BY <1>1, <1>2, <2>1
    <3>2. cycle'[j] = [cycle[j] EXCEPT !.pc = "begin"]
      BY <1>1, <3>1
    <3>3. cycle'[j].pc = "begin"
      BY <3>1, <3>2 DEF Cycle
    <3> QED
      BY <2>1, <3>3
  <2>2. CASE ~(j = i /\ cycle[j].pc = "off")
    BY <1>1, <1>2, <2>2
  <2> QED
    BY <2>1, <2>2
<1> QED
  BY <1>2, <1>3, <1>4

\* What a cycle saves.
LEMMA CycleSaveIs ==
  ASSUME Typed, Carries, NEW i \in Id, CycleSave(i)
  PROVE  /\ cycle[i].pc = "save" /\ games' = cycle[i].copy /\ CopyOf(cycle[i], i)
         /\ UNCHANGED <<sess, task, purse>> /\ UNCHANGED <<gone, restarted, reused>>
         /\ ~raced' => games = cycle[i].read
         /\ cycle'[i].pc = cycle[i].then /\ \A j \in Id \ {i} : cycle'[j] = cycle[j]
         /\ cycle[i].then \in {"count", "tick", "last"}
<1>1. cycle \in [Id -> Cycle] /\ cycle[i].then \in {"off", "count", "tick", "last"}
  BY TypedParts DEF Typed
<1> DEFINE c == [Off EXCEPT !.pc = cycle[i].then, !.steps = cycle[i].steps]
<1>2. c.pc = cycle[i].then
  BY DEF Off
<1>3. /\ cycle[i].pc = "save" /\ games' = cycle[i].copy /\ cycle' = [cycle EXCEPT ![i] = c]
      /\ UNCHANGED <<sess, task, purse>> /\ UNCHANGED <<gone, restarted, reused>>
      /\ ~raced' => games = cycle[i].read
  BY DEF CycleSave
<1>4. CopyOf(cycle[i], i)
  BY <1>3 DEF Carries
<1>5. cycle[i].then \in {"count", "tick", "last"}
  BY <1>1, <1>4 DEF CopyOf
<1> HIDE DEF c
<1>6. cycle'[i] = c /\ \A j \in Id \ {i} : cycle'[j] = cycle[j]
  BY <1>1, <1>3
<1> QED
  BY <1>2, <1>3, <1>4, <1>5, <1>6

\* Every step keeps to the rounds.
LEMMA RoundsNext ==
  Typed /\ Purses /\ Carries /\ AllFair /\ Rounds /\ [Next]_vars => Rounds'
<1> SUFFICES ASSUME Typed, Purses, Carries, AllFair, Rounds, [Next]_vars, Quiet'
             PROVE  /\ \A u \in User : task'[u].pc = "save" => Told(task'[u])
                    /\ \A j \in Id : Round(j)'
                    /\ \A u \in User : Called(u)'
  BY DEF Rounds, Told
<1>1. Quiet /\ ~raced' /\ ~restarted' /\ ~reused'
  BY FlagsGrow DEF Quiet
<1>2. /\ \A u \in User : task[u].pc = "save" => Told(task[u])
      /\ \A j \in Id : Round(j)
      /\ \A u \in User : Called(u)
  BY <1>1 DEF Rounds
<1>3. All(FairGame)
  BY <1>1 DEF AllFair, Quiet
<1> DEFINE Goal1 == /\ \A u \in User : task'[u].pc = "save" => Told(task'[u])
                    /\ \A j \in Id : Round(j)'
                    /\ \A u \in User : Called(u)'
<1>4. ASSUME NEW u \in User, Handler(u)
      PROVE  Goal1
  <2>1. PICK G, s, i : Handles(u, G, s, i)
    BY <1>4, HandlerEdits DEF HandlerEdited
  <2>2. /\ task'[u].pc = "save" /\ task[u].pc = "ready" /\ games' = games /\ cycle' = cycle
        /\ \A v \in User \ {u} : task'[v] = task[v]
    BY <2>1, SetIs DEF Handles, Ready
  <2>3. Told(task'[u])
    BY <1>1, <1>3, <1>4, HandlerTold
  <2>4. \A v \in User : task'[v].pc = "spawn" => task'[v] = task[v]
    BY <2>2
  <2>5. \A j : Busy(j)' => Busy(j)
    BY <2>2, <2>4 DEF Busy
  <2>6. \A j \in Id : Round(j)'
    BY <1>2, <2>2, <2>5 DEF Round, Has
  <2>7. \A v \in User : Called(v)'
    BY <1>2, <2>2, <2>4 DEF Called
  <2> QED
    BY <1>2, <2>2, <2>3, <2>6, <2>7
<1>5. ASSUME UNCHANGED <<games, task, cycle>>
      PROVE  Goal1
  BY <1>2, <1>5 DEF Round, Called, Busy, Has
<1>6. ASSUME NEW u \in User, Save(u)
      PROVE  Goal1
  <2> DEFINE k == task[u]
             i == k.start
  <2>1. /\ k.pc = "save" /\ games' = k.copy /\ cycle' = cycle /\ games = k.read
        /\ task'[u].pc = (IF i = NoGame THEN "ready" ELSE "spawn")
        /\ task'[u].start = i /\ \A v \in User \ {u} : task'[v] = task[v]
        /\ \A j \in DOMAIN games' \ DOMAIN games : ~Busy(j)
    BY <1>1, <1>6, SaveIs
  <2>2. Told(k) /\ i \in Id \cup {NoGame}
    BY <1>2, <2>1, TypedParts
  <2> HIDE DEF k, i
  <2>3. i # NoGame => /\ i \in Id /\ i \in DOMAIN games /\ games[i].state = "Waiting"
                      /\ games'[i].state = "Started"
    BY <2>1, <2>2 DEF Told, i
  <2>4. i # NoGame => ~Busy(i)
    BY <1>2, <2>3 DEF Round, Has
  <2>5. ASSUME NEW j \in Id, (Has(j) /\ Busy(j))'
        PROVE  games'[j].state = "Started" \/ (games'[j].state = "Ended" /\ cycle'[j].pc = "last")
    <3>1. j \in DOMAIN games'
      BY <2>5 DEF Has
    <3>2. CASE j = i
      BY <2>3, <3>2, <2>1 DEF Id, NoGame
    <3>3. CASE j # i
      <4>1. Busy(j)
        BY <2>1, <2>5, <3>3 DEF Busy
      <4>2. j \in DOMAIN games /\ games'[j].state = games[j].state
        BY <2>1, <2>2, <3>1, <3>3, <4>1 DEF Told, i
      <4> QED
        BY <1>2, <2>1, <4>1, <4>2 DEF Round, Has
    <3> QED
      BY <3>2, <3>3
  <2>6. \A v \in User : Called(v)'
    <3> TAKE v \in User
    <3>1. CASE v = u
      BY <2>1, <2>3, <2>4, <3>1 DEF Called, Busy
    <3>2. CASE v # u
      BY <1>2, <2>1, <2>3, <2>4, <3>2 DEF Called, Busy
    <3> QED
      BY <3>1, <3>2
  <2>7. \A v \in User : task'[v].pc = "save" => Told(task'[v])
    BY <1>2, <2>1
  <2> QED
    BY <2>5, <2>6, <2>7 DEF Round
<1>7. ASSUME NEW u \in User, SpawnCycle(u)
      PROVE  Goal1
  <2> DEFINE i == task[u].start
  <2>1. /\ task[u].pc = "spawn" /\ games' = games
        /\ task'[u] = AtRest /\ \A v \in User \ {u} : task'[v] = task[v]
        /\ \A j \in Id : \/ cycle'[j] = cycle[j] /\ ~(j = i /\ cycle[j].pc = "off")
                         \/ j = i /\ cycle[j].pc = "off" /\ cycle'[j].pc = "begin"
    BY <1>7, SpawnIs
  <2>2. /\ i \in Id /\ cycle[i].pc = "off"
        /\ \A v \in User \ {u} : task[v].pc = "spawn" => task[v].start # i
    BY <1>2, <2>1 DEF Called
  <2>3. AtRest.pc = "ready"
    BY DEF AtRest
  <2> HIDE DEF i
  <2>4. cycle'[i].pc = "begin" /\ \A j \in Id \ {i} : cycle'[j] = cycle[j]
    BY <2>1, <2>2
  <2>5. \A j \in Id : Busy(j)' => Busy(j)
    BY <2>1, <2>2, <2>3, <2>4 DEF Busy, i
  <2>6. \A j \in Id : Round(j)'
    <3> TAKE j \in Id
    <3>1. j # i => Round(j)'
      BY <1>2, <2>1, <2>4, <2>5 DEF Round, Has
    <3>2. j = i => Round(j)'
      BY <1>2, <2>1, <2>2, <2>5 DEF Round, Has
    <3> QED
      BY <3>1, <3>2
  <2>7. \A v \in User : Called(v)'
    BY <1>2, <2>1, <2>2, <2>3, <2>4 DEF Called
  <2>8. \A v \in User : task'[v].pc = "save" => Told(task'[v])
    BY <1>2, <2>1, <2>3
  <2> QED
    BY <2>6, <2>7, <2>8
<1>8. ASSUME NEW i \in Id, CycleGoes(i)
      PROVE  Goal1
  <2>1. PICK c : CycleMoves(i, c)
    BY <1>8, CycleGoesOn
  <2>2. /\ UNCHANGED <<games, sess, task>> /\ cycle'[i] = c
        /\ \A j \in Id \ {i} : cycle'[j] = cycle[j]
    <3>1. cycle \in [Id -> Cycle]
      BY DEF Typed
    <3> QED
      BY <2>1, <3>1 DEF CycleMoves, Cycles
  <2>3. c.pc = "off" \/ (cycle[i].pc \notin {"off", "last"})
    BY <2>1 DEF CycleMoves, Stops, Begins, Counts, Charges, Ticks
  <2>4. c.pc = "off" => ~Has(i) \/ cycle[i].pc = "last"
    BY <2>1 DEF CycleMoves, Stops, Begins, Counts, Charges, Ticks
  <2>5. \A v \in User : Called(v)'
    <3> TAKE v \in User
    <3>1. task[v].pc = "spawn" /\ task[v].start = i => cycle'[i].pc = "off"
      BY <1>2, <2>2, <2>3 DEF Called
    <3> QED
      BY <1>2, <2>2, <3>1 DEF Called
  <2>6. \A j \in Id : Round(j)'
    <3> TAKE j \in Id
    <3>1. CASE j # i
      BY <1>2, <2>2, <3>1 DEF Round, Has, Busy
    <3>2. CASE j = i /\ c.pc # "off"
      BY <1>2, <2>2, <2>3, <3>2 DEF Round, Has, Busy
    <3>3. CASE j = i /\ c.pc = "off" /\ ~Has(i)
      BY <2>2, <3>3 DEF Round, Has
    <3>4. CASE j = i /\ c.pc = "off" /\ cycle[i].pc = "last"
      BY <1>2, <2>2, <3>4 DEF Round, Has, Busy, Called
    <3> QED
      BY <2>4, <3>1, <3>2, <3>3, <3>4
  <2> QED
    BY <1>2, <2>2, <2>5, <2>6
<1>9. ASSUME NEW i \in Id, CycleSave(i)
      PROVE  Goal1
  <2>1. /\ cycle[i].pc = "save" /\ games' = cycle[i].copy /\ CopyOf(cycle[i], i)
        /\ UNCHANGED <<sess, task, purse>> /\ games = cycle[i].read
        /\ cycle'[i].pc = cycle[i].then /\ \A j \in Id \ {i} : cycle'[j] = cycle[j]
        /\ cycle[i].then \in {"count", "tick", "last"}
    BY <1>1, <1>9, CycleSaveIs
  <2>2. \A j \in Id : Busy(j)' => Busy(j)
    BY <2>1 DEF Busy
  <2>3. \A j \in Id : Round(j)'
    <3> TAKE j \in Id
    <3>1. CASE j # i
      BY <1>2, <2>1, <2>2, <3>1 DEF Round, Has, CopyOf
    <3>2. CASE j = i
      <4>1. Busy(i) /\ i \in DOMAIN games
        BY <2>1 DEF Busy, CopyOf
      <4>2. games[i].state = "Started"
        BY <1>2, <2>1, <4>1 DEF Round, Has
      <4>3. games'[i].state = "Started" \/ (games'[i].state = "Ended" /\ cycle'[i].pc = "last")
        BY <2>1, <4>2 DEF CopyOf
      <4> QED
        BY <3>2, <4>3 DEF Round
    <3> QED
      BY <3>1, <3>2
  <2>4. \A v \in User : Called(v)'
    BY <1>2, <2>1 DEF Called
  <2> QED
    BY <1>2, <2>1, <2>3, <2>4
<1>10. CASE UNCHANGED vars
  BY <1>5, <1>10 DEF vars
<1> QED
  BY <1>4, <1>5, <1>6, <1>7, <1>8, <1>9, <1>10, NextIs DEF Forget

-----------------------------------------------------------------------------
(* Nobody is credited with more points than were made                      *)

\* What user u is still to get for game j, if the cycle of j comes to its end.
Due(j, u) ==
  IF cycle[j].pc \in {"take", "save"}
  THEN IF cycle[j].then = "last" THEN 0 ELSE ScoreOf(cycle[j].copy[j], u)
  ELSE IF Has(j) /\ (cycle[j].pc \in {"begin", "count", "tick"} \/ Awaits(j))
  THEN ScoreOf(games[j], u) ELSE 0
Dues(u) == [j \in Id |-> Due(j, u)]
Owed(u) == SumFunctionOnSet(Dues(u), Id)
Ledger == Quiet => \A u \in User : points[u] + Owed(u) <= scored[u]

DuesNatural ==
  \A u \in User : /\ Natural(Dues(u), Id) /\ Owed(u) \in Nat
                  /\ \A j \in Id : Due(j, u) \in Nat

\* What is due is a number.
LEMMA DuesAre == Typed /\ Carries => DuesNatural
<1> SUFFICES ASSUME Typed, Carries, NEW u \in User
             PROVE  Natural(Dues(u), Id) /\ Owed(u) \in Nat /\ \A j \in Id : Due(j, u) \in Nat
  BY DEF DuesNatural
<1>1. ASSUME NEW j \in Id
      PROVE  Due(j, u) \in Nat
  <2>1. Has(j) => ScoreOf(games[j], u) \in Nat
    BY TypedParts, EndsAre DEF Has
  <2>2. ASSUME cycle[j].pc \in {"take", "save"}
        PROVE  ScoreOf(cycle[j].copy[j], u) \in Nat
    <3>1. j \in DOMAIN cycle[j].copy /\ cycle[j].copy \in Tables(Game)
      BY <2>2, TypedParts DEF Carries, CopyOf
    <3>2. cycle[j].copy[j] \in Game
      BY <3>1, TableChange
    <3> QED
      BY <3>2, EndsAre
  <2> QED
    BY <2>1, <2>2 DEF Due
<1>2. IsFiniteSet(Id)
  BY FS_Interval, GamesAssumption DEF Id
<1>3. Natural(Dues(u), Id)
  BY <1>1, <1>2 DEF Natural, Dues
<1> QED
  BY <1>1, <1>3, SumNat DEF Owed

\* When nobody's points change, it is enough that nobody is due more.
LEMMA DuesLess ==
  ASSUME Typed, Carries, Typed', Carries', Ledger, Quiet, points' = points, scored' = scored,
         points \in [User -> Nat], scored \in [User -> Nat],
         NEW u \in User, \A j \in Id : Due(j, u)' <= Due(j, u)
  PROVE  points'[u] + Owed(u)' <= scored'[u]
<1>1. Natural(Dues(u), Id) /\ Owed(u) \in Nat
  BY DuesAre DEF DuesNatural
<1>p. DuesNatural'
  BY DuesAre, PTL
<1>2. Natural(Dues(u)', Id) /\ Owed(u)' \in Nat
  BY <1>p DEF DuesNatural
<1> DEFINE f == Dues(u)'
           e == Dues(u)
<1>3. \A j \in Id : f[j] <= e[j]
  BY DEF Dues
<1>4. Natural(f, Id) /\ f = Dues(u)'
  BY <1>2
<1>5. SumFunctionOnSet(f, Id) <= SumFunctionOnSet(e, Id)
  <2>1. Natural(e, Id)
    BY <1>1
  <2> HIDE DEF e, f
  <2> QED
    BY <1>3, <1>4, <2>1, SumLess
<1>6. Owed(u)' = SumFunctionOnSet(f, Id) /\ Owed(u) = SumFunctionOnSet(e, Id)
  BY DEF Owed
<1>7. points[u] + Owed(u) <= scored[u]
  BY DEF Ledger
<1> HIDE DEF f, e
<1> QED
  BY <1>1, <1>2, <1>5, <1>6, <1>7

Lessens == \A u \in User : \A j \in Id : Due(j, u)' <= Due(j, u)

\* A tick: what was made is due, and what is credited is no longer.
LEMMA TickPays ==
  ASSUME Typed, Carries, Typed', Carries', Ledger, Quiet, Purses,
         NEW i \in Id, NEW c, CycleMoves(i, c), Ticks(i, c), NEW u \in User
  PROVE  points'[u] + Owed(u)' <= scored'[u]
<1> DEFINE g == games[i]
           f == Dues(u)
           e == Dues(u)'
           s0 == ScoreOf(g, u)
           s1 == ScoreOf(Tick(g), u)
<1>1. /\ i \in DOMAIN games /\ g \in Game /\ Tick(g) \in Game /\ Over(g) \in Game
      /\ cycle[i].pc = "tick" /\ c.pc = "save"
  BY TypedParts DEF Ticks, Has
<1>2. s0 \in Nat /\ s1 \in Nat /\ s0 <= s1 /\ ScoreOf(Over(g), u) = s1
  BY <1>1, EndsAre, TickScore, OverIs
<1>3. DuesNatural /\ DuesNatural'
  BY DuesAre, PTL
<1>4. /\ Natural(f, Id) /\ Natural(e, Id) /\ Owed(u) \in Nat /\ Owed(u)' \in Nat
      /\ Owed(u) = SumFunctionOnSet(f, Id) /\ Owed(u)' = SumFunctionOnSet(e, Id)
      /\ e[i] = Due(i, u)' /\ f[i] = Due(i, u) /\ e[i] \in Nat
      /\ \A j \in Id : f[j] = Due(j, u) /\ e[j] = Due(j, u)'
  BY <1>3 DEF DuesNatural, Owed, Dues
<1>5. UNCHANGED <<games, sess, task>> /\ cycle'[i] = c
      /\ \A j \in Id \ {i} : cycle'[j] = cycle[j]
  <2>1. cycle \in [Id -> Cycle]
    BY DEF Typed
  <2> QED
    BY <2>1 DEF CycleMoves, Cycles
<1>6. \A j \in Id \ {i} : e[j] = f[j]
  <2> TAKE j \in Id \ {i}
  <2>1. Due(j, u)' = Due(j, u)
    BY <1>5 DEF Due, Has, Awaits
  <2> QED
    BY <1>4, <2>1
<1>7. f[i] = s0
  BY <1>1, <1>4 DEF Due, Has
<1>8. SumFunctionOnSet(e, Id) + f[i] = SumFunctionOnSet(f, Id) + e[i]
  <2> HIDE DEF e, f
  <2> QED
    BY <1>4, <1>6, SumChange
<1>9. scored'[u] = scored[u] + s1 - s0
  BY DEF Ticks, Scored
<1>10. points[u] \in Nat /\ scored[u] \in Nat /\ points[u] + Owed(u) <= scored[u]
  BY DEF Purses, Ledger
<1>11. CASE c.then = "tick"
  <2>1. c.copy = [games EXCEPT ![i] = Tick(g)] /\ points' = points
    BY <1>11 DEF Ticks
  <2>2. c.copy[i] = Tick(g)
    BY <1>1, <2>1
  <2>3. e[i] = s1
    BY <1>1, <1>4, <1>5, <1>11, <2>2 DEF Due
  <2> HIDE DEF e, f, s0, s1
  <2> QED
    BY <1>2, <1>4, <1>7, <1>8, <1>9, <1>10, <2>1, <2>3
<1>12. CASE c.then = "last"
  <2>1. PICK S \in SUBSET User :
          points' = [v \in User |-> points[v] + (IF v \in S THEN ScoreOf(Tick(g), v) ELSE 0)]
    BY <1>12 DEF Ticks
  <2>2. points'[u] = points[u] + s1 \/ points'[u] = points[u] + 0
    BY <2>1
  <2>3. e[i] = 0
    BY <1>1, <1>4, <1>5, <1>12 DEF Due
  <2> HIDE DEF e, f, s0, s1
  <2> QED
    BY <1>2, <1>4, <1>7, <1>8, <1>9, <1>10, <2>2, <2>3
<1> QED
  BY <1>11, <1>12 DEF Ticks

\* A cycle that does not tick makes nothing due.
LEMMA CycleLessens ==
  ASSUME Typed, Carries, Typed', Carries', Quiet, Rounds,
         NEW i \in Id, NEW c, CycleMoves(i, c), ~Ticks(i, c)
  PROVE  Lessens
<1>1. UNCHANGED <<games, sess, task>> /\ cycle'[i] = c
      /\ \A j \in Id \ {i} : cycle'[j] = cycle[j]
  <2>1. cycle \in [Id -> Cycle]
    BY DEF Typed
  <2> QED
    BY <2>1 DEF CycleMoves, Cycles
<1>2. DuesNatural
  BY DuesAre
<1> SUFFICES ASSUME NEW u \in User, NEW j \in Id
             PROVE  Due(j, u)' <= Due(j, u)
  BY DEF Lessens
<1>3. Due(j, u) \in Nat
  BY <1>2 DEF DuesNatural
<1>4. Due(j, u)' \in {Due(j, u), 0}
  <2>1. CASE j # i
    BY <1>1, <2>1 DEF Due, Has, Awaits
  <2>2. CASE j = i /\ Stops(i, c)
    <3>1. c.pc = "off" /\ (~Has(i) \/ cycle[i].pc = "last")
      BY <2>2 DEF Stops
    <3>2. cycle[i].pc = "last" => ~Awaits(i)
      BY DEF Rounds, Called, Awaits
    <3>3. ~(Has(i) /\ Awaits(i))'
      BY <1>1, <3>1, <3>2 DEF Has, Awaits
    <3> QED
      BY <1>1, <2>2, <3>1, <3>3 DEF Due
  <2>3. CASE j = i /\ Begins(i, c)
    BY <1>1, <2>3 DEF Begins, Due, Has, Awaits
  <2>4. CASE j = i /\ Counts(i, c)
    BY <1>1, <2>4 DEF Counts, Due, Has, Awaits
  <2>5. CASE j = i /\ Charges(i, c)
    BY <1>1, <2>5 DEF Charges, Due
  <2> QED
    BY <2>1, <2>2, <2>3, <2>4, <2>5 DEF CycleMoves
<1> QED
  BY <1>3, <1>4

\* Nor does a cycle that saves its copy.
LEMMA CycleSaveLessens ==
  ASSUME Typed, Carries, Quiet, Rounds, ~raced', NEW i \in Id, CycleSave(i)
  PROVE  Lessens
<1>1. /\ cycle[i].pc = "save" /\ games' = cycle[i].copy /\ CopyOf(cycle[i], i)
      /\ UNCHANGED <<sess, task, purse>> /\ games = cycle[i].read
      /\ cycle'[i].pc = cycle[i].then /\ \A j \in Id \ {i} : cycle'[j] = cycle[j]
      /\ cycle[i].then \in {"count", "tick", "last"}
  BY CycleSaveIs
<1>2. DuesNatural
  BY DuesAre
<1> SUFFICES ASSUME NEW u \in User, NEW j \in Id
             PROVE  Due(j, u)' <= Due(j, u)
  BY DEF Lessens
<1>3. Due(j, u) \in Nat
  BY <1>2 DEF DuesNatural
<1>4. Due(j, u)' \in {Due(j, u), 0}
  <2>1. CASE j # i
    <3>1. Has(j)' <=> Has(j)
      BY <1>1 DEF Has, CopyOf
    <3>2. Has(j) => games'[j] = games[j]
      BY <1>1, <2>1 DEF Has, CopyOf
    <3> QED
      BY <1>1, <2>1, <3>1, <3>2 DEF Due, Awaits
  <2>2. CASE j = i /\ cycle[i].then = "last"
    <3>1. cycle'[i].pc = "last" /\ ~Awaits(i)
      BY <1>1, <2>2 DEF Rounds, Called, Awaits
    <3>2. ~Awaits(i)'
      BY <1>1, <3>1 DEF Awaits
    <3> QED
      BY <2>2, <3>1, <3>2 DEF Due
  <2>3. CASE j = i /\ cycle[i].then \in {"count", "tick"}
    BY <1>1, <2>3 DEF Due, Has, CopyOf
  <2> QED
    BY <1>1, <2>1, <2>2, <2>3
<1> QED
  BY <1>3, <1>4

\* Nor does a handler that saves its copy: who starts a game begins at nought.
LEMMA SaveLessens ==
  ASSUME Typed, Carries, Quiet, Rounds, ~raced', ~reused', Typed', Carries', NEW u \in User, Save(u)
  PROVE  Lessens
<1> DEFINE k == task[u]
           i == k.start
<1>1. /\ k.pc = "save" /\ games' = k.copy /\ cycle' = cycle /\ games = k.read
      /\ task'[u].pc = (IF i = NoGame THEN "ready" ELSE "spawn")
      /\ task'[u].start = i /\ \A v \in User \ {u} : task'[v] = task[v]
      /\ \A j \in DOMAIN games' \ DOMAIN games : ~Busy(j)
  BY SaveIs
<1>2. Told(k) /\ i \in Id \cup {NoGame}
  BY <1>1, TypedParts DEF Rounds
<1>3. DuesNatural /\ DuesNatural'
  BY DuesAre, PTL
<1> HIDE DEF k
<1> SUFFICES ASSUME NEW v \in User, NEW j \in Id
             PROVE  Due(j, v)' <= Due(j, v)
  BY DEF Lessens
<1>4. Due(j, v) \in Nat /\ Due(j, v)' \in Nat
  BY <1>3 DEF DuesNatural
<1>5. CASE cycle[j].pc \in {"take", "save"}
  <2>1. Due(j, v)' = Due(j, v)
    BY <1>1, <1>5 DEF Due
  <2> QED
    BY <1>4, <2>1
<1>6. CASE cycle[j].pc \notin {"take", "save"} /\ Due(j, v)' = 0
  BY <1>4, <1>6
<1>7. CASE cycle[j].pc \notin {"take", "save"} /\ Due(j, v)' # 0
  <2>1. /\ j \in DOMAIN games'
        /\ cycle[j].pc \in {"begin", "count", "tick"} \/ Awaits(j)'
        /\ Due(j, v)' = ScoreOf(games'[j], v)
    BY <1>1, <1>7 DEF Due, Has
  <2>2. Awaits(j)' => Awaits(j) \/ (j = i /\ i # NoGame)
    BY <1>1 DEF Awaits
  <2>3. CASE j = i /\ i # NoGame
    BY <1>1, <1>2, <1>7, <2>1, <2>3 DEF Told
  <2>4. CASE ~(j = i /\ i # NoGame)
    <3>1. cycle[j].pc \in {"begin", "count", "tick"} \/ Awaits(j)
      BY <2>1, <2>2, <2>4
    <3>2. Busy(j)
      BY <3>1 DEF Busy, Awaits
    <3>3. j \in DOMAIN games
      BY <1>1, <2>1, <3>2
    <3>4. Due(j, v) = ScoreOf(games[j], v)
      BY <1>7, <3>1, <3>3 DEF Due, Has
    <3>5. ScoreOf(games'[j], v) <= ScoreOf(games[j], v)
      BY <1>1, <1>2, <2>1, <3>3 DEF Told
    <3> QED
      BY <2>1, <3>4, <3>5
  <2> QED
    BY <2>3, <2>4
<1> QED
  BY <1>5, <1>6, <1>7

\* Nor does spawning a cycle: the game had been due already.
LEMMA SpawnLessens ==
  ASSUME Typed, Carries, Quiet, Rounds, NEW u \in User, SpawnCycle(u)
  PROVE  Lessens
<1> DEFINE i == task[u].start
<1>1. /\ task[u].pc = "spawn" /\ games' = games
      /\ task'[u] = AtRest /\ \A v \in User \ {u} : task'[v] = task[v]
      /\ \A j \in Id : \/ cycle'[j] = cycle[j] /\ ~(j = i /\ cycle[j].pc = "off")
                       \/ j = i /\ cycle[j].pc = "off" /\ cycle'[j].pc = "begin"
  BY SpawnIs
<1>2. AtRest.pc = "ready"
  BY DEF AtRest
<1>3. DuesNatural
  BY DuesAre
<1> HIDE DEF i
<1> SUFFICES ASSUME NEW v \in User, NEW j \in Id
             PROVE  Due(j, v)' <= Due(j, v)
  BY DEF Lessens
<1>4. Due(j, v) \in Nat
  BY <1>3 DEF DuesNatural
<1>5. Awaits(j)' => Awaits(j)
  BY <1>1, <1>2 DEF Awaits
<1>6. j = i => Awaits(j)
  BY <1>1 DEF Awaits, i
<1>7. CASE cycle'[j] = cycle[j]
  <2>1. Due(j, v)' \in {Due(j, v), 0}
    BY <1>1, <1>5, <1>7 DEF Due, Has
  <2> QED
    BY <1>4, <2>1
<1>8. CASE j = i /\ cycle[j].pc = "off" /\ cycle'[j].pc = "begin"
  <2>1. Due(j, v)' = Due(j, v)
    BY <1>1, <1>6, <1>8 DEF Due, Has
  <2> QED
    BY <1>4, <2>1
<1> QED
  BY <1>1, <1>7, <1>8

\* Every step keeps points that were credited and points that are due within what was made.
LEMMA LedgerNext ==
  Typed /\ Purses /\ Carries /\ AllFair /\ Rounds /\ Ledger /\ [Next]_vars => Ledger'
<1> SUFFICES ASSUME Typed, Purses, Carries, AllFair, Rounds, Ledger, [Next]_vars, Quiet'
             PROVE  \A u \in User : points'[u] + Owed(u)' <= scored'[u]
  BY DEF Ledger
<1>1. Quiet /\ ~raced' /\ ~reused'
  BY FlagsGrow DEF Quiet
<1>2. Typed' /\ Carries'
  BY TypedNext, CarriesNext
<1>3. points \in [User -> Nat] /\ scored \in [User -> Nat]
  BY DEF Purses
<1>4. ASSUME Lessens, UNCHANGED <<points, scored>>
      PROVE  \A u \in User : points'[u] + Owed(u)' <= scored'[u]
  BY <1>1, <1>2, <1>3, <1>4, DuesLess DEF Lessens
<1>5. ASSUME UNCHANGED <<games, cycle>>, \A v \in User : task'[v].pc = "spawn" => task'[v] = task[v]
      PROVE  Lessens
  <2>1. \A j : Awaits(j)' => Awaits(j)
    BY <1>5 DEF Awaits
  <2>2. DuesNatural
    BY DuesAre
  <2> SUFFICES ASSUME NEW u \in User, NEW j \in Id
               PROVE  Due(j, u)' <= Due(j, u)
    BY DEF Lessens
  <2>3. Due(j, u)' \in {Due(j, u), 0}
    BY <1>5, <2>1 DEF Due, Has
  <2> QED
    BY <2>2, <2>3 DEF DuesNatural
<1>6. ASSUME NEW u \in User, Handler(u)
      PROVE  \A v \in User : points'[v] + Owed(v)' <= scored'[v]
  <2>1. UNCHANGED purse
    BY <1>6, HandlerEdits DEF HandlerEdited
  <2>2. PICK G, s, i : Handles(u, G, s, i)
    BY <1>6, HandlerEdits DEF HandlerEdited
  <2>3. /\ task'[u].pc = "save" /\ games' = games /\ cycle' = cycle
        /\ \A v \in User \ {u} : task'[v] = task[v]
    BY <2>2, SetIs DEF Handles
  <2>4. \A v \in User : task'[v].pc = "spawn" => task'[v] = task[v]
    BY <2>3
  <2>5. Lessens
    BY <1>5, <2>3, <2>4
  <2> QED
    BY <1>4, <2>1, <2>5 DEF purse
<1>7. ASSUME UNCHANGED <<games, cycle, task, purse>>
      PROVE  \A v \in User : points'[v] + Owed(v)' <= scored'[v]
  BY <1>4, <1>5, <1>7 DEF purse
<1>8. ASSUME NEW u \in User, Save(u)
      PROVE  \A v \in User : points'[v] + Owed(v)' <= scored'[v]
  <2>1. UNCHANGED <<points, scored>>
    BY <1>8, SaveIs DEF purse
  <2>2. Lessens
    BY <1>1, <1>2, <1>8, SaveLessens
  <2> QED
    BY <1>4, <2>1, <2>2
<1>9. ASSUME NEW u \in User, SpawnCycle(u)
      PROVE  \A v \in User : points'[v] + Owed(v)' <= scored'[v]
  <2>1. UNCHANGED <<points, scored>>
    BY <1>9, SpawnIs DEF purse
  <2>2. Lessens
    BY <1>1, <1>9, SpawnLessens
  <2> QED
    BY <1>4, <2>1, <2>2
<1>10. ASSUME NEW i \in Id, CycleGoes(i)
       PROVE  \A v \in User : points'[v] + Owed(v)' <= scored'[v]
  <2>1. PICK c : CycleMoves(i, c)
    BY <1>10, CycleGoesOn
  <2>2. CASE Ticks(i, c)
    BY <1>1, <1>2, <2>1, <2>2, TickPays
  <2>3. CASE ~Ticks(i, c)
    <3>1. UNCHANGED <<points, scored>>
      BY <2>1, <2>3 DEF CycleMoves, Stops, Begins, Counts, Charges, purse
    <3>2. Lessens
      BY <1>1, <1>2, <2>1, <2>3, CycleLessens
    <3> QED
      BY <1>4, <3>1, <3>2
  <2> QED
    BY <2>2, <2>3
<1>11. ASSUME NEW i \in Id, CycleSave(i)
       PROVE  \A v \in User : points'[v] + Owed(v)' <= scored'[v]
  <2>1. UNCHANGED <<points, scored>>
    BY <1>11, CycleSaveIs DEF purse
  <2>2. Lessens
    BY <1>1, <1>11, CycleSaveLessens
  <2> QED
    BY <1>4, <2>1, <2>2
<1>12. CASE UNCHANGED vars
  BY <1>7, <1>12 DEF vars
<1>13. ASSUME NEW u \in User, Forget(u)
       PROVE  \A v \in User : points'[v] + Owed(v)' <= scored'[v]
  BY <1>7, <1>13 DEF Forget
<1> QED
  BY <1>6, <1>8, <1>9, <1>10, <1>11, <1>12, <1>13, NextIs

\* What all of the game's theorems stand on.
Sound == Typed /\ Purses /\ Carries /\ AllFair /\ Rounds /\ Ledger

\* The first state is sound.
LEMMA SoundInit == Init => Sound
<1> SUFFICES ASSUME Init PROVE Sound
  OBVIOUS
<1>1. Typed
  BY TypedInit
<1>2. /\ \A u \in User : task[u] = AtRest /\ points[u] = 0 /\ scored[u] = 0
      /\ \A i \in Id : cycle[i] = Off
      /\ games = NoGames
  BY DEF Init
<1>3. AtRest.copy = NoGames /\ Off.copy = NoGames /\ AtRest.pc = "ready" /\ Off.pc = "off"
  BY DEF AtRest, Off
<1>4. Purses
  <2>1. tickets \in [User -> Int] /\ points \in [User -> Nat] /\ scored \in [User -> Nat]
    BY GamesAssumption DEF Init
  <2> QED
    BY <1>2, <1>3, <2>1 DEF Purses
<1>5. Carries
  BY <1>2, <1>3 DEF Carries
<1>6. AllFair
  <2>1. NoGames \in Tables(FairGame)
    <3>1. NoGames \in [{} -> FairGame]
      BY DEF NoGames
    <3> QED
      BY <3>1 DEF Tables
  <2> QED
    BY <1>2, <1>3, <2>1 DEF AllFair, All
<1>7. Rounds
  BY <1>2, <1>3 DEF Rounds, Round, Has, NoGames, Called
<1>8. Ledger
  <2>1. DuesNatural
    BY <1>1, <1>5, DuesAre
  <2>2. ASSUME NEW u \in User
        PROVE  points[u] + Owed(u) <= scored[u]
    <3>1. \A j \in Id : Dues(u)[j] = 0
      BY <1>2, <1>3 DEF Dues, Due, Has, NoGames
    <3>2. Natural(Dues(u), Id)
      BY <2>1 DEF DuesNatural
    <3>3. Owed(u) = 0
      <4> DEFINE f == Dues(u)
      <4> HIDE DEF f
      <4>1. SumFunctionOnSet(f, Id) = 0
        BY <3>1, <3>2, SumZero DEF f
      <4> QED
        BY <4>1 DEF Owed, f
    <3> QED
      BY <1>2, <3>3
  <2> QED
    BY <2>2 DEF Ledger
<1> QED
  BY <1>1, <1>4, <1>5, <1>6, <1>7, <1>8 DEF Sound

\* And every step keeps it.
LEMMA SoundNext == Sound /\ [Next]_vars => Sound'
  BY TypedNext, PursesNext, CarriesNext, AllFairNext, RoundsNext, LedgerNext DEF Sound

\* No team has fewer points than its players have together, whatever copies are lost; and
\* nobody is credited with more points than were made on tiles, unless a copy was lost or
\* an id used again (tick, finish_game); both unless a game was started twice.
THEOREM ScoresAreFair == Spec => []FairScores
<1>1. Sound => FairScores
  <2> SUFFICES ASSUME Sound, ~restarted PROVE FairScores
    BY DEF FairScores
  <2>1. Typed /\ Carries /\ Ledger /\ Purses /\ All(FairGame)
    BY DEF Sound, AllFair
  <2>2. raced \/ reused \/ \A u \in User : points[u] <= scored[u]
    <3> SUFFICES ASSUME ~raced, ~reused, NEW u \in User PROVE points[u] <= scored[u]
      OBVIOUS
    <3>1. points[u] \in Nat /\ scored[u] \in Nat /\ points[u] + Owed(u) <= scored[u]
      BY <2>1 DEF Purses, Ledger, Quiet
    <3>2. Owed(u) \in Nat
      BY <2>1, DuesAre DEF DuesNatural
    <3> QED
      BY <3>1, <3>2
  <2>3. ASSUME NEW i \in DOMAIN games, NEW t \in TeamsOf(games[i])
        PROVE  SumFunction([n \in DOMAIN games[i].teams[t] |-> games[i].teams[t][n].score])
                 <= games[i].scores[t]
    <3>1. games[i] \in FairGame
      BY <2>1, TableChange DEF All
    <3> QED
      BY <3>1 DEF FairGame, Fair, TeamsOf, TeamPoints, PointsIn
  <2> QED
    BY <2>2, <2>3 DEF FairScores
<1> QED
  BY <1>1, SoundInit, SoundNext, PTL DEF Spec

-----------------------------------------------------------------------------
(* Who plays                                                               *)

\* Nobody is twice in the team.
Single(team) == \A m, n \in DOMAIN team : team[m].user = team[n].user => m = n
SameUsers(g, h) ==
  SameSeats(g, h) /\ \A t \in TeamsOf(g) : \A n \in DOMAIN g.teams[t] :
                       h.teams[t][n].user = g.teams[t][n].user

\* Who plays in a part of a team plays in the team, and nobody comes twice.
LEMMA PartPlays ==
  ASSUME NEW s, NEW team, Part(s, team)
  PROVE  /\ \A v : Plays(s, v) => Plays(team, v)
         /\ Single(team) => Single(s)
<1>1. PICK f \in [DOMAIN s -> DOMAIN team] : Sits(s, team, f)
  BY DEF Part
<1>2. \A v : Plays(s, v) => Plays(team, v)
  BY <1>1 DEF Sits, Plays
<1>3. Single(team) => Single(s)
  BY <1>1 DEF Sits, Single
<1> QED
  BY <1>2, <1>3

\* The same users at the same places: the same users play.
LEMMA UsersPlay ==
  ASSUME NEW g, NEW h, SameUsers(g, h)
  PROVE  /\ TeamsOf(h) = TeamsOf(g) /\ \A v : InTeam(h, v) <=> InTeam(g, v)
         /\ \A t \in TeamsOf(g) : /\ \A v : Plays(h.teams[t], v) <=> Plays(g.teams[t], v)
                                  /\ Single(g.teams[t]) => Single(h.teams[t])
<1>1. \A t \in TeamsOf(g) : /\ DOMAIN h.teams[t] = DOMAIN g.teams[t]
                            /\ \A n \in DOMAIN g.teams[t] :
                                 h.teams[t][n].user = g.teams[t][n].user
  BY DEF SameUsers, SameSeats
<1>2. TeamsOf(h) = TeamsOf(g)
  BY DEF SameUsers, SameSeats
<1>3. \A t \in TeamsOf(g) : \A v : Plays(h.teams[t], v) <=> Plays(g.teams[t], v)
  BY <1>1 DEF Plays
<1>4. \A t \in TeamsOf(g) : Single(g.teams[t]) => Single(h.teams[t])
  BY <1>1 DEF Single
<1>5. \A v : InTeam(h, v) <=> InTeam(g, v)
  BY <1>2, <1>3 DEF InTeam
<1> QED
  BY <1>2, <1>3, <1>4, <1>5

\* Who is appended plays, and nobody comes twice who was not there.
LEMMA AppendPlays ==
  ASSUME NEW s \in Seq(Player), NEW p \in Player
  PROVE  /\ \A v : Plays(Append(s, p), v) <=> Plays(s, v) \/ p.user = v
         /\ Single(s) /\ ~Plays(s, p.user) => Single(Append(s, p))
<1>1. /\ DOMAIN s = 1 .. Len(s) /\ Len(s) \in Nat /\ DOMAIN Append(s, p) = 1 .. Len(s) + 1
      /\ \A n \in 1 .. Len(s) : Append(s, p)[n] = s[n]
      /\ Append(s, p)[Len(s) + 1] = p
  OBVIOUS
<1> DEFINE a == Append(s, p)
           l == Len(s) + 1
<1>2. DOMAIN a = DOMAIN s \cup {l} /\ l \notin DOMAIN s /\ a[l] = p
      /\ \A n \in DOMAIN s : a[n] = s[n]
  BY <1>1
<1> HIDE DEF a, l
<1>3. \A v : Plays(a, v) <=> Plays(s, v) \/ p.user = v
  BY <1>2 DEF Plays
<1>4. Single(s) /\ ~Plays(s, p.user) => Single(a)
  BY <1>2 DEF Plays, Single
<1> QED
  BY <1>3, <1>4 DEF a

\* Without a user, a team is without the user.
LEMMA NoneLeft ==
  ASSUME NEW team \in Seq(Player), NEW u
  PROVE  ~Plays(Without(team, u), u)
<1>1. PICK f \in [0 .. Len(team) -> Seq(Player)] :
           /\ f[0] = <<>>
           /\ \A k \in 1 .. Len(team) :
                f[k] = IF team[k].user = u THEN f[k - 1] ELSE Append(f[k - 1], team[k])
           /\ f[Len(team)] = Without(team, u)
  BY WithoutLoop
<1> DEFINE P == {k \in Nat : k <= Len(team) => ~Plays(f[k], u)}
<1>2. Len(team) \in Nat /\ \A k \in 1 .. Len(team) : team[k] \in Player
  OBVIOUS
<1>3. 0 \in P
  BY <1>1 DEF Plays
<1>4. ASSUME NEW k \in Nat, k \in P
      PROVE  k + 1 \in P
  <2> SUFFICES ASSUME k + 1 <= Len(team) PROVE ~Plays(f[k + 1], u)
    OBVIOUS
  <2>1. /\ k + 1 \in 1 .. Len(team) /\ k + 1 - 1 = k /\ k \in 0 .. Len(team)
        /\ ~Plays(f[k], u)
    BY <1>2, <1>4
  <2>2. f[k] \in Seq(Player) /\ team[k + 1] \in Player
    BY <1>1, <1>2, <2>1
  <2>3. f[k + 1] = IF team[k + 1].user = u THEN f[k] ELSE Append(f[k], team[k + 1])
    BY <1>1, <2>1
  <2>4. CASE team[k + 1].user = u
    BY <2>1, <2>3, <2>4
  <2>5. CASE team[k + 1].user # u
    BY <2>1, <2>2, <2>3, <2>5, AppendPlays
  <2> QED
    BY <2>4, <2>5
<1>5. Nat \subseteq P
  <2> HIDE DEF P
  <2> QED
    BY <1>3, <1>4, NatInduct
<1> QED
  BY <1>1, <1>2, <1>5

\* Who was in no other team is in none.
LEMMA TakenOut ==
  ASSUME NEW g \in Game, NEW u \in User, NEW from,
         \A t \in TeamsOf(g) \ {from} : ~Plays(g.teams[t], u)
  PROVE  \A t \in TeamsOf(g) : ~Plays(Taken(g, u, from).teams[t], u)
<1> DEFINE fewer == [g.teams EXCEPT ![from] = Without(@, u)]
           twins == {t \in DOMAIN fewer : Plays(fewer[t], u)}
<1>1. g.teams \in [TeamsOf(g) -> Seq(Player)]
  BY GameTeams
<1>2. \A t \in TeamsOf(g) : ~Plays(fewer[t], u)
  <2> TAKE t \in TeamsOf(g)
  <2>1. CASE t = from
    BY <1>1, <2>1, NoneLeft
  <2>2. CASE t # from
    BY <1>1, <2>2
  <2> QED
    BY <2>1, <2>2
<1>3. DOMAIN fewer = TeamsOf(g)
  BY <1>1
<1>4. twins = {}
  <2> HIDE DEF fewer
  <2> QED
    BY <1>2, <1>3
<1>5. Taken(g, u, from).teams = fewer
  BY <1>4 DEF Taken
<1> QED
  BY <1>2, <1>5

Inside ==
  \A i \in DOMAIN games : \A t \in TeamsOf(games[i]) :
    /\ Single(games[i].teams[t])
    /\ \A v \in User : Plays(games[i].teams[t], v) => sess[v].game = i /\ sess[v].team = t
\* What user u makes of game j, on the way to session s.
SeatsTold(u, j, g, h, s) ==
  /\ TeamsOf(h) = TeamsOf(g)
  /\ \A t \in TeamsOf(g) :
       /\ Single(h.teams[t])
       /\ \A v \in User : Plays(h.teams[t], v) =>
            IF v = u THEN s.game = j /\ s.team = t ELSE Plays(g.teams[t], v)
SeatTaken(u, j, h, s) ==
  s.game = NoGame \/ s.team = NoTeam \/ SeatKept(u, s) \/ (s.game = j /\ InTeam(h, u))

\* Every team of h is a part of the one of g.
Within(g, h) ==
  /\ TeamsOf(h) = TeamsOf(g)
  /\ \A t \in TeamsOf(g) : /\ Single(h.teams[t])
                           /\ \A v \in User : Plays(h.teams[t], v) => Plays(g.teams[t], v)

\* Looking on, going, kicking, aiming and starting bring nobody in.
LEMMA WithinAre ==
  ASSUME NEW g \in Game, \A t \in TeamsOf(g) : Single(g.teams[t])
  PROVE  /\ \A V \in SUBSET User : Within(g, Viewed(g, V))
         /\ \A u \in User : \A t : Within(g, MoveOut(g, u, t))
         /\ \A u \in User, goal \in Tile : Within(g, Aimed(g, u, goal)) /\ SameUsers(g, Aimed(g, u, goal))
         /\ Within(g, StartGame(g)) /\ SameUsers(g, StartGame(g))
<1>1. ASSUME NEW h, SameUsers(g, h)
      PROVE  Within(g, h)
  BY <1>1, UsersPlay DEF Within
<1>2. \A V \in SUBSET User : Within(g, Viewed(g, V))
  <2> TAKE V \in SUBSET User
  <2>1. Viewed(g, V).teams = g.teams
    BY ViewedIs
  <2> QED
    BY <2>1 DEF Within, TeamsOf, InTeam
<1>3. \A u \in User : \A t : Within(g, MoveOut(g, u, t))
  <2> TAKE u \in User
  <2> TAKE t
  <2>1. TeamsOf(MoveOut(g, u, t)) = TeamsOf(g)
        /\ \A x \in TeamsOf(g) : Part(MoveOut(g, u, t).teams[x], g.teams[x])
    BY MoveOutIs
  <2> QED
    BY <2>1, PartPlays DEF Within
<1>4. \A u \in User, goal \in Tile : SameUsers(g, Aimed(g, u, goal))
  <2> TAKE u \in User, goal \in Tile
  <2> DEFINE h == Aimed(g, u, goal)
  <2>1. TeamsOf(h) = TeamsOf(g) /\ h.teams = [t \in TeamsOf(g) |-> Aim(g.teams[t], u, goal)]
    BY AimedIs
  <2>2. \A t \in TeamsOf(g) : g.teams[t] \in Seq(Player)
    BY GameTeams
  <2> HIDE DEF h
  <2>3. \A t \in TeamsOf(g) : /\ DOMAIN h.teams[t] = DOMAIN g.teams[t]
                              /\ \A n \in DOMAIN g.teams[t] :
                                   h.teams[t][n].user = g.teams[t][n].user
    BY <2>1, <2>2, AimTyped
  <2>4. SameUsers(g, h)
    BY <2>1, <2>3 DEF SameUsers, SameSeats
  <2> QED
    BY <2>4 DEF h
<1>5. SameUsers(g, StartGame(g))
  <2> DEFINE h == StartGame(g)
  <2>1. /\ TeamsOf(h) = TeamsOf(g) /\ h \in Game
        /\ \A t \in TeamsOf(g) : SamePlayers(g.teams[t], h.teams[t])
    BY StartGameIs
  <2> HIDE DEF h
  <2>2. \A t \in TeamsOf(g) : g.teams[t] \in Seq(Player) /\ h.teams[t] \in Seq(Player)
    BY <2>1, GameTeams
  <2>3. \A t \in TeamsOf(g) : /\ DOMAIN h.teams[t] = DOMAIN g.teams[t]
                              /\ \A n \in DOMAIN g.teams[t] :
                                   h.teams[t][n].user = g.teams[t][n].user
    BY <2>1, <2>2 DEF SamePlayers
  <2>4. SameUsers(g, h)
    BY <2>1, <2>3 DEF SameUsers, SameSeats
  <2> QED
    BY <2>4 DEF h
<1> QED
  BY <1>1, <1>2, <1>3, <1>4, <1>5

\* Who comes to a team from none, or from another.
LEMMA EnterSeats ==
  ASSUME NEW g \in Game, NEW u \in User, NEW t \in TeamsOf(g), NEW from, NEW h,
         \A x \in TeamsOf(g) : Single(g.teams[x]) /\ (x # from => ~Plays(g.teams[x], u)),
         \/ from \notin TeamsOf(g) /\ h = Joined(g, u, t)
         \/ h = MoveTo(g, u, from, t)
  PROVE  /\ TeamsOf(h) = TeamsOf(g) /\ InTeam(h, u)
         /\ \A x \in TeamsOf(g) :
              /\ Single(h.teams[x])
              /\ \A v \in User : Plays(h.teams[x], v) =>
                   IF v = u THEN x = t ELSE Plays(g.teams[x], v)
<1>1. ASSUME NEW T \in [TeamsOf(g) -> Seq(Player)], NEW p \in Player, p.user = u,
             TeamsOf(h) = TeamsOf(g), h.teams[t] = Append(T[t], p),
             \A x \in TeamsOf(g) \ {t} : h.teams[x] = T[x],
             \A x \in TeamsOf(g) : Part(T[x], g.teams[x]) /\ ~Plays(T[x], u)
      PROVE  /\ TeamsOf(h) = TeamsOf(g) /\ InTeam(h, u)
             /\ \A x \in TeamsOf(g) :
                  /\ Single(h.teams[x])
                  /\ \A v \in User : Plays(h.teams[x], v) =>
                       IF v = u THEN x = t ELSE Plays(g.teams[x], v)
  <2>1. \A x \in TeamsOf(g) : Single(T[x]) /\ \A v : Plays(T[x], v) => Plays(g.teams[x], v)
    BY <1>1, PartPlays
  <2>2. /\ \A v : Plays(h.teams[t], v) <=> Plays(T[t], v) \/ v = u
        /\ Single(h.teams[t])
    BY <1>1, <2>1, AppendPlays
  <2>3. InTeam(h, u)
    BY <1>1, <2>2 DEF InTeam
  <2>4. ASSUME NEW x \in TeamsOf(g)
        PROVE  /\ Single(h.teams[x])
               /\ \A v \in User : Plays(h.teams[x], v) =>
                    IF v = u THEN x = t ELSE Plays(g.teams[x], v)
    <3>1. CASE x = t
      BY <2>1, <2>2, <3>1
    <3>2. CASE x # t
      BY <1>1, <2>1, <3>2
    <3> QED
      BY <3>1, <3>2
  <2> QED
    BY <1>1, <2>3, <2>4
<1>2. g.teams \in [TeamsOf(g) -> Seq(Player)]
  BY GameTeams
<1>3. CASE from \notin TeamsOf(g) /\ h = Joined(g, u, t)
  <2>1. /\ TeamsOf(h) = TeamsOf(g) /\ h.teams = [g.teams EXCEPT ![t] = Append(@, GamePlayer(u))]
    BY <1>3, JoinedIs
  <2>2. h.teams[t] = Append(g.teams[t], GamePlayer(u))
        /\ \A x \in TeamsOf(g) \ {t} : h.teams[x] = g.teams[x]
    BY <1>2, <2>1
  <2>3. \A x \in TeamsOf(g) : Part(g.teams[x], g.teams[x]) /\ ~Plays(g.teams[x], u)
    BY <1>3, PartSelf
  <2>4. GamePlayer(u) \in Player /\ GamePlayer(u).user = u
    BY GamePlayerTyped
  <2> QED
    BY <1>1, <1>2, <2>1, <2>2, <2>3, <2>4
<1>4. CASE h = MoveTo(g, u, from, t)
  <2> DEFINE k == Taken(g, u, from)
  <2>1. /\ TeamsOf(h) = TeamsOf(g)
        /\ \A x \in TeamsOf(g) : \/ h.teams[x] = k.teams[x] /\ (x = t => Plays(h.teams[x], u))
                                 \/ x = t /\ h.teams[x] = Append(k.teams[x], k.player)
    BY <1>4, MoveToIs
  <2>2. k.teams \in [TeamsOf(g) -> Seq(Player)] /\ k.player \in Player /\ k.player.user = u
    BY TakenTyped, TakenPlayer
  <2>3. \A x \in TeamsOf(g) : Part(k.teams[x], g.teams[x]) /\ ~Plays(k.teams[x], u)
    BY TakenPart, TakenOut
  <2> HIDE DEF k
  <2>4. h.teams[t] = Append(k.teams[t], k.player)
        /\ \A x \in TeamsOf(g) \ {t} : h.teams[x] = k.teams[x]
    BY <2>1, <2>3
  <2> QED
    BY <1>1, <2>1, <2>2, <2>3, <2>4
<1> QED
  BY <1>3, <1>4

\* An edit leaves everybody in one seat, and u where the session will say.
LEMMA EditSeats ==
  ASSUME Typed, Inside, NEW u \in User, NEW j \in DOMAIN games, NEW h \in Game, NEW s,
         \/ Looks(u, j, h, s) \/ Enters(u, j, h, s) \/ Leaves(u, j, h, s)
         \/ Kicks(u, j, h, s) \/ Aims(u, j, h, s) \/ Starts(u, j, h, s)
  PROVE  SeatsTold(u, j, games[j], h, s) /\ SeatTaken(u, j, h, s)
<1> DEFINE g == games[j]
<1>1. g \in Game /\ sess[u].team \in Team \cup {NoTeam} /\ TeamsOf(g) \subseteq Team
  BY TypedParts, GameTeams
<1>2. \A t \in TeamsOf(g) :
        /\ Single(g.teams[t])
        /\ \A v \in User : Plays(g.teams[t], v) => sess[v].game = j /\ sess[v].team = t
  BY DEF Inside
<1>j. j # NoGame /\ NoTeam \notin Team
  BY TypedParts DEF Id, NoGame, Team, NoTeam
<1>p. \A V \in SUBSET User : Within(g, Viewed(g, V))
  BY <1>1, <1>2, WithinAre
<1>q. \A v \in User : \A t : Within(g, MoveOut(g, v, t))
  BY <1>1, <1>2, WithinAre
<1>r. Within(g, StartGame(g)) /\ \A v \in User, goal \in Tile : Within(g, Aimed(g, v, goal))
  BY <1>1, <1>2, WithinAre
<1> HIDE DEF g
<1>3. ASSUME SeatKept(u, s), Within(g, h)
      PROVE  SeatsTold(u, j, g, h, s) /\ SeatTaken(u, j, h, s)
  BY <1>2, <1>3 DEF SeatKept, Within, SeatsTold, SeatTaken
<1>4. ASSUME s.game = NoGame \/ s.team = NoTeam, Within(g, h), \A t \in TeamsOf(g) : ~Plays(h.teams[t], u)
      PROVE  SeatsTold(u, j, g, h, s) /\ SeatTaken(u, j, h, s)
  BY <1>4 DEF Within, SeatsTold, SeatTaken
<1>5. CASE Looks(u, j, h, s)
  <2>1. s.team = NoTeam /\ sess[u].game # j /\ Within(g, h)
    BY <1>5, <1>j, <1>p DEF Looks, g
  <2>2. \A t \in TeamsOf(g) : ~Plays(h.teams[t], u)
    BY <1>2, <2>1 DEF Within
  <2> QED
    BY <1>4, <2>1, <2>2 DEF g
<1>6. CASE Enters(u, j, h, s)
  <2> DEFINE from == sess[u].team
  <2>1. /\ s.game = j /\ s.team \in TeamsOf(g)
        /\ IF from = NoTeam THEN h = Joined(g, u, s.team) ELSE h = MoveTo(g, u, from, s.team)
    BY <1>6 DEF Enters, g
  <2>2. \A x \in TeamsOf(g) : Single(g.teams[x]) /\ (x # from => ~Plays(g.teams[x], u))
    BY <1>2
  <2>3. from = NoTeam => from \notin TeamsOf(g)
    BY <1>1, <1>j
  <2> HIDE DEF from
  <2>4. \/ from \notin TeamsOf(g) /\ h = Joined(g, u, s.team)
        \/ h = MoveTo(g, u, from, s.team)
    BY <2>1, <2>3
  <2> DEFINE t == s.team
  <2>5. /\ TeamsOf(h) = TeamsOf(g) /\ InTeam(h, u)
        /\ \A x \in TeamsOf(g) :
             /\ Single(h.teams[x])
             /\ \A v \in User : Plays(h.teams[x], v) =>
                  IF v = u THEN x = t ELSE Plays(g.teams[x], v)
    <3>1. t \in TeamsOf(g)
      BY <2>1
    <3> HIDE DEF t
    <3>2. \/ from \notin TeamsOf(g) /\ h = Joined(g, u, t)
          \/ h = MoveTo(g, u, from, t)
      BY <2>4 DEF t
    <3> QED
      BY <1>1, <2>2, <3>1, <3>2, EnterSeats
  <2> QED
    BY <2>1, <2>5 DEF SeatsTold, SeatTaken, g
<1>7. CASE Leaves(u, j, h, s)
  <2>1. sess[u].game = j /\ s.game = NoGame
    BY <1>7 DEF Leaves
  <2>2. CASE sess[u].team \in TeamsOf(g)
    <3>1. h = MoveOut(g, u, sess[u].team)
      BY <1>7, <2>2 DEF Leaves, g
    <3>2. \A t \in TeamsOf(g) : ~Plays(h.teams[t], u)
      <4>1. h.teams = Taken(g, u, sess[u].team).teams
        BY <1>1, <3>1, MoveOutIs DEF g
      <4>2. \A t \in TeamsOf(g) \ {sess[u].team} : ~Plays(g.teams[t], u)
        BY <1>2
      <4> QED
        BY <1>1, <4>1, <4>2, TakenOut DEF g
    <3> QED
      BY <1>4, <1>q, <2>1, <3>1, <3>2 DEF g
  <2>3. CASE sess[u].team \notin TeamsOf(g)
    <3>1. Within(g, h)
      BY <1>7, <1>p, <2>3 DEF Leaves, g
    <3>2. \A t \in TeamsOf(g) : ~Plays(h.teams[t], u)
      BY <1>2, <2>3, <3>1 DEF Within
    <3> QED
      BY <1>4, <2>1, <3>1, <3>2 DEF g
  <2> QED
    BY <2>2, <2>3
<1>8. CASE Kicks(u, j, h, s)
  BY <1>3, <1>8, <1>q DEF Kicks, g
<1>9. CASE Aims(u, j, h, s)
  BY <1>3, <1>9, <1>r DEF Aims, g
<1>10. CASE Starts(u, j, h, s)
  BY <1>3, <1>10, <1>r DEF Starts, g
<1> QED
  BY <1>5, <1>6, <1>7, <1>8, <1>9, <1>10

-----------------------------------------------------------------------------
(* Users, their sessions, and the games they play in                       *)

\* What the task k of user u makes of who plays: u comes to where its session will be,
\* and everybody else at most stays.
TaskSeats(k, u) ==
  \A j \in DOMAIN k.copy : \A t \in TeamsOf(k.copy[j]) :
    /\ Single(k.copy[j].teams[t])
    /\ \A v \in User : Plays(k.copy[j].teams[t], v) =>
         IF v = u THEN k.then.game = j /\ k.then.team = t
         ELSE j \in DOMAIN k.read /\ t \in TeamsOf(k.read[j]) /\ Plays(k.read[j].teams[t], v)
\* The session that it leaves, s before, names no seat that is not there.
TaskTaken(k, s, u) ==
  \/ k.then.game = NoGame \/ k.then.team = NoTeam
  \/ k.then.game = s.game /\ k.then.team = s.team
  \/ k.then.game \in DOMAIN k.copy /\ InTeam(k.copy[k.then.game], u)
Present(v) ==
  sess[v].game # NoGame /\ sess[v].team # NoTeam =>
    v \in loose \/ (sess[v].game \in DOMAIN games /\ InTeam(games[sess[v].game], v))
Member ==
  raced \/ gone \/
  /\ Inside
  /\ \A v \in User : Present(v)
  /\ \A u \in User : task[u].pc = "save" => /\ TaskSeats(task[u], u)
                                            /\ TaskTaken(task[u], sess[u], u)

\* So does every handler, whether it edits, creates or drops a game.
LEMMA HandlerSeats ==
  ASSUME Typed, Inside, NEW u \in User, Handler(u), ~gone'
  PROVE  TaskSeats(task'[u], u) /\ TaskTaken(task'[u], sess[u], u)
<1>1. PICK G, s, i : Handles(u, G, s, i) /\ Edits(u, G, s, i)
  BY HandlerEdits DEF HandlerEdited
<1> DEFINE k == task'[u]
<1>2. k.copy = G /\ k.read = games /\ k.then = s
  BY <1>1, SetIs DEF Handles
<1>3. /\ \A j \in DOMAIN games : games[j] \in Game /\ j \in Id
      /\ \A j \in Id : j # NoGame
      /\ NoTeam # 0
  BY TypedParts DEF Id, NoGame, NoTeam
<1>4. \A j \in DOMAIN games : \A t \in TeamsOf(games[j]) :
        /\ Single(games[j].teams[t])
        /\ \A v \in User : Plays(games[j].teams[t], v) => sess[v].game = j /\ sess[v].team = t
  BY DEF Inside
<1> SUFFICES TaskSeats(k, u) /\ TaskTaken(k, sess[u], u)
  OBVIOUS
<1> HIDE DEF k
<1>5. CASE Unedited(u, G, s, i)
  <2>1. CASE G = NoGames
    BY <1>2, <1>5, <2>1 DEF Unedited, NoGames, TaskSeats, TaskTaken, SeatKept
  <2>2. CASE G = games /\ SeatKept(u, s)
    BY <1>2, <1>4, <2>2 DEF TaskSeats, TaskTaken, SeatKept
  <2>3. CASE G = games /\ s.game = NoGame /\ ~HasGame(u)
    BY <1>2, <1>4, <2>3 DEF TaskSeats, TaskTaken, HasGame
  <2> QED
    BY <1>5, <2>1, <2>2, <2>3 DEF Unedited
<1>6. CASE Edited(u, G, s, i)
  <2>1. PICK j \in DOMAIN games, h \in Game :
          /\ G = [games EXCEPT ![j] = h]
          /\ \/ Looks(u, j, h, s) \/ Enters(u, j, h, s) \/ Leaves(u, j, h, s)
             \/ Kicks(u, j, h, s) \/ Aims(u, j, h, s) \/ Starts(u, j, h, s)
    BY <1>6 DEF Edited
  <2>2. SeatsTold(u, j, games[j], h, s) /\ SeatTaken(u, j, h, s)
    BY <2>1, EditSeats
  <2>3. SeatKept(u, s) \/ sess[u].game \in {NoGame, j}
    BY <2>1 DEF Looks, Enters, Leaves, Kicks, Aims, Starts
  <2>4. DOMAIN G = DOMAIN games /\ G[j] = h /\ \A m \in DOMAIN games \ {j} : G[m] = games[m]
    BY <2>1
  <2>5. ASSUME NEW m \in DOMAIN G, NEW t \in TeamsOf(G[m])
        PROVE  /\ Single(G[m].teams[t])
               /\ \A v \in User : Plays(G[m].teams[t], v) =>
                    IF v = u THEN s.game = m /\ s.team = t
                    ELSE m \in DOMAIN games /\ t \in TeamsOf(games[m])
                         /\ Plays(games[m].teams[t], v)
    <3>1. CASE m = j
      BY <2>2, <2>4, <2>5, <3>1 DEF SeatsTold
    <3>2. CASE m # j
      <4>1. m \in DOMAIN games /\ G[m] = games[m] /\ t \in TeamsOf(games[m]) /\ m # NoGame
        BY <1>3, <2>4, <2>5, <3>2
      <4>2. Plays(games[m].teams[t], u) => s.game = m /\ s.team = t
        BY <1>4, <2>3, <3>2, <4>1 DEF SeatKept
      <4> QED
        BY <1>4, <4>1, <4>2
    <3> QED
      BY <3>1, <3>2
  <2>6. TaskSeats(k, u)
    BY <1>2, <2>5 DEF TaskSeats
  <2>7. TaskTaken(k, sess[u], u)
    BY <1>2, <2>2, <2>4 DEF TaskTaken, SeatTaken, SeatKept
  <2> QED
    BY <2>6, <2>7
<1>7. CASE Created(u, G, s, i)
  <2>1. PICK m \in Id \ DOMAIN games, n \in TeamAmounts :
          s.game = m /\ G = With(games, m, NewGame(u, n))
    BY <1>7 DEF Created
  <2>2. sess[u].game = NoGame /\ s.team = 0
    BY <1>7 DEF Created
  <2> DEFINE h == NewGame(u, n)
  <2>3. /\ TeamsOf(h) = 0 .. n - 1 /\ n \in 1 .. 4 /\ h.teams[0] = <<GamePlayer(u)>>
        /\ \A t \in 1 .. n - 1 : h.teams[t] = <<>>
    BY NewGameIs
  <2>4. /\ DOMAIN G = DOMAIN games \cup {m} /\ G[m] = h /\ \A j \in DOMAIN games : G[j] = games[j]
    BY <2>1 DEF With
  <2>5. GamePlayer(u).user = u
    BY GamePlayerTyped
  <2> HIDE DEF h
  <2>6. ASSUME NEW t \in TeamsOf(h)
        PROVE  Single(h.teams[t]) /\ \A v : Plays(h.teams[t], v) => v = u /\ t = 0
    <3>1. CASE t = 0
      <4>1. DOMAIN h.teams[t] = {1} /\ h.teams[t][1].user = u
        BY <2>3, <2>5, <3>1
      <4> QED
        BY <3>1, <4>1 DEF Single, Plays
    <3>2. CASE t # 0
      <4>1. DOMAIN h.teams[t] = {}
        BY <2>3, <3>2
      <4> QED
        BY <4>1 DEF Single, Plays
    <3> QED
      BY <3>1, <3>2
  <2>7. TaskSeats(k, u)
    <3>1. \A j \in DOMAIN games : \A t \in TeamsOf(games[j]) : ~Plays(games[j].teams[t], u)
      BY <1>3, <1>4, <2>2
    <3> QED
      BY <1>2, <1>4, <2>1, <2>2, <2>4, <2>6, <3>1 DEF TaskSeats
  <2>8. InTeam(h, u)
    <3>1. 0 \in TeamsOf(h) /\ DOMAIN h.teams[0] = {1} /\ h.teams[0][1].user = u
      BY <2>3, <2>5
    <3> QED
      BY <3>1 DEF InTeam, Plays
  <2>9. TaskTaken(k, sess[u], u)
    BY <1>2, <2>1, <2>4, <2>8 DEF TaskTaken
  <2> QED
    BY <2>7, <2>9
<1>8. CASE Dropped(u, G, s, i)
  <2>1. s.game = NoGame /\ DOMAIN G = DOMAIN games \ {sess[u].game}
        /\ \A j \in DOMAIN G : G[j] = games[j]
    BY <1>8 DEF Dropped, Less
  <2>2. TaskTaken(k, sess[u], u)
    BY <1>2, <2>1 DEF TaskTaken
  <2>3. TaskSeats(k, u)
    BY <1>2, <1>4, <2>1 DEF TaskSeats
  <2> QED
    BY <2>2, <2>3
<1> QED
  BY <1>1, <1>5, <1>6, <1>7, <1>8 DEF Edits

\* Saving a copy that nobody overtook keeps seats and sessions together.
LEMMA SaveSeats ==
  ASSUME Typed, Inside, \A v \in User : Present(v), NEW u \in User, Save(u), ~raced',
         TaskSeats(task[u], u), TaskTaken(task[u], sess[u], u)
  PROVE  Inside' /\ \A v \in User : Present(v)'
<1> DEFINE k == task[u]
<1>1. /\ games' = k.copy /\ games = k.read /\ sess' = [sess EXCEPT ![u] = k.then]
  BY SaveIs
<1>2. /\ sess'[u] = k.then /\ \A v \in User \ {u} : sess'[v] = sess[v]
  BY <1>1 DEF Typed
<1>3. loose' = {v \in loose \cup {w \in User : PutOut(w)} : sess'[v].game # NoGame}
  BY DEF Save
<1>4. /\ \A j \in DOMAIN k.copy : \A t \in TeamsOf(k.copy[j]) :
           /\ Single(k.copy[j].teams[t])
           /\ \A v \in User : Plays(k.copy[j].teams[t], v) =>
                IF v = u THEN k.then.game = j /\ k.then.team = t
                ELSE j \in DOMAIN k.read /\ t \in TeamsOf(k.read[j]) /\ Plays(k.read[j].teams[t], v)
  BY DEF TaskSeats
<1>5. \/ k.then.game = NoGame \/ k.then.team = NoTeam
      \/ k.then.game = sess[u].game /\ k.then.team = sess[u].team
      \/ k.then.game \in DOMAIN k.copy /\ InTeam(k.copy[k.then.game], u)
  BY DEF TaskTaken
<1> HIDE DEF k
<1>6. Inside'
  <2> SUFFICES ASSUME NEW j \in DOMAIN k.copy, NEW t \in TeamsOf(k.copy[j])
               PROVE  /\ Single(k.copy[j].teams[t])
                      /\ \A v \in User : Plays(k.copy[j].teams[t], v) =>
                           sess'[v].game = j /\ sess'[v].team = t
    BY <1>1 DEF Inside
  <2>1. \A v \in User \ {u} : Plays(k.copy[j].teams[t], v) => sess[v].game = j /\ sess[v].team = t
    BY <1>1, <1>4 DEF Inside
  <2> QED
    BY <1>2, <1>4, <2>1
<1>7. ASSUME NEW v \in User, sess'[v].game = sess[v].game, sess'[v].team = sess[v].team
      PROVE  Present(v)'
  <2> SUFFICES ASSUME sess'[v].game # NoGame, sess'[v].team # NoTeam, v \notin loose'
               PROVE  sess'[v].game \in DOMAIN games' /\ InTeam(games'[sess'[v].game], v)
    BY DEF Present
  <2>1. v \notin loose /\ ~PutOut(v)
    BY <1>3
  <2>2. sess[v].game \in DOMAIN games /\ InTeam(games[sess[v].game], v)
    BY <1>7, <2>1 DEF Present
  <2> QED
    BY <1>7, <2>1, <2>2 DEF PutOut
<1>8. Present(u)'
  BY <1>1, <1>2, <1>5, <1>7 DEF Present
<1> QED
  BY <1>2, <1>6, <1>7, <1>8

\* So does a cycle's save: it knows the same users.
LEMMA CycleSaveSeats ==
  ASSUME Typed, Carries, Inside, \A v \in User : Present(v), NEW i \in Id, CycleSave(i), ~raced'
  PROVE  Inside' /\ \A v \in User : Present(v)'
<1> DEFINE G == cycle[i].copy
<1>1. /\ games' = G /\ games = cycle[i].read /\ UNCHANGED <<sess, task>>
      /\ CopyOf(cycle[i], i)
  BY CycleSaveIs
<1>2. loose' = loose
  BY DEF CycleSave
<1>3. /\ DOMAIN G = DOMAIN games /\ i \in DOMAIN games /\ Richer(games[i], G[i])
      /\ \A j \in DOMAIN games \ {i} : G[j] = games[j]
  BY <1>1 DEF CopyOf
<1> HIDE DEF G
<1>4. SameUsers(games[i], G[i])
  BY <1>3 DEF Richer, SameUsers
<1>5. \A j \in DOMAIN games :
        /\ TeamsOf(G[j]) = TeamsOf(games[j]) /\ \A v : InTeam(G[j], v) <=> InTeam(games[j], v)
        /\ \A t \in TeamsOf(games[j]) :
             /\ \A v : Plays(G[j].teams[t], v) <=> Plays(games[j].teams[t], v)
             /\ Single(games[j].teams[t]) => Single(G[j].teams[t])
  <2> TAKE j \in DOMAIN games
  <2>1. CASE j = i
    BY <1>4, <2>1, UsersPlay
  <2>2. CASE j # i
    BY <1>3, <2>2
  <2> QED
    BY <2>1, <2>2
<1>6. Inside'
  <2> SUFFICES ASSUME NEW j \in DOMAIN games, NEW t \in TeamsOf(G[j])
               PROVE  /\ Single(G[j].teams[t])
                      /\ \A v \in User : Plays(G[j].teams[t], v) => sess[v].game = j /\ sess[v].team = t
    BY <1>1, <1>3 DEF Inside
  <2>1. /\ Single(games[j].teams[t])
        /\ \A v \in User : Plays(games[j].teams[t], v) => sess[v].game = j /\ sess[v].team = t
    BY <1>5 DEF Inside
  <2> QED
    BY <1>5, <2>1
<1>7. \A v \in User : Present(v)'
  BY <1>1, <1>2, <1>3, <1>5 DEF Present
<1> QED
  BY <1>6, <1>7

\* Every step keeps seats and sessions together.
LEMMA MemberNext == Typed /\ Purses /\ Carries /\ Member /\ [Next]_vars => Member'
<1> SUFFICES ASSUME Typed, Purses, Carries, Member, [Next]_vars, ~raced', ~gone'
             PROVE  /\ Inside' /\ \A v \in User : Present(v)'
                    /\ \A u \in User : task'[u].pc = "save" =>
                         TaskSeats(task'[u], u) /\ TaskTaken(task'[u], sess'[u], u)
  BY DEF Member
<1>1. ~raced /\ ~gone
  BY FlagsGrow
<1>2. /\ Inside /\ \A v \in User : Present(v)
      /\ \A u \in User : task[u].pc = "save" => /\ TaskSeats(task[u], u)
                                                /\ TaskTaken(task[u], sess[u], u)
  BY <1>1 DEF Member
<1> DEFINE After == /\ Inside' /\ \A v \in User : Present(v)'
                    /\ \A u \in User : task'[u].pc = "save" =>
                         TaskSeats(task'[u], u) /\ TaskTaken(task'[u], sess'[u], u)
<1>3. ASSUME UNCHANGED <<games, sess, loose>>
      PROVE  Inside' /\ \A v \in User : Present(v)'
  BY <1>2, <1>3 DEF Inside, Present
<1>4. ASSUME NEW u \in User, Handler(u)
      PROVE  After
  <2>1. PICK G, s, i : Handles(u, G, s, i)
    BY <1>4, HandlerEdits DEF HandlerEdited
  <2>2. UNCHANGED <<games, sess, loose>>
    BY <1>4, <2>1, HandlerEdits DEF HandlerEdited, Handles
  <2>3. TaskSeats(task'[u], u) /\ TaskTaken(task'[u], sess[u], u)
    BY <1>2, <1>4, HandlerSeats
  <2>4. \A v \in User \ {u} : task'[v] = task[v]
    BY <2>1, SetIs DEF Handles
  <2> QED
    BY <1>2, <1>3, <2>2, <2>3, <2>4
<1>5. ASSUME NEW u \in User, Forget(u)
      PROVE  After
  <2>1. /\ task[u].pc = "ready" /\ sess' = [sess EXCEPT ![u] = Cleared(u)] /\ ~HasGame(u)
        /\ UNCHANGED <<games, task, loose>>
    BY <1>5 DEF Forget, Ready, flags
  <2>2. Cleared(u).game = NoGame
    BY TypedParts, SessionKept DEF Cleared
  <2>3. /\ sess'[u].game = NoGame /\ \A v \in User \ {u} : sess'[v] = sess[v]
    BY <2>1, <2>2 DEF Typed
  <2>4. \A j \in DOMAIN games : \A t \in TeamsOf(games[j]) : ~Plays(games[j].teams[t], u)
    BY <1>2, <2>1 DEF Inside, HasGame
  <2>5. Inside'
    BY <1>2, <2>1, <2>3, <2>4 DEF Inside
  <2>6. \A v \in User : Present(v)'
    BY <1>2, <2>1, <2>3 DEF Present
  <2> QED
    BY <1>2, <2>1, <2>3, <2>5, <2>6
<1>6. ASSUME NEW u \in User, Save(u)
      PROVE  After
  <2>1. /\ task[u].pc = "save" /\ task'[u].pc \in {"ready", "spawn"}
        /\ \A v \in User \ {u} : task'[v] = task[v]
        /\ sess' = [sess EXCEPT ![u] = task[u].then]
    BY <1>6, SaveIs
  <2>2. \A v \in User \ {u} : sess'[v] = sess[v]
    BY <2>1 DEF Typed
  <2>3. Inside' /\ \A v \in User : Present(v)'
    BY <1>2, <1>6, <2>1, SaveSeats
  <2> QED
    BY <1>2, <2>1, <2>2, <2>3
<1>7. ASSUME NEW u \in User, SpawnCycle(u)
      PROVE  After
  <2>1. /\ UNCHANGED <<games, sess, loose>> /\ task'[u] = AtRest
        /\ \A v \in User \ {u} : task'[v] = task[v]
    BY <1>7, SpawnIs DEF SpawnCycle
  <2> QED
    BY <1>2, <1>3, <2>1 DEF AtRest
<1>8. ASSUME NEW i \in Id, CycleGoes(i)
      PROVE  After
  <2>1. UNCHANGED <<games, sess, task, loose>>
    BY <1>8 DEF CycleGoes, CycleBegin, CycleCount, CycleCounted, CycleCharge, CycleTick,
                CycleEnd, FinishGame, CycleLast, FinishFails, rest, flags
  <2> QED
    BY <1>2, <1>3, <2>1
<1>9. ASSUME NEW i \in Id, CycleSave(i)
      PROVE  After
  <2>1. UNCHANGED <<sess, task>>
    BY <1>9, CycleSaveIs
  <2> QED
    BY <1>2, <1>9, <2>1, CycleSaveSeats
<1>10. CASE UNCHANGED vars
  BY <1>2, <1>3, <1>10 DEF vars, flags
<1> QED
  BY <1>4, <1>5, <1>6, <1>7, <1>8, <1>9, <1>10, NextIs

\* In the beginning nobody plays.
LEMMA MemberInit == Init => Member
<1> SUFFICES ASSUME Init PROVE Member
  OBVIOUS
<1>1. /\ games = NoGames /\ \A v \in User : sess[v] = Out /\ task[v] = AtRest
  BY DEF Init
<1> QED
  BY <1>1 DEF Member, Inside, Present, NoGames, Out, AtRest

\* Who plays in one team, once, has one place.
LEMMA OneEnd ==
  ASSUME NEW g \in Game, NEW u \in User, NEW s \in TeamsOf(g), Plays(g.teams[s], u),
         \A t \in TeamsOf(g) : Single(g.teams[t]) /\ (Plays(g.teams[t], u) => t = s)
  PROVE  EndsOf(g, u) = 1
<1>1. PICK n \in DOMAIN g.teams[s] : g.teams[s][n].user = u
  BY DEF Plays
<1>2. \A m \in DOMAIN g.teams[s] : g.teams[s][m].user = u => m = n
  BY <1>1 DEF Single
<1>3. \A k : EndOf(g, u, k) <=> k = <<s, n>>
  <2>1. ASSUME NEW k, EndOf(g, u, k)
        PROVE  k = <<s, n>>
    <3>1. PICK t \in TeamsOf(g) : \E m \in DOMAIN g.teams[t] :
            k = <<t, m>> /\ g.teams[t][m].user = u
      BY <2>1 DEF EndOf
    <3>2. t = s
      BY <3>1 DEF Plays
    <3> QED
      BY <1>2, <3>1, <3>2
  <2>2. EndOf(g, u, <<s, n>>)
    BY <1>1 DEF EndOf
  <2> QED
    BY <2>1, <2>2
<1>4. Ends(g, u) = {<<s, n>>}
  BY <1>3, EndsAre
<1> QED
  BY <1>4, FS_Singleton DEF EndsOf

\* Who plays has one place, in the game and the team that the session names, and a session
\* that names a team has a place in it (game_lobby_checkout, process_create_game,
\* switch_team, kick_player, leave_current_game): unless a copy was lost or a session
\* ended in a game, and but for who was put out of a game and was not told.
THEOREM EverybodySeated == Spec => []Membership
<1>1. ASSUME Typed, Member
      PROVE  Membership
  <2> SUFFICES ASSUME ~raced, ~gone, NEW i \in DOMAIN games, NEW u \in User
               PROVE  /\ InTeam(games[i], u) =>
                           /\ EndsOf(games[i], u) = 1
                           /\ \E t \in TeamsOf(games[i]) :
                                Plays(games[i].teams[t], u) /\ sess[u].game = i /\ sess[u].team = t
                      /\ sess[u].game = i /\ sess[u].team # NoTeam => InTeam(games[i], u) \/ u \in loose
    BY DEF Membership
  <2>1. /\ games[i] \in Game /\ i # NoGame /\ Present(u)
        /\ \A t \in TeamsOf(games[i]) :
             /\ Single(games[i].teams[t])
             /\ Plays(games[i].teams[t], u) => sess[u].game = i /\ sess[u].team = t
    BY <1>1, TypedParts DEF Member, Inside, Id, NoGame
  <2>2. ASSUME NEW s \in TeamsOf(games[i]), Plays(games[i].teams[s], u)
        PROVE  EndsOf(games[i], u) = 1
    BY <2>1, <2>2, OneEnd
  <2> QED
    BY <2>1, <2>2 DEF InTeam, Present
<1>2. Sound /\ Member /\ [Next]_vars => Member'
  BY MemberNext DEF Sound
<1>3. Sound => Typed
  BY DEF Sound
<1> QED
  BY <1>1, <1>2, <1>3, SoundInit, SoundNext, MemberInit, PTL DEF Spec

-----------------------------------------------------------------------------
(* Nobody gets into debt by playing                                        *)

\* The tickets for game i are still to be taken.
Uncharged(i) ==
  \/ games[i].state = "Waiting" \/ Awaits(i) \/ cycle[i].pc \in {"begin", "count", "take"}
  \/ cycle[i].pc = "save" /\ cycle[i].then = "count"
Funded == \A i \in DOMAIN games, u \in User : InTeam(games[i], u) /\ Uncharged(i) => tickets[u] >= 2
\* The task of u seats u in a game that waits; and it read a seat that is no more.
Entrant(u) ==
  \E j \in DOMAIN task[u].copy :
    task[u].copy[j].state = "Waiting" /\ InTeam(task[u].copy[j], u)
Astray(u) ==
  \E i \in DOMAIN task[u].read :
    /\ InTeam(task[u].read[i], u) /\ task[u].read[i].state = "Waiting"
    /\ ~(i \in DOMAIN games /\ games[i].state = "Waiting" /\ InTeam(games[i], u))
\* Where u plays it played when its task read the table.
Seen(u) ==
  \A i \in DOMAIN games : InTeam(games[i], u) =>
    i \in DOMAIN task[u].read /\ InTeam(task[u].read[i], u)
\* Nobody comes into a game that has begun, or from one game to another.
Steady(u) ==
  /\ \A j \in DOMAIN task[u].copy : InTeam(task[u].copy[j], u) =>
       \/ task[u].copy[j].state = "Waiting"
       \/ j \in DOMAIN task[u].read /\ InTeam(task[u].read[j], u)
  /\ task[u].then.game \in {NoGame, sess[u].game} \/ sess[u].game = NoGame
TaskPays(u) == (Entrant(u) => tickets[u] >= 2 \/ Astray(u)) /\ Seen(u) /\ Steady(u)
Solvent ==
  Quiet /\ ~gone =>
    /\ Funded /\ \A u \in User : tickets[u] >= 0
    /\ \A u \in User : task[u].pc = "save" => TaskPays(u)

\* An edit seats u only for tickets that u has, or leaves u where u played.
LEMMA EditPays ==
  ASSUME Typed, Inside, All(FairGame), NEW u \in User, NEW j \in DOMAIN games, NEW h \in Game,
         NEW s, InTeam(h, u),
         \/ Looks(u, j, h, s) \/ Enters(u, j, h, s) \/ Leaves(u, j, h, s)
         \/ Kicks(u, j, h, s) \/ Aims(u, j, h, s) \/ Starts(u, j, h, s)
  PROVE  \/ h.state = "Waiting" /\ tickets[u] > 1
         \/ InTeam(games[j], u) /\ (h.state = "Waiting" => games[j].state = "Waiting")
<1> DEFINE g == games[j]
<1>1. g \in Game /\ \A t \in TeamsOf(g) : Single(g.teams[t])
  BY TypedParts DEF Inside
<1>2. CASE Starts(u, j, h, s)
  <2>1. h = StartGame(g)
    BY <1>2 DEF Starts
  <2>2. h.state = "Started" /\ SameUsers(g, h)
    BY <1>1, <2>1, StartGameIs, WithinAre
  <2> QED
    BY <2>2, UsersPlay
<1>3. CASE Leaves(u, j, h, s)
  <2>1. s.game = NoGame /\ SeatsTold(u, j, g, h, s)
    BY <1>3, EditSeats DEF Leaves
  <2>2. j # NoGame
    BY TypedParts DEF Id, NoGame
  <2> QED
    BY <2>1, <2>2 DEF SeatsTold, InTeam
<1>4. ASSUME ~Starts(u, j, h, s), ~Leaves(u, j, h, s)
      PROVE  h.state = g.state
  BY <1>4, TameEdit DEF Tame
<1>5. ASSUME Within(g, h)
      PROVE  InTeam(g, u)
  BY <1>5 DEF Within, InTeam
<1>6. ASSUME Looks(u, j, h, s) \/ Kicks(u, j, h, s) \/ Aims(u, j, h, s)
      PROVE  Within(g, h)
  <2> HIDE DEF g
  <2>1. /\ \A V \in SUBSET User : Within(g, Viewed(g, V))
        /\ \A v \in User : \A t : Within(g, MoveOut(g, v, t))
        /\ \A v \in User, goal \in Tile : Within(g, Aimed(g, v, goal))
    BY <1>1, WithinAre
  <2> QED
    BY <1>6, <2>1 DEF Looks, Kicks, Aims, g
<1>7. CASE Enters(u, j, h, s)
  <2>1. ~Starts(u, j, h, s) /\ ~Leaves(u, j, h, s) => h.state = "Waiting" /\ tickets[u] > 1
    BY <1>4, <1>7 DEF Enters
  <2> QED
    BY <1>2, <1>3, <2>1
<1> QED
  BY <1>2, <1>3, <1>4, <1>5, <1>6, <1>7

\* A handler seats u only if u can pay.
LEMMA HandlerPays ==
  ASSUME Typed, Inside, All(FairGame), Funded, tickets \in [User -> Int], NEW u \in User, Handler(u)
  PROVE  /\ Funded' /\ UNCHANGED <<games, tickets>>
         /\ TaskPays(u)'
<1>1. PICK G, s, i : Handles(u, G, s, i) /\ Edits(u, G, s, i)
  BY HandlerEdits DEF HandlerEdited
<1>2. UNCHANGED <<games, sess, cycle, tickets>>
  BY <1>1, HandlerEdits DEF HandlerEdited, Handles, purse
<1>3. /\ task'[u].copy = G /\ task'[u].read = games /\ task'[u].then = s
      /\ task'[u].pc = "save" /\ task[u].pc = "ready"
      /\ \A v \in User \ {u} : task'[v] = task[v]
  BY <1>1, SetIs DEF Handles, Ready
<1>4. \A j : Awaits(j)' => Awaits(j)
  BY <1>3 DEF Awaits
<1>5. Funded'
  BY <1>2, <1>4 DEF Funded, Uncharged
<1>6. Seen(u)'
  BY <1>2, <1>3 DEF Seen
<1>7. ASSUME NEW j \in DOMAIN G, InTeam(G[j], u)
      PROVE  \/ G[j].state = "Waiting" /\ tickets[u] > 1
             \/ /\ j \in DOMAIN games /\ InTeam(games[j], u)
                /\ G[j].state = "Waiting" => games[j].state = "Waiting"
  <2>1. CASE Unedited(u, G, s, i)
    BY <1>7, <2>1 DEF Unedited, NoGames
  <2>2. CASE Edited(u, G, s, i)
    <3>1. PICK m \in DOMAIN games, h \in Game :
            /\ G = [games EXCEPT ![m] = h]
            /\ \/ Looks(u, m, h, s) \/ Enters(u, m, h, s) \/ Leaves(u, m, h, s)
               \/ Kicks(u, m, h, s) \/ Aims(u, m, h, s) \/ Starts(u, m, h, s)
      BY <2>2 DEF Edited
    <3>2. CASE j = m
      BY <1>7, <3>1, <3>2, EditPays
    <3>3. CASE j # m
      BY <1>7, <3>1, <3>3
    <3> QED
      BY <3>2, <3>3
  <2>3. CASE Created(u, G, s, i)
    <3>1. PICK m \in Id \ DOMAIN games, n \in TeamAmounts : G = With(games, m, NewGame(u, n))
      BY <2>3 DEF Created
    <3>2. tickets[u] > 1 /\ NewGame(u, n).state = "Waiting"
      BY <2>3, NewGameIs DEF Created
    <3> QED
      BY <1>7, <3>1, <3>2 DEF With
  <2>4. CASE Dropped(u, G, s, i)
    BY <1>7, <2>4 DEF Dropped, Less
  <2> QED
    BY <1>1, <2>1, <2>2, <2>3, <2>4 DEF Edits
<1>8. tickets[u] \in Int
  OBVIOUS
<1>9. Entrant(u)' => tickets'[u] >= 2
  BY <1>2, <1>3, <1>7, <1>8 DEF Entrant, Funded, Uncharged
<1>10. s.game \in {NoGame, sess[u].game} \/ sess[u].game = NoGame
  BY <1>1 DEF Edits, Unedited, Edited, Created, Dropped, SeatKept, Looks, Enters, Leaves, Kicks,
              Aims, Starts
<1>11. Steady(u)'
  BY <1>2, <1>3, <1>7, <1>10 DEF Steady
<1> QED
  BY <1>2, <1>5, <1>6, <1>9, <1>11 DEF TaskPays

\* A step by which v may go out of a game, or a game of v begin, and nothing else.
Ousts(v) ==
  \A j \in DOMAIN games' : InTeam(games'[j], v) =>
    /\ j \in DOMAIN games /\ InTeam(games[j], v)
    /\ games'[j].state = "Waiting" => games[j].state = "Waiting"

\* What others save does not put u into debt.
LEMMA OustedPays ==
  ASSUME NEW v \in User, Ousts(v), UNCHANGED tickets, task'[v] = task[v], sess'[v] = sess[v],
         TaskPays(v)
  PROVE  TaskPays(v)'
<1>1. Astray(v) => Astray(v)'
  BY DEF Astray, Ousts
<1>2. Seen(v)'
  BY DEF Seen, Ousts, TaskPays
<1>3. (Entrant(v)' <=> Entrant(v)) /\ Steady(v)'
  BY DEF Entrant, Steady, TaskPays
<1> QED
  BY <1>1, <1>2, <1>3 DEF TaskPays

\* The steps that leave the tickets alone.
LEMMA OustedFunds ==
  ASSUME Funded, tickets' = tickets, NEW v \in User, Ousts(v),
         \A j \in DOMAIN games' : InTeam(games'[j], v) /\ Uncharged(j)' => Uncharged(j)
  PROVE  \A j \in DOMAIN games' : InTeam(games'[j], v) /\ Uncharged(j)' => tickets'[v] >= 2
  BY DEF Funded, Ousts

\* A save that was not overtaken leaves everybody able to pay.
LEMMA SavePays ==
  ASSUME Typed, Quiet, Rounds, Funded, NEW u \in User, Save(u), ~raced', ~reused',
         TaskSeats(task[u], u), TaskPays(u)
  PROVE  Funded' /\ \A v \in User \ {u} : Ousts(v)
<1> DEFINE k == task[u]
<1>1. /\ k.pc = "save" /\ games' = k.copy /\ cycle' = cycle /\ games = k.read /\ tickets' = tickets
      /\ task'[u].start = k.start /\ task'[u].pc = (IF k.start = NoGame THEN "ready" ELSE "spawn")
      /\ \A v \in User \ {u} : task'[v] = task[v]
  BY SaveIs DEF purse
<1>2. Told(k)
  BY <1>1 DEF Rounds
<1>3. /\ \A j \in DOMAIN k.copy : \A t \in TeamsOf(k.copy[j]) :
           \A v \in User : Plays(k.copy[j].teams[t], v) =>
             IF v = u THEN k.then.game = j /\ k.then.team = t
             ELSE j \in DOMAIN k.read /\ t \in TeamsOf(k.read[j]) /\ Plays(k.read[j].teams[t], v)
  BY DEF TaskSeats
<1>4. /\ Entrant(u) => tickets[u] >= 2 \/ Astray(u)
      /\ \A j \in DOMAIN k.copy : InTeam(k.copy[j], u) =>
           k.copy[j].state = "Waiting" \/ (j \in DOMAIN k.read /\ InTeam(k.read[j], u))
  BY DEF TaskPays, Steady
<1> HIDE DEF k
<1>5. ASSUME NEW j \in DOMAIN games, j \in DOMAIN games', games'[j].state = "Waiting"
      PROVE  games[j].state = "Waiting"
  <2>1. j # NoGame
    BY TypedParts DEF Id, NoGame
  <2>2. j # k.start
    BY <1>1, <1>2, <1>5, <2>1 DEF Told
  <2> QED
    BY <1>1, <1>2, <1>5, <2>2 DEF Told
<1>6. \A v \in User \ {u} : Ousts(v)
  <2> SUFFICES ASSUME NEW v \in User \ {u}, NEW j \in DOMAIN games', InTeam(games'[j], v)
               PROVE  j \in DOMAIN games /\ InTeam(games[j], v)
    BY <1>5 DEF Ousts
  <2> QED
    BY <1>1, <1>3 DEF InTeam
<1>7. ASSUME NEW j \in DOMAIN games, j \in DOMAIN games', Uncharged(j)'
      PROVE  Uncharged(j)
  <2>1. CASE games'[j].state = "Waiting"
    BY <1>5, <1>7, <2>1 DEF Uncharged
  <2>2. CASE Awaits(j)'
    <3>1. PICK v \in User : task'[v].pc = "spawn" /\ task'[v].start = j
      BY <2>2 DEF Awaits
    <3>2. CASE v # u
      BY <1>1, <3>1, <3>2 DEF Uncharged, Awaits
    <3>3. CASE v = u
      <4>1. k.start = j /\ k.start # NoGame
        BY <1>1, <3>1, <3>3
      <4>2. games[j].state = "Waiting"
        BY <1>1, <1>2, <4>1 DEF Told
      <4> QED
        BY <4>2 DEF Uncharged
    <3> QED
      BY <3>2, <3>3
  <2>3. CASE ~Awaits(j)' /\ games'[j].state # "Waiting"
    BY <1>1, <1>7, <2>3 DEF Uncharged
  <2> QED
    BY <2>1, <2>2, <2>3
<1>8. ASSUME NEW v \in User \ {u}, NEW j \in DOMAIN games', InTeam(games'[j], v), Uncharged(j)'
      PROVE  tickets'[v] >= 2
  <2>1. Ousts(v)
    BY <1>6
  <2>2. \A m \in DOMAIN games' : InTeam(games'[m], v) /\ Uncharged(m)' => Uncharged(m)
    BY <1>7, <2>1 DEF Ousts
  <2> QED
    BY <1>1, <1>8, <2>1, <2>2, OustedFunds
<1>9. ASSUME NEW j \in DOMAIN games', InTeam(games'[j], u), Uncharged(j)'
      PROVE  tickets'[u] >= 2
  <2>1. CASE games'[j].state = "Waiting"
    <3>1. Entrant(u)
      BY <1>1, <1>9, <2>1 DEF Entrant, k
    <3>2. ~Astray(u)
      BY <1>1 DEF Astray, k
    <3> QED
      BY <1>1, <1>4, <3>1, <3>2
  <2>2. CASE games'[j].state # "Waiting"
    <3>1. j \in DOMAIN games /\ InTeam(games[j], u)
      BY <1>1, <1>4, <1>9, <2>2
    <3> QED
      BY <1>1, <1>7, <1>9, <3>1 DEF Funded
  <2> QED
    BY <2>1, <2>2
<1>10. Funded'
  BY <1>8, <1>9 DEF Funded
<1> QED
  BY <1>6, <1>10

\* So does a cycle's save.
LEMMA CycleSavePays ==
  ASSUME Typed, Carries, Funded, NEW i \in Id, CycleSave(i), ~raced'
  PROVE  Funded' /\ \A v \in User : Ousts(v)
<1> DEFINE G == cycle[i].copy
<1>1. /\ games' = G /\ games = cycle[i].read /\ task' = task /\ tickets' = tickets
      /\ CopyOf(cycle[i], i) /\ cycle[i].pc = "save"
      /\ cycle'[i].pc = cycle[i].then /\ \A j \in Id \ {i} : cycle'[j] = cycle[j]
      /\ cycle[i].then \in {"count", "tick", "last"}
  BY CycleSaveIs DEF purse
<1>2. /\ DOMAIN G = DOMAIN games /\ i \in DOMAIN games /\ Richer(games[i], G[i])
      /\ \A j \in DOMAIN games \ {i} : G[j] = games[j]
      /\ G[i].state \in {games[i].state, "Ended"}
  BY <1>1 DEF CopyOf
<1>3. DOMAIN games \subseteq Id
  BY TypedParts
<1> HIDE DEF G
<1>4. \A v : InTeam(G[i], v) <=> InTeam(games[i], v)
  <2>1. SameUsers(games[i], G[i])
    BY <1>2 DEF Richer, SameUsers
  <2> QED
    BY <2>1, UsersPlay
<1>5. \A v \in User : Ousts(v)
  <2> SUFFICES ASSUME NEW v \in User, NEW j \in DOMAIN games, InTeam(G[j], v)
               PROVE  InTeam(games[j], v) /\ (G[j].state = "Waiting" => games[j].state = "Waiting")
    BY <1>1, <1>2 DEF Ousts
  <2>1. CASE j = i
    BY <1>2, <1>4, <2>1
  <2>2. CASE j # i
    BY <1>2, <2>2
  <2> QED
    BY <2>1, <2>2
<1>6. ASSUME NEW j \in DOMAIN games, Uncharged(j)'
      PROVE  Uncharged(j)
  <2>1. CASE j = i
    BY <1>1, <1>2, <1>6, <2>1 DEF Uncharged, Awaits
  <2>2. CASE j # i
    BY <1>1, <1>2, <1>3, <1>6, <2>2 DEF Uncharged, Awaits
  <2> QED
    BY <2>1, <2>2
<1>7. \A v \in User : \A j \in DOMAIN games' : InTeam(games'[j], v) /\ Uncharged(j)' => tickets'[v] >= 2
  <2> TAKE v \in User
  <2>1. \A j \in DOMAIN games' : InTeam(games'[j], v) /\ Uncharged(j)' => Uncharged(j)
    BY <1>1, <1>2, <1>6
  <2> QED
    BY <1>1, <1>5, <2>1, OustedFunds
<1> QED
  BY <1>5, <1>7 DEF Funded

\* The tickets are taken from everybody in the game, once.
LEMMA ChargePays ==
  ASSUME Typed, Purses, Carries, Quiet, Rounds, Inside, Funded, ~raced',
         \A u \in User : tickets[u] >= 0,
         \A u \in User : task[u].pc = "save" => /\ TaskSeats(task[u], u)
                                                /\ TaskPays(u),
         NEW i \in Id, NEW c, CycleMoves(i, c), Charges(i, c)
  PROVE  /\ Funded' /\ \A u \in User : tickets'[u] >= 0
         /\ \A u \in User : task[u].pc = "save" =>
              (Entrant(u) => tickets'[u] >= 2 \/ Astray(u))
<1>1. /\ UNCHANGED <<games, sess, task>> /\ cycle'[i] = c
      /\ \A j \in Id \ {i} : cycle'[j] = cycle[j]
  <2>1. cycle \in [Id -> Cycle]
    BY DEF Typed
  <2> QED
    BY <2>1 DEF CycleMoves, Cycles
<1>2. /\ cycle[i].pc = "take" /\ c.pc = "save" /\ c.then = "tick"
      /\ i \in DOMAIN games /\ cycle[i].copy[i] = games[i]
  <2>1. CopyOf(cycle[i], i) /\ games = cycle[i].read
    BY DEF Carries, Charges
  <2> QED
    BY <2>1 DEF Charges, CopyOf
<1>3. \A u \in User : /\ tickets[u] \in Int
                      /\ tickets'[u] = tickets[u] - 2 * EndsOf(games[i], u)
  BY <1>2 DEF Charges, Purses
<1>4. games[i] \in Game /\ Busy(i) /\ Has(i) /\ DOMAIN games \subseteq Id
  BY <1>2, TypedParts DEF Busy, Has
<1>5. games[i].state # "Waiting" /\ ~Awaits(i)
  <2>1. Round(i) /\ \A u \in User : Called(u)
    BY DEF Rounds
  <2> QED
    BY <1>2, <1>4, <2>1 DEF Round, Called, Awaits
<1>6. ASSUME NEW u \in User, ~InTeam(games[i], u)
      PROVE  tickets'[u] = tickets[u]
  <2>1. EndsOf(games[i], u) = 0
    BY <1>4, <1>6, NobodysScore
  <2> QED
    BY <1>3, <2>1
<1>7. ASSUME NEW u \in User, InTeam(games[i], u)
      PROVE  /\ tickets'[u] >= 0
             /\ \A j \in DOMAIN games \ {i} : ~InTeam(games[j], u)
             /\ sess[u].game = i
  <2>1. PICK s \in TeamsOf(games[i]) : Plays(games[i].teams[s], u)
    BY <1>7 DEF InTeam
  <2>2. \A j \in DOMAIN games : \A t \in TeamsOf(games[j]) :
          /\ Single(games[j].teams[t])
          /\ Plays(games[j].teams[t], u) => sess[u].game = j /\ sess[u].team = t
    BY DEF Inside
  <2>3. EndsOf(games[i], u) = 1
    BY <1>2, <1>4, <2>1, <2>2, OneEnd
  <2>4. tickets[u] >= 2
    BY <1>2, <1>7 DEF Funded, Uncharged
  <2>5. tickets'[u] >= 0
    BY <1>3, <2>3, <2>4
  <2>6. sess[u].game = i
    BY <1>2, <2>1, <2>2
  <2>7. \A j \in DOMAIN games \ {i} : ~InTeam(games[j], u)
    BY <2>2, <2>6 DEF InTeam
  <2> QED
    BY <2>5, <2>6, <2>7
<1>8. \A u \in User : tickets'[u] >= 0
  BY <1>6, <1>7
<1>9. ~Uncharged(i)'
  BY <1>1, <1>2, <1>5 DEF Uncharged, Awaits
<1>10. ASSUME NEW j \in DOMAIN games, j # i, Uncharged(j)'
       PROVE  Uncharged(j)
  BY <1>1, <1>4, <1>10 DEF Uncharged, Awaits
<1>11. ASSUME NEW u \in User, NEW j \in DOMAIN games, InTeam(games[j], u), Uncharged(j)'
       PROVE  tickets'[u] >= 2
  <2>1. j # i
    BY <1>9, <1>11
  <2>2. ~InTeam(games[i], u) /\ Uncharged(j)
    BY <1>7, <1>10, <1>11, <2>1
  <2>3. tickets[u] >= 2
    BY <1>11, <2>2 DEF Funded
  <2> QED
    BY <1>6, <2>2, <2>3
<1>12. Funded'
  BY <1>1, <1>11 DEF Funded
<1>13. ASSUME NEW u \in User, task[u].pc = "save", Entrant(u)
       PROVE  tickets'[u] >= 2 \/ Astray(u)
  <2>1. /\ TaskSeats(task[u], u) /\ TaskPays(u) /\ Told(task[u])
    BY <1>13 DEF Rounds
  <2> DEFINE k == task[u]
  <2>2. k.start \in Id \cup {NoGame} /\ i # NoGame
    BY TypedParts DEF Id, NoGame
  <2>3. /\ TaskSeats(k, u) /\ Told(k)
        /\ \A m \in DOMAIN games : InTeam(games[m], u) => m \in DOMAIN k.read /\ InTeam(k.read[m], u)
        /\ k.then.game \in {NoGame, sess[u].game} \/ sess[u].game = NoGame
        /\ \E j \in DOMAIN k.copy : k.copy[j].state = "Waiting" /\ InTeam(k.copy[j], u)
    BY <1>13, <2>1 DEF TaskPays, Entrant, Seen, Steady
  <2> HIDE DEF k
  <2>4. CASE ~InTeam(games[i], u)
    BY <1>6, <1>13, <2>1, <2>4 DEF TaskPays
  <2>5. CASE InTeam(games[i], u)
    <3>1. PICK j \in DOMAIN k.copy : k.copy[j].state = "Waiting" /\ InTeam(k.copy[j], u)
      BY <2>3
    <3>2. k.then.game = j
      BY <2>3, <3>1 DEF TaskSeats, InTeam
    <3>3. i \in DOMAIN k.read /\ InTeam(k.read[i], u)
      BY <1>2, <2>3, <2>5
    <3>4. k.then.game \in {NoGame, i}
      BY <1>7, <2>2, <2>3, <2>5
    <3>5. CASE j = i
      <4>1. k.read[i].state = "Waiting"
        <5>1. k.start # i
          BY <2>2, <2>3, <3>1, <3>5 DEF Told
        <5> QED
          BY <2>3, <3>1, <3>3, <3>5, <5>1 DEF Told
      <4> QED
        BY <1>5, <3>3, <4>1 DEF Astray, k
    <3>6. j # NoGame
      <4>1. k.copy \in Tables(Game)
        BY TypedParts DEF k
      <4> QED
        BY <3>1, <4>1, TableIs DEF Id, NoGame
    <3> QED
      BY <3>2, <3>4, <3>5, <3>6
  <2> QED
    BY <2>4, <2>5
<1> QED
  BY <1>8, <1>12, <1>13

\* The other steps of a cycle.
LEMMA MovePays ==
  ASSUME Typed, Funded, NEW i \in Id, NEW c, CycleMoves(i, c), ~Charges(i, c)
  PROVE  Funded' /\ tickets' = tickets
<1>1. /\ UNCHANGED <<games, sess, task>> /\ cycle'[i] = c
      /\ \A j \in Id \ {i} : cycle'[j] = cycle[j]
  <2>1. cycle \in [Id -> Cycle]
    BY DEF Typed
  <2> QED
    BY <2>1 DEF CycleMoves, Cycles
<1>2. tickets' = tickets
  BY DEF CycleMoves, Stops, Begins, Counts, Ticks, purse
<1>3. DOMAIN games \subseteq Id
  BY TypedParts
<1>4. c.pc \in {"begin", "count", "take"} \/ (c.pc = "save" /\ c.then = "count")
      => cycle[i].pc \in {"begin", "count"}
  BY DEF CycleMoves, Stops, Begins, Counts, Ticks
<1>5. ASSUME NEW j \in DOMAIN games, Uncharged(j)'
      PROVE  Uncharged(j)
  <2>1. CASE j = i
    BY <1>1, <1>4, <1>5, <2>1 DEF Uncharged, Awaits
  <2>2. CASE j # i
    BY <1>1, <1>3, <1>5, <2>2 DEF Uncharged, Awaits
  <2> QED
    BY <2>1, <2>2
<1> QED
  BY <1>1, <1>2, <1>5 DEF Funded

\* Spawning a cycle makes nobody pay who was not to.
LEMMA SpawnPays ==
  ASSUME Typed, Funded, NEW u \in User, SpawnCycle(u)
  PROVE  Funded' /\ tickets' = tickets
<1> DEFINE i == task[u].start
<1>1. /\ task[u].pc = "spawn" /\ games' = games /\ tickets' = tickets
      /\ task'[u] = AtRest /\ \A v \in User \ {u} : task'[v] = task[v]
      /\ \A j \in Id : \/ cycle'[j] = cycle[j] /\ ~(j = i /\ cycle[j].pc = "off")
                       \/ j = i /\ cycle[j].pc = "off" /\ cycle'[j].pc = "begin"
  BY SpawnIs DEF purse
<1>2. DOMAIN games \subseteq Id /\ AtRest.pc = "ready"
  BY TypedParts DEF AtRest
<1>3. Awaits(i)
  BY <1>1 DEF Awaits
<1> HIDE DEF i
<1>4. \A j : Awaits(j)' => Awaits(j)
  BY <1>1, <1>2 DEF Awaits
<1>5. ASSUME NEW j \in DOMAIN games, Uncharged(j)'
      PROVE  Uncharged(j)
  BY <1>1, <1>2, <1>3, <1>4, <1>5 DEF Uncharged
<1> QED
  BY <1>1, <1>5 DEF Funded

\* No step puts anybody into debt.
LEMMA SolventNext == Sound /\ Member /\ Solvent /\ [Next]_vars => Solvent'
<1> SUFFICES ASSUME Sound, Member, Solvent, [Next]_vars, Quiet', ~gone'
             PROVE  /\ Funded' /\ \A u \in User : tickets'[u] >= 0
                    /\ \A u \in User : task'[u].pc = "save" => TaskPays(u)'
  BY DEF Solvent
<1>1. Quiet /\ ~gone /\ ~raced' /\ ~reused' /\ ~restarted'
  BY FlagsGrow DEF Quiet
<1>2. Typed /\ Purses /\ Carries /\ All(FairGame) /\ Rounds
  BY <1>1 DEF Sound, AllFair, Quiet
<1>3. /\ Inside
      /\ \A u \in User : task[u].pc = "save" => TaskSeats(task[u], u)
  BY <1>1 DEF Member, Quiet
<1>4. /\ Funded /\ \A u \in User : tickets[u] >= 0
      /\ \A u \in User : task[u].pc = "save" => TaskPays(u)
  BY <1>1 DEF Solvent
<1>5. tickets \in [User -> Int] /\ DOMAIN sess = User
  BY <1>2 DEF Purses, Typed
<1> DEFINE After == /\ Funded' /\ \A u \in User : tickets'[u] >= 0
                    /\ \A u \in User : task'[u].pc = "save" => TaskPays(u)'

\* Who does nothing, in a step that leaves the tickets alone.
<1>6. ASSUME NEW v \in User, Ousts(v), UNCHANGED tickets, task'[v] = task[v], sess'[v] = sess[v],
             task'[v].pc = "save"
      PROVE  TaskPays(v)'
  <2>1. TaskPays(v)
    BY <1>4, <1>6
  <2> QED
    BY <1>6, <2>1, OustedPays
<1>7. ASSUME UNCHANGED games
      PROVE  \A v \in User : Ousts(v)
  BY <1>7 DEF Ousts
<1>8. ASSUME NEW u \in User, Handler(u)
      PROVE  After
  <2>1. /\ Funded' /\ UNCHANGED <<games, tickets>> /\ TaskPays(u)'
    BY <1>2, <1>3, <1>4, <1>5, <1>8, HandlerPays
  <2>2. sess' = sess /\ \A v \in User \ {u} : task'[v] = task[v]
    BY <1>2, <1>8, HandlerEdits, SetIs DEF HandlerEdited, Handles
  <2>4. \A v \in User \ {u} : task'[v].pc = "save" => TaskPays(v)'
    BY <1>6, <1>7, <2>1, <2>2
  <2>5. \A v \in User : task'[v].pc = "save" => TaskPays(v)'
    BY <2>1, <2>4
  <2> QED
    BY <1>4, <2>1, <2>5
<1>9. ASSUME NEW u \in User, Forget(u)
      PROVE  After
  <2>1. /\ task[u].pc = "ready" /\ UNCHANGED <<games, task, cycle, tickets>>
        /\ sess' = [sess EXCEPT ![u] = Cleared(u)]
    BY <1>9 DEF Forget, Ready, purse
  <2>2. \A v \in User \ {u} : sess'[v] = sess[v]
    BY <1>5, <2>1
  <2>3. Funded'
    BY <1>4, <2>1 DEF Funded, Uncharged, Awaits
  <2>4. \A v \in User : task'[v].pc = "save" => TaskPays(v)'
    BY <1>6, <1>7, <2>1, <2>2
  <2> QED
    BY <1>4, <2>1, <2>3, <2>4
<1>10. ASSUME NEW u \in User, Save(u)
       PROVE  After
  <2>1. /\ task[u].pc = "save" /\ tickets' = tickets /\ task'[u].pc \in {"ready", "spawn"}
        /\ sess' = [sess EXCEPT ![u] = task[u].then] /\ \A v \in User \ {u} : task'[v] = task[v]
    BY <1>2, <1>10, SaveIs DEF purse
  <2>2. \A v \in User \ {u} : sess'[v] = sess[v]
    BY <1>5, <2>1
  <2>3. TaskSeats(task[u], u) /\ TaskPays(u)
    BY <1>3, <1>4, <2>1
  <2>4. Funded' /\ \A v \in User \ {u} : Ousts(v)
    BY <1>1, <1>2, <1>4, <1>10, <2>3, SavePays
  <2>5. \A v \in User : task'[v].pc = "save" => TaskPays(v)'
    BY <1>6, <2>1, <2>2, <2>4
  <2> QED
    BY <1>4, <2>1, <2>4, <2>5
<1>11. ASSUME NEW u \in User, SpawnCycle(u)
       PROVE  After
  <2>1. /\ UNCHANGED <<games, sess>> /\ task'[u].pc = "ready"
        /\ \A v \in User \ {u} : task'[v] = task[v]
    BY <1>2, <1>11, SpawnIs DEF AtRest
  <2>2. Funded' /\ tickets' = tickets
    BY <1>2, <1>4, <1>11, SpawnPays
  <2>3. \A v \in User : task'[v].pc = "save" => TaskPays(v)'
    BY <1>6, <1>7, <2>1, <2>2
  <2> QED
    BY <1>4, <2>2, <2>3
<1>12. ASSUME NEW i \in Id, CycleGoes(i)
       PROVE  After
  <2>1. PICK c : CycleMoves(i, c)
    BY <1>2, <1>12, CycleGoesOn
  <2>2. UNCHANGED <<games, sess, task>>
    BY <2>1 DEF CycleMoves, Cycles
  <2>3. CASE Charges(i, c)
    <3>1. /\ Funded' /\ \A u \in User : tickets'[u] >= 0
          /\ \A u \in User : task[u].pc = "save" =>
               (Entrant(u) => tickets'[u] >= 2 \/ Astray(u))
      BY <1>1, <1>2, <1>3, <1>4, <2>1, <2>3, ChargePays
    <3>2. \A v \in User : task'[v].pc = "save" => TaskPays(v)'
      BY <1>4, <2>2, <3>1 DEF TaskPays, Entrant, Astray, Seen, Steady
    <3> QED
      BY <3>1, <3>2
  <2>4. CASE ~Charges(i, c)
    <3>1. Funded' /\ tickets' = tickets
      BY <1>2, <1>4, <2>1, <2>4, MovePays
    <3>2. \A v \in User : task'[v].pc = "save" => TaskPays(v)'
      BY <1>6, <1>7, <2>2, <3>1
    <3> QED
      BY <1>4, <3>1, <3>2
  <2> QED
    BY <2>3, <2>4
<1>13. ASSUME NEW i \in Id, CycleSave(i)
       PROVE  After
  <2>1. UNCHANGED <<sess, task, tickets>>
    BY <1>2, <1>13, CycleSaveIs DEF purse
  <2>2. Funded' /\ \A v \in User : Ousts(v)
    BY <1>1, <1>2, <1>4, <1>13, CycleSavePays
  <2>3. \A v \in User : task'[v].pc = "save" => TaskPays(v)'
    BY <1>6, <2>1, <2>2
  <2> QED
    BY <1>4, <2>1, <2>2, <2>3
<1>14. CASE UNCHANGED vars
  <2>1. UNCHANGED <<games, sess, task, cycle, tickets>>
    BY <1>14 DEF vars, purse
  <2>2. Funded'
    BY <1>4, <2>1 DEF Funded, Uncharged, Awaits
  <2>3. \A v \in User : task'[v].pc = "save" => TaskPays(v)'
    BY <1>6, <1>7, <2>1
  <2> QED
    BY <1>4, <2>1, <2>2, <2>3
<1> QED
  BY <1>8, <1>9, <1>10, <1>11, <1>12, <1>13, <1>14, NextIs

\* In the beginning everybody has the first tickets.
LEMMA SolventInit == Init => Solvent
<1> SUFFICES ASSUME Init PROVE Solvent
  OBVIOUS
<1>1. /\ games = NoGames /\ \A v \in User : task[v] = AtRest /\ tickets[v] = Tickets
  BY DEF Init
<1>2. Tickets >= 0
  BY GamesAssumption
<1> QED
  BY <1>1, <1>2 DEF Solvent, Funded, NoGames, AtRest

\* Nobody pays for a game without the tickets for it: between the check when a player joins
\* and the charge after the countdown (switch_team, process_create_game, run_game_cycle)
\* nothing else takes them, unless a game was started twice, an id used again under a
\* running cycle, a copy lost, or a session ended in a game.
THEOREM NobodyInDebt == Spec => []NoDebt
<1>1. Sound /\ Member /\ [Next]_vars => Member'
  BY MemberNext DEF Sound
<1>2. Solvent => NoDebt
  BY DEF Solvent, Quiet, NoDebt
<1> QED
  BY <1>1, <1>2, SoundInit, SoundNext, MemberInit, SolventInit, SolventNext, PTL DEF Spec

================================================================================
