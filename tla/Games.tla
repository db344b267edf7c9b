-------------------------------- MODULE Games --------------------------------
(***************************************************************************)
(* The games of a lobby: created, joined, left and started by sessions,    *)
(* played by the game's cycle.                                             *)
(*                                                                         *)
(* The games are part of the copy of the room.  A handler reads the copy,  *)
(* waits for the database, and saves the whole copy; the cycle of a game   *)
(* does the same about twice a second.  What was saved between the two is  *)
(* lost.  The id of a game is the lowest free one; sessions and cycles     *)
(* know games by their ids.                                                *)
(*                                                                         *)
(* Sources: session_impl.rs (game_lobby_checkout .. clear_current_game_state,*)
(* leave_room, cleanup), games/game.rs, games/game_lobby.rs,               *)
(* games/game_player.rs, managers/room_manager.rs                          *)
(* (spawn_game_cycle_if_needed), pathfinder/game_pathfinder.rs.            *)
(***************************************************************************)
EXTENDS Integers, Sequences, FiniteSets, FiniteSetsExt, SequencesExt

CONSTANTS
  User,
  RoomUid,            \* the number of a user's avatar in the lobby
  Tickets,            \* of every user in the beginning
  TeamAmounts,        \* numTeams of the games that are created
  Arena, Wall,        \* the tiles of the map; those that are "x"
  Spawn, Aside,       \* the spawn tile of a team, and the step to its neighbour
  Length,             \* game_battle_ball_game_length_seconds
  Countdown,          \* game_countdown_seconds
  Goal,               \* bound: the tiles that players aim at
  MaxId, MaxStarts    \* bounds: games at once; how often any is started

NoGame == -1
NoTeam == -1
NoGoal == <<-1, -1>>
Id == 0 .. MaxId
Team == 0 .. 3
Tile == Int \X Int

ASSUME GamesAssumption ==
  /\ IsFiniteSet(User) /\ RoomUid \in [User -> Nat \ {0}]
  /\ Tickets \in Nat /\ TeamAmounts \subseteq 1 .. 4
  /\ Arena \subseteq Nat \X Nat /\ Wall \subseteq Arena /\ Goal \subseteq Tile
  /\ Spawn \in [Team -> Arena] /\ Aside \in [Team -> {<<1, 0>>, <<0, 1>>}]
  /\ Length \in Nat \ {0} /\ Countdown \in Nat /\ MaxId \in Nat /\ MaxStarts \in Nat

VARIABLES
  games,      \* lobby.games: id |-> game
  sess,       \* the sessions: avatar in the lobby, current_game_id, current_game_team_id
  task,       \* a session's copy on its way back to the table
  cycle,      \* id |-> the cycle of the game, and the copy it holds
  tickets, points,    \* users.tickets, users.bb_totalpoints
  starts,     \* bound
  scored,     \* history: the points a user has made on tiles
  raced,      \* history: a copy was saved over a change, or used after one
  gone,       \* history: a session ended while in a game
  loose,      \* history: users who were put out of a game, or whose game was taken
              \* away, and whose sessions still name it
  restarted,  \* history: a game was started that had been started before
  reused,     \* history: a game got an id whose cycle still runs, or is yet to begin
  missed,     \* history: a game was started while its cycle was about to end
  failed,     \* history: the scores of a game were not written
  stacked     \* history: a player found no free spawn tile

flags == <<raced, gone, loose, restarted, reused, missed, failed, stacked>>
purse == <<tickets, points, scored>>
vars == <<games, sess, task, cycle, purse, starts, flags>>

Player == [user : User, uid : Nat, at : Arena \cup {<<0, 0>>}, goal : Tile,
           score : Nat, entering : BOOLEAN]
Game == [owner : User, state : {"Waiting", "Started", "Ended"},
         teams : UNION {[0 .. n - 1 -> Seq(Player)] : n \in TeamAmounts},
         viewers : SUBSET User,
         blocked : SUBSET Arena,
         tiles : [Arena -> [team : Team \cup {NoTeam}, level : 0 .. 4]],
         scores : UNION {[0 .. n - 1 -> Nat] : n \in TeamAmounts},
         left : Nat, phase : BOOLEAN]
Session == [here : BOOLEAN, game : Id \cup {NoGame}, team : Team \cup {NoTeam}]

IsTable(G) == DOMAIN G \subseteq Id /\ G \in [DOMAIN G -> Game]
TypeOK ==
  /\ IsTable(games)
  /\ sess \in [User -> Session]
  /\ \A u \in User :
       /\ task[u].pc \in {"ready", "save", "spawn"} /\ task[u].then \in Session
       /\ IsTable(task[u].copy) /\ IsTable(task[u].read)
       /\ task[u].start \in Id \cup {NoGame}
  /\ \A i \in Id :
       /\ cycle[i].pc \in {"off", "begin", "count", "tick", "last", "take", "save"}
       /\ cycle[i].then \in {"off", "count", "tick", "last"}
       /\ cycle[i].steps \in 0 .. Countdown
       /\ IsTable(cycle[i].copy) /\ IsTable(cycle[i].read)
  /\ tickets \in [User -> Int] /\ points \in [User -> Nat] /\ scored \in [User -> Nat]
  /\ starts \in 0 .. MaxStarts /\ loose \subseteq User

NoGames == [i \in {} |-> i]
Out == [here |-> FALSE, game |-> NoGame, team |-> NoTeam]
AtRest == [pc |-> "ready", copy |-> NoGames, read |-> NoGames, then |-> Out, start |-> NoGame]
Off == [pc |-> "off", then |-> "off", steps |-> 0, copy |-> NoGames, read |-> NoGames]

Init ==
  /\ games = NoGames
  /\ sess = [u \in User |-> Out] /\ task = [u \in User |-> AtRest]
  /\ cycle = [i \in Id |-> Off]
  /\ tickets = [u \in User |-> Tickets] /\ points = [u \in User |-> 0]
  /\ scored = [u \in User |-> 0] /\ starts = 0
  /\ raced = FALSE /\ gone = FALSE /\ loose = {} /\ restarted = FALSE
  /\ reused = FALSE /\ missed = FALSE /\ failed = FALSE /\ stacked = FALSE

-----------------------------------------------------------------------------
(* Players and teams                                                       *)

NewPlayer(u, uid) ==
  [user |-> u, uid |-> uid, at |-> <<0, 0>>, goal |-> NoGoal, score |-> 0,
   entering |-> FALSE]
GamePlayer(u) == NewPlayer(u, RoomUid[u])

Plays(team, u) == \E n \in DOMAIN team : team[n].user = u
Without(team, u) ==
  FoldLeft(LAMBDA rest, p : IF p.user = u THEN rest ELSE Append(rest, p), <<>>, team)
TeamsOf(g) == DOMAIN g.teams
InTeam(g, u) == \E t \in TeamsOf(g) : Plays(g.teams[t], u)
Members(g) == {u \in User : InTeam(g, u)}

TeamHasSpace(g, t) ==
  /\ t \in TeamsOf(g)
  /\ Len(g.teams[t]) < CASE Cardinality(TeamsOf(g)) = 2 -> 6
                         [] Cardinality(TeamsOf(g)) = 3 -> 4
                         [] Cardinality(TeamsOf(g)) = 4 -> 3
                         [] OTHER -> 0

\* move_player_by_user_id: the owner keeps what is known of the owner.  Anybody else
\* was taken out of the team before the player is looked for: unless there is another
\* one of the name, a nameless player comes in its place.
Taken(g, u, from) ==
  LET rest == [g.teams EXCEPT ![from] = Without(@, u)]
      twins == {t \in DOMAIN rest : Plays(rest[t], u)}
      twin == Min(twins)
  IN IF g.owner = u THEN [teams |-> rest, player |-> GamePlayer(u)]
     ELSE IF twins = {} THEN [teams |-> rest, player |-> NewPlayer(u, 0)]
     ELSE LET n == Min({m \in DOMAIN rest[twin] : rest[twin][m].user = u})
          IN [teams |-> [rest EXCEPT ![twin] = RemoveAt(@, n)], player |-> rest[twin][n]]
MoveOut(g, u, from) == [g EXCEPT !.teams = Taken(g, u, from).teams]
MoveTo(g, u, from, to) ==
  LET k == Taken(g, u, from)
  IN [g EXCEPT !.teams = IF Plays(k.teams[to], u) THEN k.teams
                         ELSE [k.teams EXCEPT ![to] = Append(@, k.player)]]

NewGame(u, n) ==
  [owner |-> u, state |-> "Waiting",
   teams |-> [t \in 0 .. n - 1 |-> IF t = 0 THEN <<GamePlayer(u)>> ELSE <<>>],
   viewers |-> {}, blocked |-> {},
   tiles |-> [p \in Arena |-> [team |-> NoTeam, level |-> 4]],
   scores |-> [t \in 0 .. n - 1 |-> 0], left |-> Length, phase |-> FALSE]

With(G, i, g) == [j \in DOMAIN G \cup {i} |-> IF j = i THEN g ELSE G[j]]
Less(G, i) == [j \in DOMAIN G \ {i} |-> G[j]]

-----------------------------------------------------------------------------
(* A handler: reads the copy (Begin), and saves it                         *)

Ready(u) == task[u].pc = "ready"
Set(u, G, s, i) ==
  task' = [task EXCEPT ![u] =
    [pc |-> "save", copy |-> G, read |-> games, then |-> s, start |-> i]]
Begin(u, G, s) ==
  /\ Set(u, G, s, NoGame)
  /\ UNCHANGED <<games, sess, cycle, purse, starts, flags>>

Busy(i) ==
  cycle[i].pc # "off" \/ \E u \in User : task[u].pc = "spawn" /\ task[u].start = i
\* A save takes the user's place in the game away, and the session goes on naming it.
PutOut(u) ==
  LET i == sess[u].game IN
  /\ i \in DOMAIN games /\ sess'[u].game = i /\ sess'[u].team = sess[u].team
  /\ i \notin DOMAIN games' \/ (InTeam(games[i], u) /\ ~InTeam(games'[i], u))

Save(u) ==
  /\ task[u].pc = "save"
  /\ games' = task[u].copy
  /\ sess' = [sess EXCEPT ![u] = task[u].then]
  /\ raced' = (raced \/ games # task[u].read)
  /\ reused' = (reused \/ \E i \in DOMAIN games' \ DOMAIN games : Busy(i))
  /\ loose' = {v \in loose \cup {w \in User : PutOut(w)} : sess'[v].game # NoGame}
  /\ LET i == task[u].start IN
       task' = [task EXCEPT ![u] =
         IF i = NoGame THEN AtRest ELSE [AtRest EXCEPT !.pc = "spawn", !.start = i]]
  /\ UNCHANGED <<cycle, purse, starts, gone, restarted, missed, failed, stacked>>

-----------------------------------------------------------------------------
(* The lobby                                                               *)

MayCreate(u) == sess[u].here /\ sess[u].game = NoGame
Mine(u) == games[sess[u].game]
HasGame(u) == sess[u].game \in DOMAIN games

EnterLobby(u) ==
  /\ Ready(u) /\ ~sess[u].here /\ sess[u].game = NoGame
  /\ Begin(u, games, [sess[u] EXCEPT !.here = TRUE])

Checkout(u, i) ==
  /\ Ready(u) /\ MayCreate(u) /\ i \in DOMAIN games
  /\ Begin(u, [games EXCEPT ![i].viewers = @ \cup {u}],
           [sess[u] EXCEPT !.game = i, !.team = NoTeam])

ProcessCreate(u, n) ==
  LET free == Id \ DOMAIN games IN
  /\ Ready(u) /\ MayCreate(u) /\ tickets[u] > 1 /\ free # {}
  /\ Begin(u, With(games, Min(free), NewGame(u, n)),
           [sess[u] EXCEPT !.game = Min(free), !.team = 0])

\* Mutant: a player who changes the team is not taken out of the old one.
SwitchAndStay(u, t) ==
  LET i == sess[u].game
      g == Mine(u)
  IN /\ Ready(u) /\ HasGame(u) /\ tickets[u] > 1
     /\ g.state = "Waiting" /\ TeamHasSpace(g, t)
     /\ Begin(u, [games EXCEPT ![i] =
                    [g EXCEPT !.viewers = @ \ {u}, !.teams[t] = Append(@, GamePlayer(u))]],
              [sess[u] EXCEPT !.team = t])

\* Who looks on becomes a player, who plays changes the team.
SwitchTeam(u, t) ==
  LET i == sess[u].game
      g == Mine(u)
  IN /\ Ready(u) /\ HasGame(u) /\ tickets[u] > 1
     /\ g.state = "Waiting" /\ TeamHasSpace(g, t)
     /\ Begin(u, [games EXCEPT ![i] = IF sess[u].team = NoTeam
                    THEN [g EXCEPT !.viewers = @ \ {u}, !.teams[t] = Append(@, GamePlayer(u))]
                    ELSE MoveTo(g, u, sess[u].team, t)],
              [sess[u] EXCEPT !.team = t])

\* The game's owner takes the game along, in whatever state it is.
Left(u) ==
  LET i == sess[u].game
      g == Mine(u)
  IN IF ~HasGame(u) THEN games
     ELSE IF g.owner = u THEN Less(games, i)
     ELSE [games EXCEPT ![i] =
             IF sess[u].team \in TeamsOf(g) THEN MoveOut(g, u, sess[u].team)
             ELSE IF sess[u].team = NoTeam THEN [g EXCEPT !.viewers = @ \ {u}] ELSE g]
Cleared(u) == [sess[u] EXCEPT !.game = NoGame, !.team = NoTeam]

Leave(u) == Ready(u) /\ sess[u].game # NoGame /\ Begin(u, Left(u), Cleared(u))

\* The handlers that find no game under the id forget it.
Forget(u) ==
  /\ Ready(u) /\ sess[u].game # NoGame /\ ~HasGame(u)
  /\ sess' = [sess EXCEPT ![u] = Cleared(u)]
  /\ UNCHANGED <<games, task, cycle, purse, starts, flags>>

\* By the number of the player; the session of the kicked one is not told.
First(g, uid) ==
  LET S == {t \in TeamsOf(g) : \E n \in DOMAIN g.teams[t] : g.teams[t][n].uid = uid}
      team == g.teams[Min(S)]
  IN [team |-> Min(S), user |-> team[Min({n \in DOMAIN team : team[n].uid = uid})].user]
Kick(u, uid) ==
  LET i == sess[u].game
      g == Mine(u)
      k == First(g, uid)
  IN /\ Ready(u) /\ HasGame(u) /\ g.owner = u
     /\ \E t \in TeamsOf(g), n \in 1 .. Cardinality(User) :
          n \in DOMAIN g.teams[t] /\ g.teams[t][n].uid = uid
     /\ Begin(u, [games EXCEPT ![i] = MoveOut(g, k.user, k.team)], sess[u])

-----------------------------------------------------------------------------
(* start_game                                                              *)

Add(p, d) == <<p[1] + d[1], p[2] + d[2]>>
Back(d) == <<-d[1], -d[2]>>

\* The search goes to and fro between the spawn tile and one of its neighbours; after
\* fifty steps it is back at a tile that is taken.
Search(at, flip, d, blocked) ==
  LET next == Add(at, IF flip THEN Back(d) ELSE d) IN
  IF at \notin blocked THEN [at |-> at, flip |-> flip, free |-> at \in Arena]
  ELSE IF next \notin blocked
       THEN [at |-> next, flip |-> ~flip, free |-> next \in Arena]
  ELSE [at |-> at, flip |-> flip, free |-> FALSE]

\* The state of the loop over a team, and the loop over all teams.
Place(t, s, player) ==
  LET found == Search(s.at, s.flip, Aside[t], s.blocked)
      on == found.at \in Arena
  IN [at |-> found.at, flip |-> found.flip, uid |-> s.uid + 1,
      full |-> s.full \/ ~found.free,
      blocked |-> IF on THEN s.blocked \cup {found.at} ELSE s.blocked,
      team |-> Append(s.team, [player EXCEPT !.uid = s.uid, !.goal = NoGoal,
                 !.entering = TRUE, !.at = IF on THEN found.at ELSE @])]
PlaceTeam(g, s, t) ==
  LET p == FoldLeft(LAMBDA r, player : Place(t, r, player),
                    [at |-> Spawn[t], flip |-> FALSE, uid |-> s.uid, full |-> s.full,
                     blocked |-> s.blocked, team |-> <<>>],
                    g.teams[t])
  IN [uid |-> p.uid, full |-> p.full, blocked |-> p.blocked, teams |-> Append(s.teams, p.team)]
Placed(g) ==
  FoldLeft(LAMBDA s, t : PlaceTeam(g, s, t),
           [uid |-> 0, full |-> FALSE, blocked |-> Wall, teams |-> <<>>],
           [n \in 1 .. Cardinality(TeamsOf(g)) |-> n - 1])

\* Neither the time that is left nor the players' points begin anew.
StartGame(g) ==
  LET p == Placed(g)
  IN [g EXCEPT !.state = "Started", !.phase = FALSE,
        !.scores = [t \in TeamsOf(g) |-> 0],
        !.tiles = [x \in Arena |-> [team |-> NoTeam, level |-> IF x \in Wall THEN 4 ELSE 0]],
        !.blocked = p.blocked, !.teams = [t \in TeamsOf(g) |-> p.teams[t + 1]]]

Start(u) ==
  LET i == sess[u].game
      g == Mine(u)
  IN /\ Ready(u) /\ HasGame(u) /\ g.owner = u /\ starts < MaxStarts
     /\ starts' = starts + 1
     /\ Set(u, [games EXCEPT ![i] = StartGame(g)], sess[u], i)
     /\ restarted' = (restarted \/ g.state # "Waiting")
     /\ stacked' = (stacked \/ Placed(g).full)
     /\ UNCHANGED <<games, sess, cycle, purse, raced, gone, loose, reused, missed, failed>>

\* spawn_game_cycle_if_needed: not when there is one under the id.
SpawnCycle(u) ==
  LET i == task[u].start IN
  /\ task[u].pc = "spawn"
  /\ task' = [task EXCEPT ![u] = AtRest]
  /\ IF cycle[i].pc = "off" THEN cycle' = [cycle EXCEPT ![i].pc = "begin"]
     ELSE UNCHANGED cycle
  /\ missed' = (missed \/ "last" \in {cycle[i].pc, cycle[i].then})
  /\ UNCHANGED <<games, sess, purse, starts, raced, gone, loose, restarted, reused,
                 failed, stacked>>

-----------------------------------------------------------------------------
(* In the arena, and out of the lobby                                      *)

InGame(u) == HasGame(u) /\ InTeam(Mine(u), u)
Entries(g) == UNION {{g.teams[t][n] : n \in DOMAIN g.teams[t]} : t \in TeamsOf(g)}

\* try_enter_game_arena: the avatar leaves the lobby, which is saved even if it is empty.
EnterArena(u) ==
  /\ Ready(u) /\ InGame(u)
  /\ \E p \in Entries(Mine(u)) : p.user = u /\ p.entering
  /\ sess[u].here
  /\ Begin(u, games, [sess[u] EXCEPT !.here = FALSE])

\* leave_room and cleanup: the last one takes the lobby and its games along.
Alone(u) == \A v \in User \ {u} : ~sess[v].here
LobbyLess(u) == IF Alone(u) THEN NoGames ELSE games
LeaveLobby(u) ==
  /\ Ready(u) /\ sess[u].here
  /\ Begin(u, LobbyLess(u), [sess[u] EXCEPT !.here = FALSE])
Disconnect(u) ==
  /\ Ready(u) /\ (sess[u].here \/ sess[u].game # NoGame)
  /\ Set(u, IF sess[u].here THEN LobbyLess(u) ELSE games, Out, NoGame)
  /\ gone' = (gone \/ sess[u].game # NoGame)
  /\ UNCHANGED <<games, sess, cycle, purse, starts, raced, loose, restarted, reused,
                 missed, failed, stacked>>

\* game_ingame_move: the first player of the name in every team.
Aim(team, u, goal) ==
  LET n == Min({m \in DOMAIN team : team[m].user = u})
  IN IF Plays(team, u) THEN [team EXCEPT ![n].goal = goal] ELSE team
IngameMove(u, goal) ==
  LET i == sess[u].game IN
  /\ Ready(u) /\ HasGame(u) /\ sess[u].team # NoTeam /\ Mine(u).state = "Started"
  /\ Begin(u, [games EXCEPT ![i].teams = [t \in DOMAIN @ |-> Aim(@[t], u, goal)]], sess[u])

-----------------------------------------------------------------------------
(* tick                                                                    *)

Toward(a, b) == IF a < b THEN a + 1 ELSE IF a > b THEN a - 1 ELSE a
NextStep(at, goal) ==
  IF at = goal THEN <<-1, -1>> ELSE <<Toward(at[1], goal[1]), Toward(at[2], goal[2])>>

Active(g) == Cardinality({t \in TeamsOf(g) : g.teams[t] # <<>>})
Points(level) == <<1, 3, 5, 7>>[level]

\* Mutant: the team does not get what the number of teams makes of the points.
ColourAlone(g, t, n, at) ==
  LET tile == g.tiles[at]
      level == IF tile.team = t THEN tile.level + 1 ELSE 1
      extra == Active(g) * Points(level)
  IN IF tile.level = 4 THEN g
     ELSE [g EXCEPT !.tiles[at] = [team |-> t, level |-> level],
                    !.scores[t] = @ + Points(level), !.teams[t][n].score = @ + extra]

\* The tile takes the colour of the team, or gets one level higher.
Colour(g, t, n, at) ==
  LET tile == g.tiles[at]
      level == IF tile.team = t THEN tile.level + 1 ELSE 1
      extra == Active(g) * Points(level)
  IN IF tile.level = 4 THEN g
     ELSE [g EXCEPT !.tiles[at] = [team |-> t, level |-> level],
                    !.scores[t] = @ + extra, !.teams[t][n].score = @ + extra]

\* Mutant: the tile a player steps on stays free.
StepUnmarked(g, t, n) ==
  LET p == g.teams[t][n]
      next == NextStep(p.at, p.goal)
  IN IF p.goal[1] = -1 THEN g
     ELSE IF next \notin Arena \ g.blocked THEN [g EXCEPT !.teams[t][n].goal = NoGoal]
     ELSE Colour([g EXCEPT !.blocked = @ \ {p.at},
                   !.teams[t][n] = [p EXCEPT !.at = next,
                      !.goal = IF next = p.goal THEN NoGoal ELSE @]], t, n, next)

Step(g, t, n) ==
  LET p == g.teams[t][n]
      next == NextStep(p.at, p.goal)
  IN IF p.goal[1] = -1 THEN g
     ELSE IF next \notin Arena \ g.blocked THEN [g EXCEPT !.teams[t][n].goal = NoGoal]
     ELSE Colour([g EXCEPT !.blocked = (@ \ {p.at}) \cup {next},
                   !.teams[t][n] = [p EXCEPT !.at = next,
                      !.goal = IF next = p.goal THEN NoGoal ELSE @]], t, n, next)

TickTeam(g, t) == FoldLeft(LAMBDA h, n : Step(h, t, n), g, [n \in DOMAIN g.teams[t] |-> n])
\* Mutant: time only passes when somebody moves.
TickOnMoves(g) ==
  LET moved == FoldLeft(TickTeam, g, [n \in 1 .. Cardinality(TeamsOf(g)) |-> n - 1])
  IN IF g.state # "Started" THEN g
     ELSE [moved EXCEPT !.left = IF g.phase /\ moved # g THEN @ - 1 ELSE @, !.phase = ~@]

Tick(g) ==
  LET moved == FoldLeft(TickTeam, g, [n \in 1 .. Cardinality(TeamsOf(g)) |-> n - 1])
  IN IF g.state # "Started" THEN g
     ELSE [moved EXCEPT !.left = IF g.phase THEN @ - 1 ELSE @, !.phase = ~@]

\* What is looked up of a user's players goes through all teams.
Ends(g, u) ==
  UNION {{<<t, n>> : n \in {m \in DOMAIN g.teams[t] : g.teams[t][m].user = u}} :
         t \in TeamsOf(g)}
EndsOf(g, u) == Cardinality(Ends(g, u))
ScoreOf(g, u) == SumFunction([k \in Ends(g, u) |-> g.teams[k[1]][k[2]].score])

-----------------------------------------------------------------------------
(* The cycle of a game                                                     *)

Has(i) == i \in DOMAIN games
Hold(i, p, G, then, steps) ==
  cycle' = [cycle EXCEPT ![i] =
    [pc |-> p, copy |-> G, read |-> games, then |-> then, steps |-> steps]]
Stop(i) == cycle' = [cycle EXCEPT ![i] = Off]
rest == <<games, sess, task, starts>>

CycleBegin(i) ==
  /\ cycle[i].pc = "begin"
  /\ cycle' = [cycle EXCEPT ![i].pc = "count", ![i].steps = IF Has(i) THEN Countdown ELSE 0]
  /\ UNCHANGED <<rest, purse, flags>>

\* One second of the countdown; then the players are looked up.
CycleCount(i) ==
  /\ cycle[i].pc = "count" /\ cycle[i].steps > 0
  /\ IF Has(i) THEN Hold(i, "save", games, "count", cycle[i].steps - 1) ELSE Stop(i)
  /\ UNCHANGED <<rest, purse, flags>>
CycleCounted(i) ==
  /\ cycle[i].pc = "count" /\ cycle[i].steps = 0
  /\ IF Has(i) THEN Hold(i, "take", games, "tick", 0) ELSE Stop(i)
  /\ UNCHANGED <<rest, purse, flags>>

\* Two tickets from every player, whatever the game has come to.
CycleCharge(i) ==
  /\ cycle[i].pc = "take"
  /\ tickets' = [u \in User |-> tickets[u] - 2 * EndsOf(cycle[i].copy[i], u)]
  /\ cycle' = [cycle EXCEPT ![i].pc = "save"]
  /\ raced' = (raced \/ games # cycle[i].read)
  /\ UNCHANGED <<rest, points, scored, gone, loose, restarted, reused, missed, failed, stacked>>

CycleSave(i) ==
  /\ cycle[i].pc = "save"
  /\ games' = cycle[i].copy
  /\ raced' = (raced \/ games # cycle[i].read)
  /\ cycle' = [cycle EXCEPT ![i] = [Off EXCEPT !.pc = cycle[i].then, !.steps = cycle[i].steps]]
  /\ UNCHANGED <<sess, task, starts, purse, gone, loose, restarted, reused, missed, failed,
                 stacked>>

Scored(g) ==
  scored' = [u \in User |-> scored[u] + ScoreOf(Tick(g), u) - ScoreOf(g, u)]

CycleTick(i) ==
  /\ cycle[i].pc = "tick" /\ Has(i)
  /\ Tick(games[i]).left > 0
  /\ Hold(i, "save", [games EXCEPT ![i] = Tick(@)], "tick", 0)
  /\ Scored(games[i])
  /\ UNCHANGED <<rest, tickets, points, flags>>

CycleEnd(i) ==
  /\ cycle[i].pc = "tick" /\ ~Has(i) /\ Stop(i)
  /\ UNCHANGED <<rest, purse, flags>>

\* Mutant: the game is over, and its state is not.
FinishAndGoOn(i) ==
  LET g == Tick(games[i]) IN
  /\ cycle[i].pc = "tick" /\ Has(i) /\ g.left = 0
  /\ Scored(games[i])
  /\ points' = [u \in User |-> points[u] + ScoreOf(g, u)]
  /\ Hold(i, "save", [games EXCEPT ![i] = g], "last", 0)
  /\ UNCHANGED <<rest, tickets, flags>>

\* finish_game: the points of every player are written, and the scores are shown.
FinishGame(i) ==
  LET g == Tick(games[i]) IN
  /\ cycle[i].pc = "tick" /\ Has(i) /\ g.left = 0
  /\ Scored(games[i])
  /\ points' = [u \in User |-> points[u] + ScoreOf(g, u)]
  /\ Hold(i, "save", [games EXCEPT ![i] = [g EXCEPT !.state = "Ended"]], "last", 0)
  /\ UNCHANGED <<rest, tickets, flags>>

\* An update fails: the ones before it are done, and the game is not told to end.
FinishFails(i, done) ==
  LET g == Tick(games[i]) IN
  /\ cycle[i].pc = "tick" /\ Has(i) /\ g.left = 0 /\ Members(g) # {} /\ done # Members(g)
  /\ done \subseteq Members(g)
  /\ Scored(games[i])
  /\ points' = [u \in User |-> points[u] + (IF u \in done THEN ScoreOf(g, u) ELSE 0)]
  /\ Hold(i, "save", [games EXCEPT ![i] = g], "last", 0)
  /\ failed' = TRUE
  /\ UNCHANGED <<rest, tickets, raced, gone, loose, restarted, reused, missed, stacked>>

\* The packets are sent, and the id is free for another cycle.
CycleLast(i) ==
  /\ cycle[i].pc = "last" /\ Stop(i)
  /\ UNCHANGED <<rest, purse, flags>>

-----------------------------------------------------------------------------

InLobby(u) ==
  \/ EnterLobby(u) \/ LeaveLobby(u) \/ Disconnect(u)
  \/ \E i \in Id : Checkout(u, i)
  \/ \E n \in TeamAmounts : ProcessCreate(u, n)
  \/ \E t \in Team : SwitchTeam(u, t)
  \/ Leave(u) \/ Forget(u)
  \/ \E uid \in {RoomUid[v] : v \in User} \cup 0 .. Cardinality(User) : Kick(u, uid)
  \/ Start(u) \/ SpawnCycle(u)
  \/ EnterArena(u) \/ Save(u)
  \/ \E goal \in Goal : IngameMove(u, goal)
CycleStep(i) ==
  \/ CycleBegin(i) \/ CycleCount(i) \/ CycleCounted(i) \/ CycleCharge(i) \/ CycleSave(i)
  \/ CycleTick(i) \/ CycleEnd(i) \/ FinishGame(i) \/ CycleLast(i)
  \/ \E done \in SUBSET User : FinishFails(i, done)

Next == (\E u \in User : InLobby(u)) \/ (\E i \in Id : CycleStep(i))

\* The cycle is a task of its own, and every session goes on with its packet.
Fairness ==
  /\ \A i \in Id : WF_vars(CycleStep(i))
  /\ \A u \in User : WF_vars(Save(u)) /\ WF_vars(SpawnCycle(u))
Spec == Init /\ [][Next]_vars /\ Fairness

-----------------------------------------------------------------------------
(* Properties                                                              *)

\* Who is in a team, and will pay for the game, plays in it: nobody is in two teams,
\* in two games, or twice in one, and the user's session is in the same game and
\* team; and the game of a session that plays has a player for it.  (Unless a copy
\* was saved over a change or a session ended in a game; and but for a session whose
\* user was kicked, or whose game was taken away and its id given to another.)
Membership ==
  raced \/ gone \/
  \A i \in DOMAIN games, u \in User :
    LET g == games[i]
        mine(t) == sess[u].game = i /\ sess[u].team = t
    IN /\ InTeam(g, u) => EndsOf(g, u) = 1 /\ \E t \in TeamsOf(g) : Plays(g.teams[t], u) /\ mine(t)
       /\ sess[u].game = i /\ sess[u].team # NoTeam => InTeam(g, u) \/ u \in loose

Standing(g) ==
  {k \in Team \X (1 .. 6) : k[1] \in TeamsOf(g) /\ k[2] \in DOMAIN g.teams[k[1]]}

\* No two players of a game that runs stand on one tile, and nobody can step on a tile
\* where one stands, whatever copies were lost.  (Unless there were more players in a
\* team than the search finds spawn tiles for.)
NoCollision ==
  stacked \/
  \A i \in DOMAIN games :
    games[i].state = "Started" =>
      LET at(k) == games[i].teams[k[1]][k[2]].at
      IN \A k, l \in Standing(games[i]) :
           at(k) \in games[i].blocked /\ (k # l => at(k) # at(l))

\* A game that runs has a cycle that ends it.  (Unless a copy was lost, it was started
\* again while the cycle ended, or the scores could not be written.)
GameHasCycle ==
  raced \/ missed \/ failed \/
  \A i \in DOMAIN games :
    games[i].state = "Started" =>
      \/ cycle[i].pc \notin {"off", "last"}
      \/ \E u \in User : task[u].pc = "spawn" /\ task[u].start = i

\* Nobody gets into debt by playing.  (Unless a game was started twice, an id was used
\* again under a running cycle, a copy was lost, or a session ended in a game.)
NoDebt ==
  restarted \/ reused \/ raced \/ gone \/ \A u \in User : tickets[u] >= 0

\* The points of a team are at least those its players have, whatever copies were lost;
\* and nobody is credited with more points than were made on tiles.  (Unless a game was
\* started twice: the players keep their points and the team does not.  The credit also
\* needs that no copy was lost and no id used again: a game that was over would be
\* played to its end once more.)
FairScores ==
  restarted \/
  /\ raced \/ reused \/ \A u \in User : points[u] <= scored[u]
  /\ \A i \in DOMAIN games : \A t \in TeamsOf(games[i]) :
       SumFunction([n \in DOMAIN games[i].teams[t] |-> games[i].teams[t][n].score])
         <= games[i].scores[t]

\* A game that was started ends, or is taken away.  (The exceptions of GameHasCycle.)
GameEnds ==
  \A i \in Id :
    (i \in DOMAIN games /\ games[i].state = "Started")
      ~> (raced \/ missed \/ failed \/ i \notin DOMAIN games \/ games[i].state # "Started")
=============================================================================
