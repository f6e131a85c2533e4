--------------------------- MODULE CaptureTheFlag ---------------------------
(***************************************************************************)
(* A match of capture the flag in the process of the host: the flags and   *)
(* scores of src/game_modes/capture_the_flag/src/lib.rs, driven by the end *)
(* of the frame (sync_players_to_teams of src/game_mode.c, and the         *)
(* countdown of run_in_game_state).                                        *)
(*                                                                         *)
(* The game mode sees the players through slots of its own memory (TEAMS). *)
(* They are brought up to date one after another, and after each of them   *)
(* set_player_stats looks at both flags: some slots are then of this frame *)
(* and some of the last.                                                   *)
(***************************************************************************)
EXTENDS Integers

CONSTANTS
    NumBots, NumClients,
    Places,             \* where a player or a flag may be
    Walk,               \* pairs of places that one frame on foot may lead between
    Corner,             \* the place of a player who has not yet been spawned
    Home,               \* of each flag: default_pos_x, default_pos_y
    Goal,               \* of each flag: the places where it gives a point
    WinScore,           \* winning_score
    CountdownFrames     \* frames from the end of the match to the main menu

Teams == {1, 2}         \* TEAMS[0] and TEAMS[1], and their flags
Nobody == 0

\* Players by their place in the table of the host: his own player, the bots,
\* and the clients as they come.
NumPlayers == 1 + NumBots + NumClients
Players == 1 .. NumPlayers
Own == 1 .. 1 + NumBots

ASSUME FlagsAssumption ==
    /\ NumBots \in Nat /\ NumClients \in Nat
    /\ Walk \subseteq Places \X Places
    /\ Corner \in Places /\ Home \in [Teams -> Places] /\ Goal \in [Teams -> SUBSET Places]
    /\ \A f \in Teams : Home[f] # Corner /\ Home[f] \notin Goal[f]
    /\ WinScore \in Nat \ {0} /\ CountdownFrames \in Nat \ {0}

\* Bots are added to the game mode first, then the player of the host.
Joined(p) == IF p = 1 THEN 1 + NumBots ELSE IF p \in Own THEN p - 1 ELSE p

\* add_player_to_team: the smaller team gets the player, the second one if they are equal.
TeamOf(p) == IF Joined(p) % 2 = 1 THEN 2 ELSE 1

\* Mutant of Before: by the order of joining, whatever the team.
BeforeByAge(p, q) == Joined(p) < Joined(q)

\* The order in which set_player_stats goes through the players of both teams.
Before(p, q) ==
    \/ TeamOf(p) < TeamOf(q)
    \/ TeamOf(p) = TeamOf(q) /\ Joined(p) < Joined(q)

VARIABLES
    turn,       \* the next player to bring up to date; then calculate_scores
    slots,      \* what the game mode knows of each player
    flag,       \* of each flag: its place and who holds it
    score,      \* of each team
    countdown,  \* countdown_frames_to_main_menu
    page        \* "match" or "menu"

vars == <<turn, slots, flag, score, countdown, page>>

\* A free player is alive and does not use his ability; only such a player can
\* touch or hold a flag.
Slot == [place : Places, free : BOOLEAN]

TypeOK ==
    /\ turn \in 1 .. NumPlayers + 1
    /\ slots \in [Players -> Slot]
    /\ flag \in [Teams -> [place : Places, by : Players \cup {Nobody}]]
    /\ score \in [Teams -> Nat]
    /\ countdown \in 0 .. CountdownFrames
    /\ page \in {"match", "menu"}

\* A slot that has not been brought up to date yet is in the corner, where no flag is.
Init ==
    /\ turn = 1
    /\ slots = [p \in Players |-> [place |-> Corner, free |-> FALSE]]
    /\ flag = [f \in Teams |-> [place |-> Home[f], by |-> Nobody]]
    /\ score = [t \in Teams |-> 0]
    /\ countdown = 0
    /\ page = "match"

(***************************************************************************)
(* sync_players_to_teams, one player at a time.                            *)
(***************************************************************************)

\* What a frame may do to a player before the game mode sees him. An own player
\* who was free and is free has walked: a warp, like a death, lasts for some
\* frames. Of the players of clients the host has copies, which miss whatever
\* lies between two datagrams.
Seen(p, s) == p \in Own /\ slots[p].free /\ s.free => <<slots[p].place, s.place>> \in Walk

\* Mutant of CanHold: the check of health and using_ability is left out.
AnybodyHolds(s) == TRUE

CanHold(s) == s.free

\* aabb_collision of the player with the flag.
Touching(f, now) == {p \in Players : CanHold(now[p]) /\ now[p].place = flag[f].place}

\* find of the first player who touches the flag.
IsFirst(p, candidates) ==
    IF candidates = {} THEN p = Nobody
    ELSE p \in candidates /\ \A q \in candidates \ {p} : Before(p, q)

Back(f) == [place |-> Home[f], by |-> Nobody]

\* Mutant of FlagAfter: whoever comes first takes the flag, also his own.
FlagAfterAnybody(f, now, first) ==
    LET holder == IF flag[f].by # Nobody THEN flag[f].by ELSE first
    IN IF holder # Nobody /\ CanHold(now[holder])
       THEN [place |-> now[holder].place, by |-> holder]
       ELSE [flag[f] EXCEPT !.by = Nobody]

\* set_player_stats for one flag, first being the first player who touches it.
FlagAfter(f, now, first) ==
    LET holder == flag[f].by
    IN IF holder # Nobody
       THEN IF CanHold(now[holder]) THEN [place |-> now[holder].place, by |-> holder]
            ELSE [flag[f] EXCEPT !.by = Nobody]
       ELSE IF first = Nobody THEN flag[f]
            ELSE IF TeamOf(first) # f THEN [place |-> now[first].place, by |-> first]
            ELSE Back(f)

SyncPlayer ==
    /\ page = "match" /\ turn \in Players
    /\ \E s \in Slot :
         LET now == [slots EXCEPT ![turn] = s]
         IN /\ Seen(turn, s)
            /\ slots' = now
            /\ \E first \in [Teams -> Touching(1, now) \cup Touching(2, now) \cup {Nobody}] :
                 /\ \A f \in Teams : IsFirst(first[f], Touching(f, now))
                 /\ flag' = [f \in Teams |-> FlagAfter(f, now, first[f])]
    /\ turn' = turn + 1
    /\ UNCHANGED <<score, countdown, page>>

(***************************************************************************)
(* calculate_scores, and the end of the frame.                             *)
(***************************************************************************)
AtGoal(f) == flag[f].by # Nobody /\ slots[flag[f].by].place \in Goal[f]

\* flag.team is the team the flag belongs to, not the team that carried it.
ScoreAfter(t) == IF AtGoal(t) THEN score[t] + 1 ELSE score[t]

\* Mutant of Won: it must be exactly the winning score.
WonExactly(points) == \E t \in Teams : points[t] = WinScore

Won(points) == \E t \in Teams : points[t] >= WinScore

\* Mutant of CountdownAfter: it runs also before the end of the match.
CountdownRuns(won) == IF countdown = 0 /\ won THEN CountdownFrames ELSE countdown - 1

\* The match goes on while the countdown runs.
CountdownAfter(won) ==
    IF countdown # 0 THEN countdown - 1
    ELSE IF won THEN CountdownFrames ELSE 0

CalculateScores ==
    /\ page = "match" /\ turn = NumPlayers + 1
    /\ score' = [t \in Teams |-> ScoreAfter(t)]
    /\ flag' = [f \in Teams |-> IF AtGoal(f) THEN Back(f) ELSE flag[f]]
    /\ countdown' = CountdownAfter(Won(score'))
    /\ page' = IF Won(score') /\ countdown' = 0 THEN "menu" ELSE page
    /\ turn' = 1
    /\ UNCHANGED slots

MatchOver == page = "menu" /\ UNCHANGED vars

Next == SyncPlayer \/ CalculateScores \/ MatchOver

Spec == Init /\ [][Next]_vars

\* The main loop calls the page in every frame, and nothing in it waits.
FairSpec == Spec /\ WF_vars(SyncPlayer) /\ WF_vars(CalculateScores)

(***************************************************************************)
(* Properties.                                                             *)
(***************************************************************************)

\* Who holds a flag is an enemy, alive and not using his ability, as far as the
\* game mode knows, and the flag is where he is. calculate_scores relies on it: it
\* looks at the place of the holder only, and a point by a dead player, or by one
\* who warped to the goal, would go unnoticed.
FlagIsWithHolder ==
    \A f \in Teams : LET p == flag[f].by
                     IN p # Nobody => /\ slots[p].free
                                      /\ slots[p].place = flag[f].place
                                      /\ TeamOf(p) # f

\* A flag that a player of the host or a bot holds goes where one can walk, stays
\* where he lets go of it, or goes home: it never travels by a warp or by the
\* holder's death and return.
NoTeleport ==
    [][\A f \in Teams : flag[f].by \in Own =>
          \/ flag'[f].by = flag[f].by /\ <<flag[f].place, flag'[f].place>> \in Walk
          \/ flag'[f].by = Nobody /\ flag'[f].place \in {flag[f].place, Home[f]}
          \/ UNCHANGED flag[f]]_vars

\* As long as a free player of the first team touches the flag of his team, nobody
\* takes it, though an enemy may touch it as well. (The second team has no such
\* luck: the players of the first one are asked first for both flags.)
FirstTeamDefends ==
    [][flag[1].by = Nobody /\ flag'[1].by # Nobody =>
          \A p \in Players : TeamOf(p) = 1 /\ slots'[p].free =>
                               slots'[p].place # flag[1].place]_vars

\* A match that is won comes to its end, although the players go on and the flags
\* with them.
MatchEnds == (\E t \in Teams : score[t] >= WinScore) ~> page = "menu"

\* "If a player is colliding with the flag, and the flag is of the opposite team,
\* have them start holding it" (lib.rs:189-190): the point for a flag brought to
\* its goal belongs to the team of its holder. calculate_scores gives it to the
\* other one.
PointsGoToCarriers ==
    [][\A t \in Teams : score'[t] > score[t] =>
          \E f \in Teams : flag[f].by # Nobody /\ TeamOf(flag[f].by) = t]_vars
=============================================================================
