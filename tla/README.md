# shooter2_c: a verification project

shooter2_c is a two-dimensional shooter in C for one host and any number of
clients. All processes run the same frame loop, each over its own table of
players, and exchange UDP datagrams once per frame. Game modes and bots are
WebAssembly modules that the game interprets.

This directory holds TLA+ modules translated from the code, TLC configurations
that check them on small instances, and TLAPS proofs that hold for every value of
the constants. Paths in this file and in the comments of the modules are paths of
the repository (`src/net.c`).

- [The system](#the-system)
- [Modules and the code](#modules-and-the-code)
- [What is checked](#what-is-checked)
- [Bounds and fairness](#bounds-and-fairness)
- [What is proved](#what-is-proved)
- [Disagreements found](#disagreements-found)
- [What is not modelled](#what-is-not-modelled)
- [Plan](#plan)

## The system

### The frame

`run_in_game_state` (`src/in_game_state.c`) is the only scheduler. In each frame a
process does, in this order and on one thread,

1. `update_player_cooldowns`: count down cooldowns, finish reloads, swaps and
   abilities of all players;
2. `player_input`: the keys of the own player; `run_bots`: the bots, on the host;
3. `handle_networking`: send, receive, overwrite the copies of other processes'
   players, count the kills seen in them;
4. `use_weapons`, `update_projectiles`: shots, hits, damage and kills of the
   players this process owns;
5. `respawn_players`, `sync_players_to_teams`, `calculate_scores`: revive the own
   dead, hand the players to the game mode, end the match when it is won.

A process is more than its matches: the main menu, the settings and the match hand
options to each other, the configuration file hands them to the next process, and the
memory of a game mode lasts from its first match to its last.

Two processes meet only in step 3. There is no lock and no acknowledgement, and a
datagram that is lost is not sent again.

### Components

| component | state | operations | what makes it correct |
|---|---|---|---|
| networking (`net.c`) | addresses, buffer, previous message | `init_networking`, `handle_networking`, `process_net_packets` | copies follow their players, kills are counted at most once and only if they happened, no process exits |
| damage and kills (`projectile.c`) | projectiles, `health`, `last_hurt_by`, kill lists | `shoot`, `use_weapons`, `update_projectiles`, `damage_player`, `add_kill` | only the owner decides that a player dies; the killer is the one who hurt last; no friendly kill; shots a cooldown apart |
| player (`player.c`) | the player table | `new_player`, `reload`, `use_ability`, `update_player_cooldowns`, `respawn_players`, `move_player` | magazine never overfull, what is started ends, effects are taken back once, the dead come back |
| weapon tables (`weapon.c`) | none | magazine, reload, cooldown, speed, damage per weapon | |
| keyboard input (`input.c`) | key bindings | `keyboard_input`, `player_input` | held keys have the effect they name |
| game mode interface (`game_mode.c`) | teams, memory of the WebAssembly module | `add_player_to_team`, `find_team_of_id`, `spawn_player`, `calculate_scores`, `sync_players_to_teams`, `sync_server_teams` | all processes agree about teams and, in time, about the winner |
| deathmatch, gun game, capture the flag (`game_modes/`) | teams, scores, flags | `add_player_to_team`, `calculate_scores`, `set_player_stats`, `spawn_player` | every player has a team; the score is the one of the rules |
| bots (`bots.c`, `bots/simple.c`) | the action of the bot | `run_bots`, `bot_actions` | a bot acts on the state it sees now |
| match page (`in_game_state.c`) | all of the above, the countdown | `enter_in_game`, `run_in_game_state`, `exit_in_game` | nothing of a match survives it |
| pages (`game_state.c`, `main.c`), main menu (`main_menu_state.c`) | the page, the options | enter, run and exit of each page | options are kept between pages |
| configuration file (`config.c`) | a text file | `get_config_option`, `set_config_option` | an option that was saved stays saved, or all are lost |
| collections (`hashset.c`, `hashmap.c`) | a list of items | insert, contains | an address is in the set once |
| map, camera, rendering, arithmetic, random numbers, vendored code | | | see below |

They interact by shared state: all components of a process read and write the one
player table, in the order of the frame; processes interact by datagrams. A client
sends its own record (`NetPlayer`); the host sends a byte with the number of teams,
the teams, and the records of all assigned slots.

### Ownership

Each process is authoritative for the players it *owns*: a client for its own
player, the host for its own player and the bots (the players whose
`is_net_player` is not set). Only the owner damages, kills and revives a player.
All others copy what they are sent. The lists of kills are in no datagram: every
process counts for itself, when it sees a copy go from alive to dead, and finds the
killer by the `last_hurt_by` that came with it. (A record does carry `num_kills`,
`player.c:146`, which no receiver reads. A snapshot carries the ids and scores of the
teams, `net.c:260-270`; clients copy both, lines 412-420, and in a free-for-all
`calculate_scores` overwrites the scores in the same frame.) This is where the program can go
wrong in ways that a test would hardly reach, and where the project begins.

The hard behaviours, each at its line, are the list `hazards` of `PROJECT.json`:
lost, delayed and piled-up datagrams; records processed one by one while later ones
are still in the buffer; tables that are full; views of teams that are stale;
counters that run at the same time and meet in any order; death in the middle of
anything.

## Modules and the code

| module | models |
|---|---|
| `Replication` | all processes of a match: slots, teams, health, kills, datagrams, respawn, the end of the match |
| `Scoreboard` | the abstract promise of the kill counts; `Replication` implements it |
| `Weapons` | the weapons of one player in his own process, frame by frame |
| `Ability` | the ability of one player in his own process, frame by frame |
| `Projectiles` | bullets, sniper bullets and grenades of one process, player by player as `update_projectiles` asks them |
| `CaptureTheFlag` | flags, points and the end of a match of capture the flag, in the process of the host |
| `Session` | one process after another: pages, options, saving, the choice of the mode, scores that outlive a match |
| `OptionStore` | the abstract promise of the configuration file; `Session` implements it |
| `MCReplication`, `MCWeapons`, `MCAbility`, `MCProjectiles`, `MCCaptureTheFlag`, `MCSession` | the instances for TLC |
| `ReplicationProofs`, `ReplicationOrderProofs`, `ScoreboardProofs`, `WeaponsProofs`, `AbilityProofs`, `ProjectilesProofs`, `CaptureTheFlagProofs`, `SessionProofs` | theorems and proofs |

`map` in `PROJECT.json` gives the lines of the source for each definition.

### Replication

| variable | code |
|---|---|
| `pc[p]` | where process `p` is in its frame; `menu` after `exit_in_game`, `exit_killer` and `exit_team` after the two `exit(-1)` |
| `roster[p]` | the slots with `assigned_id`, in order; slots are never given back |
| `health`, `lastHurt`, `team`, `kills` | the fields of the same name of `p`'s table; `team` is 0 while `assigned_team_id` is false |
| `deadFrames[i]` | `num_frames_dead` |
| `addrs` | `addrs_to_send_to` |
| `toHost`, `toClient[c]` | what the operating system holds for the two sockets |
| `missed` | history: the clients all of whose datagrams of a frame the host overwrote before they had a slot |
| `inbox[p]`, `next[p]` | the records found in `net_buffer`, and the index of the loop over them |
| `deaths` | history: numbers the deaths of a player, to tell them apart |

One action is one step that another process could come between, or one record of
a snapshot, because whether `add_kill` finds the killer depends on which record
gave out a slot before:

- `HandleNetworkingHost`, `HandleNetworkingClient`: the first half of
  `handle_networking`, up to the reading of the socket. Any datagram may be lost. A
  client does not send a record equal to the last one; the others cannot tell that
  from a loss. A client reads one datagram and throws the following one away (`recv`
  with a buffer of no bytes); the host reads all of them, each after the first to the
  same place (`NetPlayersOf`).
- `ProcessDropped`, `ProcessOwn`, `ProcessCopy`, `ProcessExits`: the cases of
  `process_net_packets` for one record, `add_kill` included.
- `SyncTeams`: the rest of `handle_networking` at a client.
- `DamagePlayer`: a hit found by `update_projectiles`, with `damage_player` and, if
  it kills, `add_kill`. Positions are left out: any known player of another team may
  have hit. A client without a team fires shots that carry no team; once it has one,
  such a shot may hit the client itself, which the model allows at any later time.
- `FinishFrame`: `respawn_players`, and `calculate_scores` with the way to the main
  menu. The countdown of 300 frames is any number of frames in which the match is
  won.

Abstractions: positions, weapons, the layout of the datagrams, and the counts and the team
ids and scores in them; what the host reads from bytes that nobody sent has one id,
`Phantom`, which is no player's, as the records of the snapshot that was in the buffer before
begin at an odd place and the places of the buffer are multiples of eight; ids are taken to be
distinct (`rand()` gives no such promise, see the hazards); UDP is taken to lose and
delay but not to reorder; a capture of the flag may win at any time.

### Scoreboard

Three variables: the kills that `happened` at the owners of the victims, for each
process those it has `seen`, and its `score`. A process may learn of a kill late or
never; it never counts what did not happen and nothing twice. The refinement
mapping (`Board` in `Replication`) takes `happened` from the kill lists of the
owners, `seen` from each kill list as a set, and `score` from its length, so that a
kill counted twice, or for the wrong player, is no step of `Scoreboard`.

### Weapons

The variables are the fields of `Player`. The frame is cut into `UpdateCooldowns`,
`Input` (`keyboard_input`, with every combination of the fire, throw, reload and swap
keys), `UseWeapons` (the four ways `shoot` can go: `Shoot`, `ShootEmpty`, `Throw`,
`NotUsed`) and `EndFrame` (`respawn_players`, and `set_player_stats` if the mode is gun
game). `AddKill` and `Die` are the two things that come from elsewhere. `rank` and
`lastShot` are history. A client takes part in `sync_players_to_teams`
only once the server gave it a team: until then `rank` is `NotSynced`. Whether the mode is
gun game is a variable that nothing changes, so that one run has both.

### Ability

`UpdateCooldowns` charges, counts and ends; `UseAbility` is `use_ability`; the player
may die or come back at the end of any frame. `speed` counts by how many boosts the
default speed has been multiplied. The frame numbers are the original ones.

### Projectiles

| variable | code |
|---|---|
| `flying`, `kept`, `current` | `projectiles` still to come in this frame, `buff_projectile_list`, the projectile of the loop |
| `slot`, `wall`, `collision` | the loop over the players, `collided_with_map`, `player_collision` |
| `health`, `lastHurt`, `kills`, `team`, `assigned` | fields of `players`, by slot |
| `hosting` | whose players are net players: all but the own one, and at the host the bots |

`update_projectiles` is two nested loops, and a step is one player asked by one projectile:
`NextProjectile` begins a projectile, `BulletHits` and `GrenadeHits` are `damage_player` with
`add_kill`, `Passes` is a player who is not asked or not touched, `EndProjectile` decides
whether it is copied. Between the frames `Receive` is a datagram about a copy, `ReceiveOwn`
the team a client is given, and `Shoot` adds bullets, or all pellets of a shotgun, with the
team the shooter has at that moment. Positions are left out: a projectile may be in a wall
or touch a player in any frame; a grenade may take any of its damages. The history
`hurt` of a projectile is what `HurtOnce` needs. A touch stops a bullet also if the player is
a copy, who is not hurt by it.

### Session

| variable | code |
|---|---|
| `page` | `game_page`, and `off` without a process |
| `saving`, `step` | which `set_config_option` of `enter_main_menu` runs, and whether the file has been emptied |
| `file`, `content` | the configuration file and the object read from it; an option that is absent reads as `Missing`, the `NULL` of `get_config_option` |
| `options`, `mode` | the fields of `MainMenuState`; `mode` is what `current_game_mode_index` leads to |
| `score`, `countdown` | the best team score in the memory of each mode, and whether `countdown_frames_to_main_menu` runs |

`Start` is `enter_main_menu` in a new process, `LastFrame` is `exit_in_game` with
`enter_main_menu` after a match, `Back` the same from the settings; all three are followed by
six times `OpenFile` and `WriteFile`. `ChangeOption` and `ChangeMode` are the widgets of the
settings, `EnterMatch` is `enter_in_game` with `init_game_mode`, `Frame` a frame of a match:
capture the flag adds to the score it finds, deathmatch and gun game go by the kills of the
match (`ScoreAfterFrame`).
`Stop` may come anywhere. `shown`, `torn`, `renamed` and `gained` are histories. The refinement
mapping of `OptionStore` reads the file as its content while it is being written, and as empty
if the process has been stopped then.

### CaptureTheFlag

| variable | code |
|---|---|
| `slots[p]` | the `MinimalPlayerInfo` of player `p` in `TEAMS`, the memory of the game mode: his place, and whether he is `free` (`health > 0` and not `using_ability`) |
| `turn` | the loop variable of `sync_players_to_teams`; after the last player `calculate_scores` |
| `flag[f]` | `pos_x`, `pos_y` and `held_by` of `FLAGS[f]` |
| `score`, `countdown` | `team.score`, `countdown_frames_to_main_menu` |

`SyncPlayer` overwrites one slot and then calls `set_player_stats`, which looks at both
flags (`FlagAfter`): some slots are of this frame, some still of the last. The players'
own table is not a variable: nothing but his own turn reads what the frame did to a
player. `Seen` says what that may be. A player of the host who is free in two frames in
a row has walked (`Walk`): a warp sets `using_ability` for 15 frames and a death lasts
180 (`UseAbility` of `Ability`, `DeadAt` of `Replication`), so the game mode sees both.
Of a client's player the host has a copy, which may do anything from one frame to the
next. Places are a set with a relation; to touch a flag is to be at its place.
`CalculateScores` is `calculate_scores` with the countdown of `run_in_game_state`.
`TeamOf` is what `add_player_to_team` yields for bots, host and clients in the order in
which they join. A client that has not joined yet takes its turn in the model with a slot
that is not free; in the code it is passed over.

## What is checked

| run | instance | properties |
|---|---|---|
| `ReplicationPair` | host, one client, sockets of 2 and 3, 2 deaths, 2 kills to win, all interleavings | `TypeOK`, `NoDoubleKill`, `VictoryIsReal`, `CopiesNeverGoBack`, `ImplementsScoreboard` |
| `ReplicationTrio` | capture the flag, host, two clients, a host socket of 3, so that a record nobody sent is read and gets a slot, 1 death | `HostExitsByGarbage`, `NoTeamExit`, `CopiesNotAhead`, `NoFriendlyKills`, `DeadAreCredited` |
| `ReplicationTeams` | capture the flag, host, bot, client, 2 deaths, fairness | `TeamAgreement`, `KillsAreDeaths`, `DeadComeBack`, `ClientsJoin` |
| `ReplicationFull` | three players, three slots, a host socket of 3, so that a record nobody sent may take the last slot | `NoSpectators` |
| `ReplicationKillerUnknown` | host, two clients | `KillerAlwaysFound` is violated |
| `Weapons` | four weapons, four kills, any keys, with and without gun game, fairness | `TypeOK`, `AmmoWithinMagazine`, `ShotSpacing`, `GunGameShots`, `HoldingFireShoots`, `HoldingThrowThrows`, `ReloadEnds` |
| `Ability` | the three abilities, the original numbers, fairness | `TypeOK`, `EffectMatchesUse`, `UseSpacing`, `UseEnds` |
| `Projectiles` | own player, bot, copy, two projectiles, two teams, at a host and at a client | `TypeOK`, `HurtOnce`, `KillPerDeath`, `KillerIsKept` |
| `Flags` | host, bot, client, a row of four places, fairness | `TypeOK`, `FlagIsWithHolder`, `NoTeleport`, `FirstTeamDefends`, `MatchEnds` |
| `FlagsPoint` | host and bot on the same row | `PointsGoToCarriers` is violated |
| `Session` | the three modes, two choices for each option, stops anywhere | `TypeOK`, `PlayedModeIsNamed`, `ImplementsStore`, `StartShows`, `InterruptedSave` |
| `SessionSecondMatch` | deathmatch and capture the flag | `TeamHasWon` is violated |

What they show, in words:

- **No invented kill.** What any process credits to a player was credited to the
  same player by the owner of the victim (`KillsAreDeaths`), also when killer and victim
  are both the players of others. `DeadAreCredited` is the reason: wherever a
  dead player is seen, he names the killer his owner credited.
- **No kill counted twice.** `NoDoubleKill`. It rests on `CopiesNeverGoBack`: no
  datagram sets a copy back to an earlier point of the player's life, and no copy is ahead
  of its player (`CopiesNotAhead`). They hold because the sockets keep their order; a
  network that reorders would break them.
- **Scores may be too low, never too high.** `ImplementsScoreboard`; and therefore
  `VictoryIsReal`: nobody leaves a match that nobody has won.
- **Exits.** The host's lookup of a killer never fails for a player: only bytes that nobody
  sent can end it, from the third datagram of a frame on, and then they do
  (`HostExitsByGarbage`). A client's synchronisation of teams does not fail as long as there are slots
  and, in a free-for-all, teams for everybody (`NoTeamExit`). Both would if a process sent
  a player before it gave him slot and team. The client's lookup of a killer can fail.
- **Teams.** A client's view of a team is missing or right (`TeamAgreement`), so nobody
  dies by his own team (`NoFriendlyKills`), though shooter and victim are judged by
  different processes. The second excepts the clients whose first datagrams the host has
  overwritten (`missed`), see "Disagreements found": with them it fails.
- **Full table.** A client for which the host has no slot is not answered "no", it goes on
  getting snapshots. `NoSpectators`: it leaves with the first of them, as the snapshot fills
  its own table before it has placed everybody, and does not play on unseen. Here, too, a client
  whose first datagrams were overwritten is excepted: it plays on before it has a slot.
- **Projectiles.** A bullet or grenade hurts a player at most once in its whole flight
  (`HurtOnce`), though the flag that ends its flight is set in a loop that is left early. A
  death is one kill, however many projectiles reach the dying player in the same frame
  (`KillPerDeath`), and what reaches him afterwards does not change whom he names as his
  killer, in all frames until he is back (`KillerIsKept`): from that name all other processes
  count. A sniper bullet may hit the same player in several frames, see below.
- **Options.** A stop between emptying and writing the file loses all options, never some
  (`ImplementsStore`). The options are saved one by one, so a stop between two saves leaves a
  mixture: the new options that were saved, and the rest as the last main menu showed them, unless
  an earlier save was cut short, too; no other mixture (`InterruptedSave`). A start shows what the
  last main menu showed, if the process was not stopped while it saved (`StartShows`). The mode whose
  file name the page holds and saves is the mode that is played (`PlayedModeIsNamed`), until a match
  has been played: then the file name falls back to deathmatch, is saved so, and the index stays.
  (The name that the settings draw is the one the mode of the index gives itself.)
- **Later matches.** A match of capture the flag after another one is won in its first frame
  (`SessionSecondMatch`). Deathmatch and gun game go by the kills of the match itself.
- **Flags.** Whoever holds a flag is a free enemy and the flag is with him
  (`FlagIsWithHolder`), after each call of the game mode; therefore no dead player and no
  one who warps scores, though `calculate_scores` does not ask. No flag held by a player of
  the host moves by a warp or a death (`NoTeleport`). While a free player of the first team
  touches its flag nobody takes it (`FirstTeamDefends`); the second team has no such
  right, as `find` asks the first team's players first for both flags. A match that is won
  ends, whatever happens during the countdown (`MatchEnds`).
- **Liveness.** The dead come back, bots included; a client that keeps sending joins; a
  reload ends even if the reload key is held; a held trigger goes on shooting through
  empty magazines, swaps and cooldowns; an ability ends even if its user dies.

Every property has a mutant in `PROJECT.json`: a small change of the model, of the kind
a slip in the code would be, with which TLC finds the property violated. Mutants are
the definitions commented `Mutant of ...` next to what they change.

## Bounds and fairness

Bounds, all of them constants:

- `HostBacklog`, `ClientBacklog`: datagrams in a socket. The code's rules tell apart no,
  one, two, and more than two datagrams at the host, and one, two, and more than two
  at a client. `ReplicationTrio` and `ReplicationFull` have 3 at the host, in the other runs a
  smaller socket excludes the phantom record, so that they are about ordinary matches. The client of
  `ReplicationPair` has 3: it reads one, discards one and stays behind with the third.
- `MaxDeaths`: deaths in the match. Two are enough for a player to die, come back and die
  again while datagrams of both deaths are under way, for two players to kill each
  other, and in `ReplicationTeams` for one to be killed by two others in turn.
  `ReplicationTrio` has one, `ReplicationFull` none: it is about who gets a slot.
- `RespawnFrames` is 3 or 2 for 180: the counter starts, counts and ends. With 3 a player
  stays dead long enough to be sent dead twice; the runs about counting use it.
- `MaxHealth` is 1 in all runs of `Replication`: a hit kills. Hits that do not kill, and the name
  of the last of them, are what `Projectiles` has; the proofs are for every `MaxHealth`.
- `WinScore`, `NumTeams`, `NumSlots`: `WinScore` is 2 where `VictoryIsReal` is checked, so that a
  kill counted twice would win. `ReplicationTrio` has four slots, one for each player and one for
  the phantom; `ReplicationFull` has three, so that somebody finds none.
- `MaxKills` in `Weapons`: four, as many as there are weapons, so that the pistol
  comes back after the last. `ThrowFrames` 1 and one grenade for 80 and 3. The other frame
  numbers of `MCWeapons` are those of `src/weapon.c` divided by about 30; their order is kept, and with them which counter ends first.

`ReplicationTrio` reads records nobody sent in a match with deaths, which is too much for TLC
without further bounds, all of them action constraints of `MCReplication`: nobody wins
(`MatchGoesOn`), what is sent is lost only where it finds no room in a socket (`NothingLost`), when
everybody has a slot no third datagram arrives (`OnceSeated`), and a phantom is hurt by nobody
(`GarbageIsUnhurt`). They leave out behaviours, and the proofs have none of them. With them TLC
still finds the host ended by a phantom, a friendly kill of a client in `missed`, and, in
`ReplicationFull`, such a client that plays on unseen: the exceptions that the properties
name are met.

`ReplicationTrio` and `ReplicationFull` use the action constraint `FramesInTurn`: the
steps of a frame after its first touch only variables of their own process, so they
commute with all steps of others, and every state in which nobody is in the middle
of a frame is reached also when frames run to their end one after another. The other
steps of a frame are still seen, one process at a time. `SYMMETRY` exchanges the two
clients; it is used only without liveness.

- `Projectiles`: two projectiles in flight are enough for two hits on one player in one
  frame, two pellets of one shotgun, and a hit on a player who has just died. Two hits of a
  bullet kill, one of a sniper bullet, a grenade does nothing or kills. The three slots are the
  own player, a bot (a copy, if the process is a client, is slot 3) and a copy. One kill for each
  player bounds the run, not what a kill may coincide with. `SYMMETRY` exchanges the teams; no
  property of the run is about liveness.
- `Session`: two choices for each option tell a kept value from a lost one. All three modes are
  there, as one of them keeps its scores and one is the default. `WinScore` is 2, a match that is
  won and not by its first point. Processes and matches are not bounded.

Deadlock is checked in all runs. The only ends are `MatchOver` of `Replication`, all
processes have left, and `MatchOver` of `CaptureTheFlag`, the host is in the main menu.

Fairness. `FrameFairness`: the loop in `src/main.c` calls the page in every frame and
nothing in a frame waits (the sockets do not block), so each part of the frame is
weakly fair. What a player does is never fair: no player has to shoot or die.
`NetworkFairness`: a datagram that is sent again and again arrives at some time, hence
strong fairness of each delivery. For a client this supposes that it goes on sending,
and it does so until it has been answered: `assigned_team_id` of the buffer is
zero until the first datagram from the server has overwritten it, and as long as it is
zero `handle_networking` sends in every frame. After that a client sends when its
record has changed. `Weapons`, `Ability` and `CaptureTheFlag` assume weak fairness of
the parts of a frame.

- `Row` in `MCCaptureTheFlag`: the corner where players wait for their first spawn, both flags,
  and a place between them to drop a flag; so a flag is away from home, on the way and at
  its goal, and there are places too far apart to walk between. `WinScore` 1 and `CountdownFrames`
  2 for 5 and 300: the match goes on after the winning point, with further points.

## What is proved

All proofs are for every value of the constants that satisfies the named assumptions
`IdsAssumption` and `BoundsAssumption`, `WeaponsAssumption`, `AbilitiesAssumption`,
`FlagsAssumption`, `ProjectilesAssumption`, `SessionAssumption`. TLC evaluates them in every run.
That the clients are finitely many is one of them: who sums the kills of a team needs it.

Two more hypotheses appear in one theorem. `NobodyExitsForTeams` supposes as many slots as ids, the
phantom's included, and, in a free-for-all, as many teams (the code has 255 of each, and two
teams in capture the flag): a client that sees a player without a team does exit. `ReplicationTrio`
is an instance of them. No theorem bounds what a socket holds: what goes wrong from three datagrams in a
frame on is part of the model, and the properties name whom it may concern.

| theorem | says |
|---|---|
| `TypeCorrect` (`ReplicationProofs`) | `Spec => []TypeOK` |
| `TeamsAgree` | `Spec => []TeamAgreement` |
| `KillsReal`, `DeathsCredited` | `Spec => []KillsAreDeaths`, `Spec => []DeadAreCredited` |
| `HostStays` | `Spec => []HostExitsByGarbage` |
| `NobodySpectates`, `TeamsDoNotKill` | `Spec => []NoSpectators`, `Spec => []NoFriendlyKills` |
| `NobodyExitsForTeams` | `Spec => []NoTeamExit`, if there are slots and, in a free-for-all, teams for all |
| `CopiesGoForward`, `CopiesBehind` (`ReplicationOrderProofs`) | `Spec => CopiesNeverGoBack`, `Spec => []CopiesNotAhead` |
| `KillsCountedOnce` | `Spec => []NoDoubleKill` |
| `VictoriesReal` | `Spec => []VictoryIsReal` |
| `CountsImplementScoreboard` | `Spec => ImplementsScoreboard`: `Replication` implements `Scoreboard` |
| `CountsAreScores` | what `ScoresReal` and `OneKiller` say of the scoreboard, of the match |
| `ScoresReal`, `OneKiller` (`ScoreboardProofs`) | in `Scoreboard` every score is the number of different real kills; a death has one killer |
| `WeaponsTypeCorrect`, `MagazinesNeverOverfull` (`WeaponsProofs`) | `Spec => []TypeOK`, `Spec => []AmmoWithinMagazine` |
| `ShotsAreSpaced`, `ShotsAreOfRank` | `Spec => ShotSpacing`, `Spec => GunGameShots` |
| `AbilityTypeCorrect`, `EffectsEnd`, `UsesAreSpaced` (`AbilityProofs`) | `Spec => []TypeOK`, `Spec => []EffectMatchesUse`, `Spec => UseSpacing` |
| `FlagsTypeCorrect`, `FlagsAreHeld` (`CaptureTheFlagProofs`) | `Spec => []TypeOK`, `Spec => []FlagIsWithHolder` |
| `FlagsWalk`, `FirstTeamsFlag` | `Spec => NoTeleport`, `Spec => FirstTeamDefends` |
| `ProjectilesTypeCorrect`, `HitsAreSingle` (`ProjectilesProofs`) | `Spec => []TypeOK`, `Spec => HurtOnce` |
| `KillsArePaid`, `KillersAreKept` | `Spec => KillPerDeath`, `Spec => KillerIsKept` |
| `SessionTypeCorrect`, `NameFollowsIndex` (`SessionProofs`) | `Spec => []TypeOK`, `Spec => []PlayedModeIsNamed` |
| `StopsMixTwo`, `StartsAsShown` | `Spec => InterruptedSave`, `Spec => StartShows` |
| `FileIsStore` | `Spec => ImplementsStore`: `Session` implements `OptionStore` |

**Type correctness of Replication** needs two facts beyond the shape of the data: the
number of a record that is processed lies within the buffer, and a socket of the host
holds records of clients only. The lemma `NetPlayersType` shows that reading any
number of datagrams yields records, `NewTeamType` that a team is one of the mode.

**Teams.** `TeamInv`: a team at a client, in a buffer or in a snapshot that is under way is
the one the server's table holds. The server gives a team once, when it hands out the slot,
and a datagram of a client never changes it; so what is under way stays right.

**Kills.** `KillsAreDeaths` alone is not inductive: in an arbitrary state a record in
a socket may show a death that no owner credited, and the step that processes it would
invent a kill. The invariant is

    KillInv == TypeOK /\ OwnSlots /\ KillsAreDeaths /\ DeadAreCredited

`DeadAreCredited` follows the death from `damage_player`, which credits it before
anything is sent, through sockets, buffers and tables, to `add_kill` elsewhere.
`OwnSlots` says that a process knows its own players from the beginning, so that no
datagram can take their slots. Since kill lists only grow at owners (`OneKillAdded`,
`CreditStays`), what was credited stays credited, and each step has to be examined
only where it writes. Phantom records are included: they are dead by nobody's hand.

**The host stays.** `RelayInv`: every id that a client knows, or names as its killer, is its own
or has a slot at the server, in its table as in its datagrams. A client learns ids from
snapshots only, and slots are never given back. So a record of a client names a killer the server
knows; what is left are the records nobody sent, whose killer is anybody. `HostExit` is that step.

**Order.** A player's life is a line: alive, dead of his first death, alive again, and so on.
`Age`, twice the number of deaths and one more while he lives, numbers its points.
`OrderParts` says that ages are in order along the way of a datagram: the copy, then the
records in the buffer that are still to be processed, then those in the socket as they
arrived, then the table they were taken from; and this way is walked twice, from a
client to the server and from the server to the other clients. A step that moves a record
one place along the way, or loses one, keeps the order. `CopiesGoForward` and `CopiesBehind`
read it off. For `KillsCountedOnce` the invariant `CountInv` adds `KillsAged`: a kill that a
process has counted is of a death its copy has reached. `process_net_packets` counts when a
copy goes from alive to dead, so its age rises to that of a death not counted before.

**Joining.** `NoSpectators`, `NoFriendlyKills` and `NoTeamExit` rest on one invariant,

    JoinInv == /\ RelayInv /\ SlotInv /\ FirmInv
               /\ AddressesJoin /\ SnapshotsAnswer /\ LoopDone /\ PlayersSeated

because all three are about what a client has learnt when its first snapshot is behind it.
`SlotInv`: nobody has two slots, in a table or in a snapshot, and no table has more than
`NumSlots`. `FirmInv`: slots and teams of the server are for good (`TeamsFirm` is the step), so what
a snapshot says of a player is true whenever it is read; a player of a free-for-all is without a team
only if all teams are taken, and no team has two members. `AddressesJoin`: whoever is sent to
has a slot, or there is none, or his record is still in the buffer that the server is processing. The
last case must not outlive the loop, and it does not for a record that is in the buffer. A record that was
overwritten is not, and then the client is in `missed`, if it had no slot. That is where the
exception comes from: `FirstOrLast` says that a client whose datagrams are not all overwritten has one
that is the first or the last. Therefore a snapshot answers all others
(`SnapshotsAnswer`): it shows the client it is sent to or is full. `LoopDone` follows the client through the records one by
one, and `PlayersSeated` is what is true after the last: a client that knows anybody else has a
slot and its team. The case to be argued is the full snapshot without the client
(`FullTableShowsAll`): the client spends one slot on itself, one player finds none, and
it exits in `SyncTeams`.

From there each of the three takes a step of its own. `NoSpectators` is `PlayersSeated` itself.
For `NoFriendlyKills`, `KillersFirm` says that killer and victim have slots and different teams at the
server, if the victim is not in `missed`; `FriendlyFireOff` shows it of a hit, where the victim's owner compares teams that
`FirmInv` makes the server's, and for a kill that is only copied it is true since the owner
counted it. For `NoTeamExit`, `EverybodyHasSlot` and `EverybodyHasTeam` count: nobody has two slots
or shares a team, so one more player finds a free one.

**Victories.** The score that ends a match is a sum over the members of a team. `SumExists` and
`SumBounds` say of the fold over sets, by way of the smallest set for which it would be false,
that it is defined and at least each of its terms; `SingleScore` that the score of a
team of one is the number of that player's kills. As lists hold no kill twice (`CountInv`) and
only real ones (`KillInv`), a list is no longer than the set of real kills of its player
(`CountsAreReal`), and real kills are never forgotten (`RealKillsGrow`), so that it stays true for
a process that has left.

**Scoreboard.** The abstract `Inv` adds to the two properties that the sets of seen kills are finite:
a score is the cardinality of a set. The refinement goes step by step. `KillStep`: a step leaves all
lists alone, or it is one kill at one process (`Counts`), by `DamagePlayer` or by `ProcessCopy`.
`CountedDeath` sorts the second kind: its death is later than any this process shows, and
either the process owns the victim, and this is `Die`, or the owner has counted the same kill
before, and this is `Learn`. Both need the order of deaths: `Die` because a death must be later
than all that happened to the victim, `Learn` because the kill must not have been counted.
`BoardCounts` computes what appending one kill does to the three abstract variables. With the
refinement the theorems about `Scoreboard` become theorems about `num_kills`
(`CountsAreScores`).

**Weapons.** `Inv == TypeOK /\ AmmoWithinMagazine /\ CooldownCounts`. `CooldownCounts` ties the
code's countdown to the history: what is left of the cooldown plus the age of the last
shot is at least the cooldown of the weapon of that shot. Swaps, reloads and gun game
change the weapon and leave both alone, which is why a swap cannot shorten the wait.

**Ability.** `Inv == TypeOK /\ EffectMatchesUse /\ SpacingCounts`. `SpacingCounts` does the same
for charge, time in use and time since the last use.

**Capture the flag.** `FlagIsWithHolder` is inductive with `TypeOK`: `set_player_stats` runs after
every single slot that changes and looks at the holder again, so no slot can change behind
a flag's back. The lemma `FlagMoves` lists what one call can do to a flag, `SyncPlayerStep`
one step of the loop. `NoTeleport` follows step by step from the invariant (a held flag is
where its holder was) and from `Seen`; `FirstTeamDefends` from the order of `find` alone.

**Projectiles.** `HurtInv` says whom a projectile in the loop can have hurt so far: a bullet that
has hurt has stopped and the loop over the players is over; a grenade that explodes has hurt
only players before the next one, and one that does not explode nobody; and what is still to
come or has been copied has hurt nobody. Copying drops the rest, which gives `HurtOnce`.
`KillPerDeath` and `KillerIsKept` follow step by step: `damage_player` asks whether the player
lives before it writes anything.

**Session.** `FileFollows`: while it saves, the process has in the file,
or in the buffer if the file is empty, the options saved so far and, unless a save was torn before,
the rest as the last main menu showed them; when it does not save, the file
is what that menu showed. `StartsAsShown` and `StopsMixTwo` read it off. `ScoresCount`, that the points of a
match are among the score, is what type correctness needs. The lemma `KeptStep` lists the
steps that change what is kept, which is all that `OptionStore` sees.

Every safety property that a passing run checks, as an invariant, of single steps, or as a
refinement, is also proved. Only model-checked are the liveness properties, as
fairness is beyond the provers: `DeadComeBack`, `ClientsJoin`, `HoldingFireShoots`,
`HoldingThrowThrows`, `ReloadEnds`, `UseEnds`, `MatchEnds`.

## Disagreements found

- `ReplicationKillerUnknown`: a client exits with "Couldn't find killer player"
  (`src/projectile.c:33`) in an ordinary match. It joins, and a snapshot in which a player
  it saw alive is dead holds that player's record before the one of the killer, who
  has no slot yet.
- `FlagsPoint`: "If a player is colliding with the flag, and the flag is of the opposite team,
  have them start holding it" (`src/game_modes/capture_the_flag/src/lib.rs:189-190`), and when he has
  brought it to his side, the team whose flag he took gets the point (line 138).
- `SessionSecondMatch`: "Check if a team has won" (`lib.rs:150`). The scores of capture the flag
  are in memory that outlives the match, and `init_game_mode` (line 60) does not clear them: every
  later match of the process is won in its first frame, by the team that won before, and left when
  the countdown of 300 frames has run. The other two modes write their teams anew.

Noted without a run.

About the network:

- "Servers, on the other hand, just have a long list of NetPlayers" (`src/net.c:392`). From the
  third datagram of a frame on the host counts records that it has overwritten, and processes
  what its buffer held before (`NetPlayersOf`). Three clients, or one slow frame, are enough. What it
  reads is a player that nobody plays; he takes a slot and a team for good, and if he is read
  dead by the hand of somebody unknown, the host exits with "Couldn't find killer player". What was
  overwritten is lost: a client whose datagrams are lost that way before it has a slot has its address
  kept, gets snapshots without itself, plays on without a team and unseen, and may
  be shot by a player who turns out to be of the team it is given later. TLC finds all three if the
  exceptions are taken out of `HostExitsByGarbage`, `NoSpectators` and `NoFriendlyKills`.
  `DeadAreCredited`, and the counts of everybody else, hold nevertheless.
- "Discard the rest of any messages received" (`src/net.c:358`) discards one message; a client
  that has fallen behind stays behind.

About weapons and projectiles:

- A reload goes on through a swap with the time of the weapon it began with, so the "5 seconds"
  of the sniper rifle (`src/weapon.c:83`) can be had for the pistol's time.
- The comment of `src/game_modes/gun_game.c:92` says that the magazine is filled on a
  change of weapon; the pistol after the last kill keeps the rounds of the weapon before
  (lines 98-102).
- "No break statement so snipers can pierce players" (`src/projectile.c:154`), but `player_collision`
  is overwritten for each player who is asked (line 150) and read after the loop (line 164): the
  bullet stops if the last player asked is hit, and pierces all others.
- "an object will collide with another object on it's movement path" (`src/math.c:45`) is a
  comparison of the two places, as the `TODO` below it says.
- "2.5 seconds" are 90 frames (`src/projectile.c:180-181`), "3 seconds" 300 (`src/player.c:57`).
- A grenade in a wall turns by a quarter once for every player slot of a frame
  (`src/projectile.c:210`).

About matches and options:

- The winner that is shown may change during the countdown, as `calculate_scores` takes the
  first team with enough points (`lib.rs:151`).
- After a match the name of the mode falls back to deathmatch and is saved, and the index of
  the mode that will be played stays; the ip address falls back to 127.0.0.1 and the number of
  bots to 0.
- What was changed in the settings is lost if the window is closed there. Two processes that run
  in the same directory overwrite each other's options.
- `src/hashset.c:33` says that `hashset_insert` returns whether the item is new; it returns
  whether it was there (line 45), which no caller reads.

## What is not modelled

Most of the repository's lines are not the program's own: the WebAssembly interpreter (wasm3),
the headers of raylib, raygui and json-c, and the C library for the game modes are vendored
code. Of the rest, this is left out:

- **The byte layout of datagrams**: datagrams of a wrong size, and the record that is one too
  many from 87 records on.
- **A network that reorders**, and **ids that are not distinct**. The theorems about counting
  need both promises, and neither UDP nor `rand()` gives them. A datagram that shows a player dead
  and is read after one that shows him back would be counted as a second kill.
- **Several phantoms**: bytes that nobody sent have one id in `Replication`. In the code each place may
  yield another one, so the host's table fills faster, and the hypothesis of `NobodyExitsForTeams`,
  which counts ids, needs a slot and a team for each.
- **Counts and team scores in datagrams**: `num_kills` of a record is not read by its receiver. Clients
  take team ids and scores from snapshots; a free-for-all overwrites the scores in the same frame, and
  in capture the flag a match may be won at any time in the model.
- **Positions and angles**: walking, aiming, flight and bouncing are floating-point geometry. Where
  they matter any outcome is allowed, or, in `CaptureTheFlag`, a map is a relation.
- **The choices of bots** (`bots/simple.c`) compare distances. A bot is a player whose keys are
  any keys.
- **Flags at the clients**, which compute them for themselves from the players they see (no
  datagram carries a flag; the scores of the teams come with the snapshots), and **flags carried by
  clients as the host sees them through lossy datagrams**: a warp or a death that the host misses
  moves the flag. The **players of an earlier match** that stay in `TEAMS` of capture the flag.
- **Map, camera, rendering**: they read a file once, draw, or compute with floating-point
  numbers; no state of the rest depends on them but positions.
- **Memory of the game modes** (`game_modes/deps`): pointers into the memory of the interpreter.
- **Ability names**: text to enumeration and back.

## Plan

What would come next, the most useful first:

1. `Receive`: the receive loops of `handle_networking` byte by byte, that is with datagrams
   of any size, the place each is written to, the number of records computed from the
   bytes, and the overlay that `NetPlayersOf` abstracts; with a proof of the numbers for
   which the computed count is right.
2. `Replication` with a reordering network and with ids that are not distinct, as instances
   in which `NoDoubleKill` fails or is shown to hold; clients that leave and come back.
3. `CaptureTheFlag` with the datagrams of clients, so that `NoTeleport` can be asked for all
   players ("UNLESS the player is using their ability or they die", `lib.rs:171-172`), and with
   the flags that a client computes.
4. A client that sends only when its record changes, in `Replication`, so that a client that holds
   still after a lost datagram can be told from one that is not answered; and several phantoms.

Running it: `tlc -config ReplicationPair.cfg MCReplication`, likewise for the other runs;
`tlapm ReplicationProofs.tla`, likewise for the other proofs.
