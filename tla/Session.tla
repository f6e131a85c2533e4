------------------------------ MODULE Session ------------------------------
(***************************************************************************)
(* From one start of the program to the next: the pages of src/main.c and  *)
(* src/game_state.c, the options that src/main_menu_state.c and            *)
(* src/in_game_state.c hand from page to page, the configuration file of   *)
(* src/config.c in which they outlive the process, and the memory of the   *)
(* game modes, which outlives the match.                                   *)
(*                                                                         *)
(* The pages share one union, so each page copies what it needs out of the *)
(* one before. enter_main_menu then saves all options, one after another,  *)
(* and each time the whole file is emptied before it is written anew. The  *)
(* process may be stopped at any moment.                                   *)
(***************************************************************************)
EXTENDS Integers, Sequences

CONSTANTS
    GameModes,      \* the files in game_modes/
    Values,         \* of each option: what the player may choose
    Default,        \* of each option: what enter_main_menu takes for a missing one
    WinScore        \* winning_score

\* The options in the order in which enter_main_menu saves them.
Order == <<"ability", "weapon", "hosting", "username", "ip_addr", "game_mode_file_name">>
Options == {Order[i] : i \in 1 .. 6}

Missing == ""
AnyValue == {Missing} \cup UNION {Values[o] : o \in Options}
NothingSaved == [o \in Options |-> Missing]
NoScores == [m \in GameModes |-> 0]

ASSUME SessionAssumption ==
    /\ "deathmatch" \in GameModes /\ Missing \notin GameModes
    /\ Default \in [Options -> AnyValue]
    /\ \A o \in Options : Missing \notin Values[o] /\ Default[o] \in Values[o]
    /\ Values["hosting"] = {"true", "false"}
    /\ Values["game_mode_file_name"] = GameModes
    /\ Default["game_mode_file_name"] = "deathmatch"
    /\ WinScore \in Nat \ {0}

VARIABLES
    page,       \* "off": no process runs; else game_page
    saving,     \* enter_main_menu: the option that is saved next, 0 if it is done
    step,       \* set_config_option: "open", or "write" while the file is empty
    content,    \* config_file_buffer, and the object made of it
    file,       \* the configuration file, an empty one having no options
    options,    \* the options as the page holds them
    mode,       \* the mode that current_game_mode_index leads to
    score,      \* of each mode: the best score of a team, in the mode's memory
    countdown,  \* countdown_frames_to_main_menu is running
    shown,      \* history: the options when the main menu last appeared
    torn,       \* history: the process was stopped while it saved options
    renamed,    \* history: a match was played since the mode was chosen
    gained      \* points gained in this match: num_kills, or captures (history)

disk == <<file, content, step, saving>>
match == <<score, countdown, gained>>
vars == <<page, disk, options, mode, match, shown, torn, renamed>>

IsSaved(c) == c \in [Options -> AnyValue] /\ \A o \in Options : c[o] \in Values[o] \cup {Missing}
IsChoice(c) == c \in [Options -> AnyValue] /\ \A o \in Options : c[o] \in Values[o]

TypeOK ==
    /\ page \in {"off", "MainMenu", "Settings", "InGame"}
    /\ saving \in 0 .. 6 /\ (saving # 0 => page = "MainMenu")
    /\ step \in {"open", "write"} /\ (step = "write" => saving # 0)
    /\ IsSaved(file) /\ IsSaved(content) /\ IsChoice(options) /\ IsSaved(shown)
    /\ mode \in GameModes
    /\ score \in [GameModes -> 0 .. WinScore]
    /\ gained \in 0 .. WinScore
    /\ countdown \in BOOLEAN /\ torn \in BOOLEAN /\ renamed \in BOOLEAN

Init ==
    /\ page = "off" /\ saving = 0 /\ step = "open"
    /\ file = NothingSaved /\ content = NothingSaved
    /\ options = Default /\ mode = "deathmatch"
    /\ score = NoScores /\ countdown = FALSE
    /\ shown = NothingSaved /\ torn = FALSE /\ renamed = FALSE /\ gained = 0

(***************************************************************************)
(* enter_main_menu: the options come from the file, from the match or from *)
(* the settings; then they are saved.                                      *)
(***************************************************************************)

\* get_config_option of each option.
Loaded == [o \in Options |-> IF file[o] = Missing THEN Default[o] ELSE file[o]]

\* What the match keeps none of: the address and the file name are as at first.
AfterMatch(weapon) ==
    [options EXCEPT !["weapon"] = weapon, !["ip_addr"] = Default["ip_addr"],
                    !["game_mode_file_name"] = Default["game_mode_file_name"]]

BeginSaving == page' = "MainMenu" /\ saving' = 1 /\ step' = "open"

\* main: a new process. All game modes are loaded anew, and the saved file name
\* picks one of them.
Start ==
    /\ page = "off" /\ BeginSaving
    /\ options' = Loaded
    /\ mode' = options'["game_mode_file_name"]
    /\ score' = NoScores /\ renamed' = FALSE
    /\ UNCHANGED <<file, content, countdown, gained, shown, torn>>

(***************************************************************************)
(* set_config_option: the file is read and opened for writing, which       *)
(* empties it; the object with the option replaced is written when it is   *)
(* closed.                                                                 *)
(***************************************************************************)
OpenFile ==
    /\ saving # 0 /\ step = "open"
    /\ content' = file /\ file' = NothingSaved /\ step' = "write"
    /\ UNCHANGED <<page, saving, options, mode, match, shown, torn, renamed>>

\* Mutant of WrittenContent: the object is begun anew each time.
WrittenAlone(o) == [NothingSaved EXCEPT ![o] = options[o]]

WrittenContent(o) == [content EXCEPT ![o] = options[o]]

\* Mutant of AfterOption: one too many.
AfterOptionAndOne(i) == i + 1

\* Mutant of AfterOption: the last option is forgotten.
AfterOptionButLast(i) == IF i = 5 THEN 0 ELSE i + 1

\* The option saved after the i-th; 0 when the menu appears.
AfterOption(i) == IF i = 6 THEN 0 ELSE i + 1

WriteFile ==
    /\ saving # 0 /\ step = "write"
    /\ file' = WrittenContent(Order[saving])
    /\ content' = NothingSaved /\ step' = "open"
    /\ saving' = AfterOption(saving)
    /\ IF saving' = 0 THEN shown' = options /\ torn' = FALSE ELSE UNCHANGED <<shown, torn>>
    /\ UNCHANGED <<page, options, mode, match, renamed>>

(***************************************************************************)
(* The main menu and the settings.                                         *)
(***************************************************************************)
InMenu(p) == page = p /\ saving = 0

OpenSettings ==
    /\ InMenu("MainMenu") /\ page' = "Settings"
    /\ UNCHANGED <<disk, options, mode, match, shown, torn, renamed>>

\* run_settings_state: one widget changes one option. The address can only be
\* edited by who does not host.
ChangeOption(o, v) ==
    /\ InMenu("Settings") /\ o # "game_mode_file_name" /\ v # options[o]
    /\ o = "ip_addr" => options["hosting"] = "false"
    /\ options' = [options EXCEPT ![o] = v]
    /\ UNCHANGED <<page, disk, mode, match, shown, torn, renamed>>

\* Mutant of ChangeMode: the arrow sets the index only.
ChangeIndex(m) ==
    /\ InMenu("Settings") /\ m # mode
    /\ mode' = m /\ renamed' = FALSE
    /\ UNCHANGED <<page, disk, options, match, shown, torn>>

\* The arrows of the game mode set the index and the file name.
ChangeMode(m) ==
    /\ InMenu("Settings") /\ m # mode
    /\ mode' = m /\ options' = [options EXCEPT !["game_mode_file_name"] = m]
    /\ renamed' = FALSE
    /\ UNCHANGED <<page, disk, match, shown, torn>>

Back ==
    /\ InMenu("Settings") /\ BeginSaving
    /\ UNCHANGED <<file, content, options, mode, match, shown, torn, renamed>>

(***************************************************************************)
(* The match.                                                              *)
(***************************************************************************)

\* init_game_mode: deathmatch and gun game write their teams anew, without score
\* and players; capture the flag writes only their ids and colours.
ScoreAfterInit(m) == IF m = "capture_the_flag" THEN score[m] ELSE 0

\* calculate_scores: deathmatch counts its players' kills anew in each frame, gun
\* game tests them; capture the flag adds to the score it finds.
ScoreAfterFrame(m, points) ==
    IF m = "capture_the_flag" THEN score[m] + points ELSE gained + points

\* enter_in_game
EnterMatch ==
    /\ InMenu("MainMenu") /\ page' = "InGame"
    /\ score' = [score EXCEPT ![mode] = ScoreAfterInit(mode)]
    /\ countdown' = FALSE /\ gained' = 0
    /\ UNCHANGED <<disk, options, mode, shown, torn, renamed>>

\* run_in_game_state: a frame in which the best team may gain a point (those
\* beyond the winning score are not counted), and the player another weapon.
Frame(points, weapon) ==
    /\ page = "InGame" /\ ScoreAfterFrame(mode, points) <= WinScore
    /\ score' = [score EXCEPT ![mode] = ScoreAfterFrame(mode, points)]
    /\ gained' = gained + points
    /\ countdown' = (score'[mode] = WinScore)
    /\ options' = [options EXCEPT !["weapon"] = weapon]
    /\ UNCHANGED <<page, disk, mode, shown, torn, renamed>>

\* The frame that ends the countdown: exit_in_game, and enter_main_menu from InGame.
LastFrame(weapon) ==
    /\ page = "InGame" /\ countdown /\ BeginSaving
    /\ options' = AfterMatch(weapon)
    /\ countdown' = FALSE /\ gained' = 0 /\ renamed' = TRUE
    /\ UNCHANGED <<file, content, mode, score, shown, torn>>

\* The window is closed, or the process is killed.
Stop ==
    /\ page # "off" /\ page' = "off"
    /\ torn' = (torn \/ saving # 0)
    /\ saving' = 0 /\ step' = "open" /\ content' = NothingSaved
    /\ options' = Default /\ mode' = "deathmatch"
    /\ score' = NoScores /\ countdown' = FALSE /\ gained' = 0 /\ renamed' = FALSE
    /\ UNCHANGED <<file, shown>>

Next ==
    \/ Start \/ OpenFile \/ WriteFile \/ OpenSettings \/ Back \/ EnterMatch \/ Stop
    \/ \E o \in Options : \E v \in Values[o] : ChangeOption(o, v)
    \/ \E m \in GameModes : ChangeMode(m)
    \/ \E weapon \in Values["weapon"] : LastFrame(weapon) \/ \E points \in 0 .. 1 : Frame(points, weapon)

Spec == Init /\ [][Next]_vars

(***************************************************************************)
(* Properties.                                                             *)
(***************************************************************************)

\* The file is an option store: a save replaces one option and keeps the others,
\* and a process stopped between emptying and writing loses them all, never some
\* (set_config_option).
Store == INSTANCE OptionStore WITH kept <- IF step = "write" THEN content ELSE file
ImplementsStore == Store!Spec

\* The program starts with the options of the last main menu, whatever was changed
\* in the settings, played, or stopped since; unless it was stopped while it saved
\* them (enter_main_menu).
StartShows ==
    [][Start /\ ~torn /\ shown # NothingSaved => options' = shown]_vars

\* The mode that will be played is the one whose file name the page holds and saves,
\* from the start or from the last choice until a match has been played. (The
\* settings draw the name that the mode of the index gives itself. A match keeps the
\* index and not the file name: the next start plays another mode than the next
\* match.)
PlayedModeIsNamed ==
    page # "off" /\ ~renamed => options["game_mode_file_name"] = mode

\* The file when a process that saves option i is stopped: new options before the
\* i-th, those of the last menu from there on.
MixOf(i, new, old) ==
    [o \in Options |-> IF \E j \in 1 .. i - 1 : Order[j] = o THEN new[o] ELSE old[o]]

\* A process stopped while it saves its options, the last ones having been saved
\* whole, leaves no options at all or the first of the new ones and the rest of the
\* last: no other mixture, and none of anything older (enter_main_menu saves the
\* options one by one, set_config_option empties the file).
InterruptedSave ==
    [][Stop /\ saving # 0 /\ ~torn =>
          file' = NothingSaved \/ file' = MixOf(saving, options, shown)]_vars

\* "Check if a team has won" (lib.rs:150): a match is won when a team has won it.
\* The scores of capture the flag outlive the match: every later one in the process
\* is won in its first frame, and left when the countdown has run.
TeamHasWon == countdown => gained = WinScore
=============================================================================
