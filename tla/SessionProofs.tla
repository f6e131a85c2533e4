--------------------------- MODULE SessionProofs ---------------------------
(***************************************************************************)
(* Proofs about Session, for any game modes, choices and winning score.    *)
(***************************************************************************)
EXTENDS Session, TLAPS

USE DEF vars, disk, match, Missing

LEMMA OptionNames ==
  /\ Options = {"ability", "weapon", "hosting", "username", "ip_addr", "game_mode_file_name"}
  /\ \A i \in 1 .. 6 : Order[i] \in Options
  /\ \A o \in Options : \E i \in 1 .. 6 : Order[i] = o
  <1>1. /\ Order[1] = "ability" /\ Order[2] = "weapon" /\ Order[3] = "hosting"
        /\ Order[4] = "username" /\ Order[5] = "ip_addr" /\ Order[6] = "game_mode_file_name"
    BY DEF Order
  <1>2. 1 .. 6 = {1, 2, 3, 4, 5, 6}
    OBVIOUS
  <1>3. Options = {"ability", "weapon", "hosting", "username", "ip_addr", "game_mode_file_name"}
    <2>1. Options = {Order[1], Order[2], Order[3], Order[4], Order[5], Order[6]}
      BY <1>2, Zenon DEF Options
    <2>2. QED
      BY <1>1, <2>1
  <1>4. QED
    BY <1>3 DEF Options

LEMMA Named ==
  /\ "weapon" \in Options /\ "ip_addr" \in Options /\ "game_mode_file_name" \in Options
  /\ "hosting" \in Options
  BY OptionNames

LEMMA ValueFacts ==
  /\ \A o \in Options : Values[o] \subseteq AnyValue /\ Default[o] \in Values[o]
  /\ "" \in AnyValue
  /\ \A o \in Options : "" \notin Values[o]
  BY SessionAssumption DEF AnyValue

LEMMA NothingIsSaved == IsSaved(NothingSaved)
  BY ValueFacts DEF IsSaved, NothingSaved

\* What an option is set to.
LEMMA SetOption ==
  ASSUME NEW c, NEW o \in Options, NEW v \in Values[o]
  PROVE  /\ IsSaved(c) => IsSaved([c EXCEPT ![o] = v])
         /\ IsChoice(c) => IsChoice([c EXCEPT ![o] = v])
  <1>1. v \in AnyValue
    BY ValueFacts
  <1>2. QED
    BY <1>1 DEF IsSaved, IsChoice

-----------------------------------------------------------------------------
LEMMA ModeFacts ==
  /\ "deathmatch" \in GameModes
  /\ Values["game_mode_file_name"] = GameModes
  /\ Default["game_mode_file_name"] = "deathmatch"
  /\ WinScore \in Nat \ {0}
  BY SessionAssumption

LEMMA DefaultIsChoice == IsChoice(Default)
  <1>1. Default \in [Options -> AnyValue]
    BY SessionAssumption
  <1>2. QED
    BY <1>1, ValueFacts DEF IsChoice

LEMMA NoScoresType == NoScores \in [GameModes -> 0 .. WinScore] /\ 0 \in 0 .. WinScore
  BY ModeFacts DEF NoScores

LEMMA InitType == Init => TypeOK
  <1> SUFFICES ASSUME Init PROVE TypeOK
    OBVIOUS
  <1>1. /\ page \in {"off", "MainMenu", "Settings", "InGame"}
        /\ saving \in 0 .. 6 /\ (saving # 0 => page = "MainMenu")
        /\ step \in {"open", "write"} /\ (step = "write" => saving # 0)
    BY DEF Init
  <1>2. IsSaved(file) /\ IsSaved(content) /\ IsChoice(options) /\ IsSaved(shown)
    BY DefaultIsChoice, NothingIsSaved DEF Init
  <1>3. /\ mode \in GameModes
        /\ score \in [GameModes -> 0 .. WinScore]
        /\ gained \in 0 .. WinScore
    BY ModeFacts, NoScoresType DEF Init
  <1>4. countdown \in BOOLEAN /\ torn \in BOOLEAN /\ renamed \in BOOLEAN
    BY DEF Init
  <1>5. QED
    BY <1>1, <1>2, <1>3, <1>4 DEF TypeOK

\* What the file and the match give is a choice.
LEMMA Choices ==
  ASSUME TypeOK
  PROVE  /\ IsChoice(Loaded)
         /\ \A w \in Values["weapon"] : IsChoice(AfterMatch(w))
  <1>1. IsChoice(Loaded)
    BY ValueFacts DEF TypeOK, IsSaved, IsChoice, Loaded
  <1>2. ASSUME NEW w \in Values["weapon"]
        PROVE  IsChoice(AfterMatch(w))
    <2> DEFINE armed == [options EXCEPT !["weapon"] = w]
               addressed == [armed EXCEPT !["ip_addr"] = Default["ip_addr"]]
    <2>1. IsChoice(armed)
      BY SetOption, Named DEF TypeOK
    <2> HIDE DEF armed
    <2>2. IsChoice(addressed)
      BY <2>1, SetOption, Named, ValueFacts
    <2> HIDE DEF addressed
    <2>3. IsChoice([addressed EXCEPT !["game_mode_file_name"] = Default["game_mode_file_name"]])
      BY <2>2, SetOption, Named, ValueFacts
    <2>4. QED
      BY <2>3 DEF AfterMatch, armed, addressed
  <1>3. QED
    BY <1>1, <1>2

\* The parts of TypeOK, each of which most actions leave alone.
PageType ==
  /\ page \in {"off", "MainMenu", "Settings", "InGame"}
  /\ saving \in 0 .. 6 /\ (saving # 0 => page = "MainMenu")
  /\ step \in {"open", "write"} /\ (step = "write" => saving # 0)
OptionType ==
  IsSaved(file) /\ IsSaved(content) /\ IsChoice(options) /\ IsSaved(shown)
MatchType ==
  /\ mode \in GameModes /\ score \in [GameModes -> 0 .. WinScore]
  /\ gained \in 0 .. WinScore
FlagType == countdown \in BOOLEAN /\ torn \in BOOLEAN /\ renamed \in BOOLEAN

LEMMA TypeParts == TypeOK <=> PageType /\ OptionType /\ MatchType /\ FlagType
  BY DEF TypeOK, PageType, OptionType, MatchType, FlagType

LEMMA PageStep ==
  ASSUME PageType, [Next]_vars
  PROVE  PageType'
  <1>1. CASE Start \/ Back
    BY <1>1 DEF Start, Back, BeginSaving, PageType
  <1>2. CASE OpenFile
    BY <1>2 DEF OpenFile, PageType
  <1>3. CASE WriteFile
    BY <1>3 DEF WriteFile, AfterOption, PageType
  <1>4. CASE OpenSettings \/ EnterMatch
    BY <1>4 DEF OpenSettings, EnterMatch, InMenu, PageType
  <1>5. ASSUME NEW o \in Options, NEW v \in Values[o], ChangeOption(o, v)
        PROVE  PageType'
    BY <1>5 DEF ChangeOption, PageType
  <1>6. ASSUME NEW m \in GameModes, ChangeMode(m)
        PROVE  PageType'
    BY <1>6 DEF ChangeMode, PageType
  <1>7. ASSUME NEW w \in Values["weapon"], LastFrame(w)
        PROVE  PageType'
    BY <1>7 DEF LastFrame, BeginSaving, PageType
  <1>8. ASSUME NEW w \in Values["weapon"], NEW n \in 0 .. 1, Frame(n, w)
        PROVE  PageType'
    BY <1>8 DEF Frame, PageType
  <1>9. CASE Stop
    BY <1>9 DEF Stop, PageType
  <1>10. CASE UNCHANGED vars
    BY <1>10 DEF PageType
  <1>11. QED
    BY <1>1, <1>2, <1>3, <1>4, <1>5, <1>6, <1>7, <1>8, <1>9, <1>10 DEF Next

LEMMA OptionStep ==
  ASSUME TypeOK, [Next]_vars
  PROVE  OptionType'
  <1> USE DEF OptionType
  <1>1. OptionType /\ PageType
    BY TypeParts
  <1>2. CASE Start
    BY <1>1, <1>2, Choices DEF Start
  <1>3. CASE OpenFile
    BY <1>1, <1>3, NothingIsSaved DEF OpenFile
  <1>4. CASE WriteFile
    <2>1. Order[saving] \in Options
      BY <1>1, <1>4, OptionNames DEF PageType, WriteFile
    <2>2. options[Order[saving]] \in Values[Order[saving]]
      BY <1>1, <2>1 DEF IsChoice
    <2>3. IsSaved(file')
      BY <1>1, <1>4, <2>1, <2>2, SetOption DEF WriteFile, WrittenContent
    <2>4. IsSaved(options)
      BY <1>1 DEF IsSaved, IsChoice
    <2>5. IsSaved(shown') /\ IsSaved(content') /\ options' = options
      BY <1>1, <1>4, <2>4, NothingIsSaved DEF WriteFile
    <2>6. QED
      BY <1>1, <2>3, <2>5
  <1>5. CASE OpenSettings \/ EnterMatch \/ Back
    BY <1>1, <1>5 DEF OpenSettings, EnterMatch, Back
  <1>6. ASSUME NEW o \in Options, NEW v \in Values[o], ChangeOption(o, v)
        PROVE  OptionType'
    BY <1>1, <1>6, SetOption DEF ChangeOption
  <1>7. ASSUME NEW m \in GameModes, ChangeMode(m)
        PROVE  OptionType'
    BY <1>1, <1>7, SetOption, Named, ModeFacts DEF ChangeMode
  <1>8. ASSUME NEW w \in Values["weapon"], LastFrame(w)
        PROVE  OptionType'
    BY <1>1, <1>8, Choices DEF LastFrame
  <1>9. ASSUME NEW w \in Values["weapon"], NEW n \in 0 .. 1, Frame(n, w)
        PROVE  OptionType'
    BY <1>1, <1>9, SetOption, Named DEF Frame
  <1>10. CASE Stop
    BY <1>1, <1>10, DefaultIsChoice, NothingIsSaved DEF Stop
  <1>11. CASE UNCHANGED vars
    BY <1>1, <1>11
  <1>12. QED
    BY <1>2, <1>3, <1>4, <1>5, <1>6, <1>7, <1>8, <1>9, <1>10, <1>11 DEF Next

\* The points of the match are among the best score, and all of it but in capture
\* the flag.
ScoresCount ==
  page = "InGame" =>
    /\ gained <= score[mode]
    /\ mode # "capture_the_flag" => gained = score[mode]

LEMMA ScoresStep ==
  ASSUME TypeOK, ScoresCount, [Next]_vars
  PROVE  ScoresCount'
  <1> USE DEF ScoresCount
  <1>1. score \in [GameModes -> 0 .. WinScore] /\ mode \in GameModes /\ gained \in 0 .. WinScore
    BY DEF TypeOK
  <1>2. CASE Start \/ OpenSettings \/ Back \/ Stop
    BY <1>2 DEF Start, OpenSettings, Back, Stop, BeginSaving
  <1>3. CASE OpenFile \/ WriteFile
    BY <1>3 DEF OpenFile, WriteFile
  <1>4. CASE EnterMatch
    <2>1. score'[mode] = ScoreAfterInit(mode) /\ gained' = 0 /\ mode' = mode
      BY <1>1, <1>4 DEF EnterMatch
    <2>2. ScoreAfterInit(mode) >= 0 /\ (mode # "capture_the_flag" => ScoreAfterInit(mode) = 0)
      BY <1>1, ModeFacts DEF ScoreAfterInit
    <2>3. QED
      BY <2>1, <2>2
  <1>5. ASSUME NEW o \in Options, NEW v \in Values[o], ChangeOption(o, v)
        PROVE  ScoresCount'
    BY <1>5 DEF ChangeOption, InMenu
  <1>6. ASSUME NEW m \in GameModes, ChangeMode(m)
        PROVE  ScoresCount'
    BY <1>6 DEF ChangeMode, InMenu
  <1>7. ASSUME NEW w \in Values["weapon"], LastFrame(w)
        PROVE  ScoresCount'
    BY <1>7 DEF LastFrame, BeginSaving
  <1>8. ASSUME NEW w \in Values["weapon"], NEW n \in 0 .. 1, Frame(n, w)
        PROVE  ScoresCount'
    <2>1. /\ score'[mode] = ScoreAfterFrame(mode, n)
          /\ gained' = gained + n /\ mode' = mode
      BY <1>1, <1>8 DEF Frame
    <2>2. gained \in Int /\ score[mode] \in Int /\ n \in Int
      BY <1>1, ModeFacts
    <2>3. page = "InGame"
      BY <1>8 DEF Frame
    <2>4. QED
      BY <2>1, <2>2, <2>3 DEF ScoreAfterFrame
  <1>9. CASE UNCHANGED vars
    BY <1>9
  <1>10. QED
    BY <1>2, <1>3, <1>4, <1>5, <1>6, <1>7, <1>8, <1>9 DEF Next

LEMMA MatchStep ==
  ASSUME TypeOK, ScoresCount, [Next]_vars
  PROVE  MatchType' /\ FlagType'
  <1> USE DEF MatchType, FlagType
  <1>1. OptionType /\ PageType /\ MatchType /\ FlagType
    BY TypeParts
  <1>2. CASE Start
    <2>1. options'["game_mode_file_name"] \in GameModes
      BY <1>2, Choices, Named, ModeFacts DEF Start, IsChoice
    <2>2. MatchType'
      BY <1>1, <1>2, <2>1, NoScoresType DEF Start
    <2>3. FlagType'
      BY <1>1, <1>2 DEF Start
    <2>4. QED
      BY <2>2, <2>3
  <1>3. CASE OpenFile \/ OpenSettings \/ Back
    BY <1>1, <1>3 DEF OpenFile, OpenSettings, Back
  <1>4. CASE WriteFile
    <2>1. torn' \in BOOLEAN
      BY <1>1, <1>4 DEF WriteFile
    <2>2. QED
      BY <1>1, <1>4, <2>1 DEF WriteFile
  <1>5. CASE EnterMatch
    <2>1. ScoreAfterInit(mode) \in 0 .. WinScore
      BY <1>1, NoScoresType DEF ScoreAfterInit
    <2>2. MatchType'
      BY <1>1, <1>5, <2>1, NoScoresType DEF EnterMatch
    <2>3. FlagType'
      BY <1>1, <1>5 DEF EnterMatch
    <2>4. QED
      BY <2>2, <2>3
  <1>6. ASSUME NEW o \in Options, NEW v \in Values[o], ChangeOption(o, v)
        PROVE  MatchType' /\ FlagType'
    BY <1>1, <1>6 DEF ChangeOption
  <1>7. ASSUME NEW m \in GameModes, ChangeMode(m)
        PROVE  MatchType' /\ FlagType'
    BY <1>1, <1>7 DEF ChangeMode
  <1>8. ASSUME NEW w \in Values["weapon"], LastFrame(w)
        PROVE  MatchType' /\ FlagType'
    <2>1. MatchType'
      BY <1>1, <1>8, NoScoresType DEF LastFrame
    <2>2. FlagType'
      BY <1>1, <1>8 DEF LastFrame
    <2>3. QED
      BY <2>1, <2>2
  <1>9. ASSUME NEW w \in Values["weapon"], NEW n \in 0 .. 1, Frame(n, w)
        PROVE  MatchType' /\ FlagType'
    <2>1. ScoreAfterFrame(mode, n) \in 0 .. WinScore
      BY <1>1, <1>9, ModeFacts DEF Frame, ScoreAfterFrame
    <2>2. score' \in [GameModes -> 0 .. WinScore] /\ mode' = mode
      BY <1>1, <1>9, <2>1 DEF Frame
    <2>3. gained' \in 0 .. WinScore
      <3>1. gained' = gained + n /\ gained' <= score'[mode']
        BY <1>9, ScoresStep DEF Frame, ScoresCount
      <3>2. score'[mode'] \in 0 .. WinScore
        BY <1>1, <2>2
      <3>3. QED
        BY <1>1, <3>1, <3>2, ModeFacts
    <2>4. FlagType'
      BY <1>1, <1>9 DEF Frame
    <2>5. QED
      BY <1>1, <2>2, <2>3, <2>4
  <1>10. CASE Stop
    <2>1. MatchType'
      BY <1>1, <1>10, NoScoresType, ModeFacts DEF Stop
    <2>2. FlagType'
      BY <1>1, <1>10 DEF Stop
    <2>3. QED
      BY <2>1, <2>2
  <1>11. CASE UNCHANGED vars
    BY <1>1, <1>11
  <1>12. QED
    BY <1>2, <1>3, <1>4, <1>5, <1>6, <1>7, <1>8, <1>9, <1>10, <1>11 DEF Next

-----------------------------------------------------------------------------
\* The file name the page holds is the mode's, until a match has been played.
LEMMA NamedStep ==
  ASSUME TypeOK, PlayedModeIsNamed, [Next]_vars
  PROVE  PlayedModeIsNamed'
  <1> USE DEF PlayedModeIsNamed
  <1>1. options \in [Options -> AnyValue]
    BY DEF TypeOK, IsChoice
  <1>2. CASE Start
    BY <1>2 DEF Start
  <1>3. CASE OpenFile \/ WriteFile \/ OpenSettings \/ Back \/ EnterMatch
    BY <1>3 DEF OpenFile, WriteFile, OpenSettings, Back, EnterMatch, InMenu, BeginSaving
  <1>4. CASE Stop
    BY <1>4 DEF Stop
  <1>5. ASSUME NEW o \in Options, NEW v \in Values[o], ChangeOption(o, v)
        PROVE  PlayedModeIsNamed'
    BY <1>1, <1>5 DEF ChangeOption, InMenu
  <1>6. ASSUME NEW m \in GameModes, ChangeMode(m)
        PROVE  PlayedModeIsNamed'
    BY <1>1, <1>6, Named DEF ChangeMode
  <1>7. ASSUME NEW w \in Values["weapon"], LastFrame(w)
        PROVE  PlayedModeIsNamed'
    BY <1>7 DEF LastFrame
  <1>8. ASSUME NEW w \in Values["weapon"], NEW n \in 0 .. 1, Frame(n, w)
        PROVE  PlayedModeIsNamed'
    BY <1>1, <1>8 DEF Frame
  <1>9. CASE UNCHANGED vars
    BY <1>9
  <1>10. QED
    BY <1>2, <1>3, <1>4, <1>5, <1>6, <1>7, <1>8, <1>9 DEF Next

-----------------------------------------------------------------------------
\* What is kept: during a save it is in the buffer, and the file is empty.
Kept == IF step = "write" THEN content ELSE file

\* The options saved so far are kept, and those to come are the ones of the last
\* main menu; when none is being saved, the file has all of that.
FileFollows ==
  /\ step = "write" => file = NothingSaved
  /\ saving # 0 => \A i \in 1 .. 6 : i < saving => Kept[Order[i]] = options[Order[i]]
  /\ saving # 0 /\ ~torn => \A i \in 1 .. 6 : i >= saving => Kept[Order[i]] = shown[Order[i]]
  /\ saving = 0 /\ ~torn => file = shown
  /\ shown = NothingSaved \/ IsChoice(shown)

LEMMA OrderDistinct ==
  \A i, j \in 1 .. 6 : i # j => Order[i] # Order[j]
  BY DEF Order

LEMMA WriteKeeps ==
  ASSUME TypeOK, FileFollows, WriteFile
  PROVE  /\ FileFollows'
         /\ Kept' = [Kept EXCEPT ![Order[saving]] = options[Order[saving]]]
         /\ Order[saving] \in Options
  <1>1. saving \in 1 .. 6 /\ Order[saving] \in Options
    BY OptionNames DEF TypeOK, WriteFile
  <1>2. /\ content \in [Options -> AnyValue] /\ options \in [Options -> AnyValue]
        /\ IsChoice(options)
    BY DEF TypeOK, IsSaved, IsChoice
  <1>3. file' = [content EXCEPT ![Order[saving]] = options[Order[saving]]]
    BY DEF WriteFile, WrittenContent
  <1>4. Kept = content /\ Kept' = file' /\ options' = options /\ step' = "open"
    BY DEF WriteFile, Kept
  <1>5. file' \in [Options -> AnyValue] /\ file'[Order[saving]] = options[Order[saving]]
    BY <1>1, <1>2, <1>3
  <1>6. \A i \in 1 .. 6 : i < saving => file'[Order[i]] = options[Order[i]]
    <2> TAKE i \in 1 .. 6
    <2>1. HAVE i < saving
    <2>2. content[Order[i]] = options[Order[i]]
      BY <1>1, <1>4, <2>1 DEF FileFollows
    <2>3. Order[i] # Order[saving] /\ Order[i] \in Options
      BY <1>1, <2>1, OrderDistinct, OptionNames
    <2>4. QED
      BY <1>2, <1>3, <2>2, <2>3
  <1>7. CASE saving = 6
    <2>1. \A i \in 1 .. 6 : file'[Order[i]] = options[Order[i]]
      BY <1>5, <1>6, <1>7
    <2>2. \A o \in Options : file'[o] = options[o]
      BY <2>1, OptionNames
    <2>3. file' = options
      BY <1>2, <1>5, <2>2
    <2>4. saving' = 0 /\ shown' = options
      BY <1>7 DEF WriteFile, AfterOption
    <2>5. IsChoice(shown')
      BY <1>2, <2>4
    <2>6. FileFollows'
      BY <1>4, <2>3, <2>4, <2>5 DEF FileFollows
    <2>7. QED
      BY <1>1, <1>3, <1>4, <2>6
  <1>8. CASE saving # 6
    <2>1. saving' = saving + 1 /\ saving' # 0 /\ shown' = shown /\ torn' = torn
      BY <1>1, <1>8 DEF WriteFile, AfterOption
    <2>2. \A i \in 1 .. 6 : i < saving' => file'[Order[i]] = options[Order[i]]
      BY <1>1, <1>5, <1>6, <2>1
    <2>3. IsChoice(shown') \/ shown' = NothingSaved
      BY <2>1 DEF FileFollows
    <2>4. ASSUME ~torn, NEW i \in 1 .. 6, i >= saving' PROVE file'[Order[i]] = shown[Order[i]]
      <3>1. i >= saving /\ i # saving
        BY <1>1, <2>1, <2>4
      <3>2. content[Order[i]] = shown[Order[i]]
        BY <1>1, <1>4, <2>4, <3>1 DEF FileFollows
      <3>3. Order[i] # Order[saving] /\ Order[i] \in Options
        BY <1>1, <3>1, OrderDistinct, OptionNames
      <3>4. QED
        BY <1>2, <1>3, <3>2, <3>3
    <2>5. FileFollows'
      BY <1>4, <2>1, <2>2, <2>3, <2>4 DEF FileFollows
    <2>6. QED
      BY <1>1, <1>3, <1>4, <2>5
  <1>9. QED
    BY <1>7, <1>8

\* Only WriteFile and Stop change what is kept.
KeptStep ==
  \/ WriteFile
  \/ Stop /\ (Kept' = Kept \/ Kept' = NothingSaved)
  \/ Kept' = Kept

LEMMA FileStep ==
  ASSUME TypeOK, FileFollows, [Next]_vars
  PROVE  FileFollows' /\ KeptStep
  <1> USE DEF FileFollows, KeptStep, Kept
  <1>1. saving \in 0 .. 6 /\ (step = "write" => saving # 0)
    BY DEF TypeOK
  <1>2. CASE Start
    BY <1>1, <1>2 DEF Start, BeginSaving, TypeOK
  <1>3. CASE OpenFile
    BY <1>1, <1>3 DEF OpenFile
  <1>4. CASE WriteFile
    BY <1>4, WriteKeeps
  <1>5. CASE OpenSettings \/ EnterMatch
    BY <1>5 DEF OpenSettings, EnterMatch, InMenu
  <1>6. CASE Back
    BY <1>1, <1>6 DEF Back, BeginSaving, InMenu
  <1>7. ASSUME NEW o \in Options, NEW v \in Values[o], ChangeOption(o, v)
        PROVE  FileFollows' /\ KeptStep
    BY <1>7 DEF ChangeOption, InMenu
  <1>8. ASSUME NEW m \in GameModes, ChangeMode(m)
        PROVE  FileFollows' /\ KeptStep
    BY <1>8 DEF ChangeMode, InMenu
  <1>9. ASSUME NEW w \in Values["weapon"], LastFrame(w)
        PROVE  FileFollows' /\ KeptStep
    BY <1>1, <1>9 DEF LastFrame, BeginSaving, TypeOK
  <1>10. ASSUME NEW w \in Values["weapon"], NEW n \in 0 .. 1, Frame(n, w)
        PROVE  FileFollows' /\ KeptStep
    BY <1>1, <1>10 DEF Frame, TypeOK
  <1>11. CASE Stop
    BY <1>1, <1>11 DEF Stop
  <1>12. CASE UNCHANGED vars
    BY <1>12
  <1>13. QED
    BY <1>2, <1>3, <1>4, <1>5, <1>6, <1>7, <1>8, <1>9, <1>10, <1>11, <1>12 DEF Next

-----------------------------------------------------------------------------
Inv == TypeOK /\ ScoresCount /\ PlayedModeIsNamed /\ FileFollows

LEMMA InitInv == Init => Inv
  <1> SUFFICES ASSUME Init PROVE Inv
    OBVIOUS
  <1>1. TypeOK
    BY InitType
  <1>2. ScoresCount /\ PlayedModeIsNamed /\ FileFollows
    BY DEF Init, ScoresCount, PlayedModeIsNamed, FileFollows
  <1>3. QED
    BY <1>1, <1>2 DEF Inv

LEMMA InvStep == Inv /\ [Next]_vars => Inv'
  <1> SUFFICES ASSUME Inv, [Next]_vars PROVE Inv'
    OBVIOUS
  <1>1. TypeOK /\ ScoresCount /\ PlayedModeIsNamed /\ FileFollows
    BY DEF Inv
  <1>2. PageType' /\ OptionType' /\ MatchType' /\ FlagType'
    BY <1>1, TypeParts, PageStep, OptionStep, MatchStep
  <1>3. TypeOK'
    BY <1>2 DEF TypeOK, PageType, OptionType, MatchType, FlagType
  <1>4. ScoresCount' /\ PlayedModeIsNamed' /\ FileFollows'
    BY <1>1, ScoresStep, NamedStep, FileStep
  <1>5. QED
    BY <1>3, <1>4 DEF Inv

LEMMA Invariance == Spec => []Inv
  <1>1. QED
    BY InitInv, InvStep, PTL DEF Spec

\* Every variable of Session stays within its type, over any number of processes,
\* matches and interrupted saves.
THEOREM SessionTypeCorrect == Spec => []TypeOK
  <1>1. Inv => TypeOK
    BY DEF Inv
  <1>2. QED
    BY <1>1, Invariance, PTL

\* The mode that the index leads to has the file name that the page holds and saves,
\* until a match has been played (main_menu_state.c:141, :508).
THEOREM NameFollowsIndex == Spec => []PlayedModeIsNamed
  <1>1. Inv => PlayedModeIsNamed
    BY DEF Inv
  <1>2. QED
    BY <1>1, Invariance, PTL

\* What StartShows says of one step.
LEMMA StartStep ==
  ASSUME Inv
  PROVE  Start /\ ~torn /\ shown # NothingSaved => options' = shown
  <1> SUFFICES ASSUME Start, ~torn, shown # NothingSaved PROVE options' = shown
    OBVIOUS
  <1>1. saving = 0
    BY DEF Start, Inv, TypeOK
  <1>2. file = shown /\ IsChoice(shown)
    BY <1>1 DEF Inv, FileFollows
  <1>3. \A o \in Options : shown[o] # Missing
    BY <1>2, ValueFacts DEF IsChoice
  <1>4. Loaded = [o \in Options |-> shown[o]]
    BY <1>2, <1>3 DEF Loaded
  <1>5. Loaded = shown
    BY <1>2, <1>4 DEF IsChoice
  <1>6. QED
    BY <1>5 DEF Start

\* The program starts with the options its last main menu showed, unless it was
\* stopped while it saved them.
THEOREM StartsAsShown == Spec => StartShows
  <1>1. Inv /\ [Next]_vars
          => [Start /\ ~torn /\ shown # NothingSaved => options' = shown]_vars
    BY StartStep
  <1>2. QED
    BY <1>1, Invariance, PTL DEF Spec, StartShows

\* What InterruptedSave says of one step.
LEMMA StopStep ==
  ASSUME Inv
  PROVE  Stop /\ saving # 0 /\ ~torn =>
           file' = NothingSaved \/ file' = MixOf(saving, options, shown)
  <1> SUFFICES ASSUME Stop, saving # 0, ~torn, file # NothingSaved
               PROVE  file = MixOf(saving, options, shown)
    BY DEF Stop
  <1>1. FileFollows /\ saving \in 1 .. 6 /\ file \in [Options -> AnyValue]
    <2>1. FileFollows /\ saving \in 0 .. 6 /\ IsSaved(file)
      BY DEF Inv, TypeOK
    <2>2. saving \in 1 .. 6
      BY <2>1
    <2>3. file \in [Options -> AnyValue]
      BY <2>1 DEF IsSaved
    <2>4. QED
      BY <2>1, <2>2, <2>3
  <1>2. step # "write" /\ Kept = file
    BY <1>1 DEF FileFollows, Kept
  <1> DEFINE mix == MixOf(saving, options, shown)
  <1>3. ASSUME NEW o \in Options PROVE file[o] = mix[o]
    <2>1. PICK i \in 1 .. 6 : Order[i] = o
      BY OptionNames
    <2>2. CASE i < saving
      <3>1. i \in 1 .. saving - 1
        BY <1>1, <2>2
      <3>2. mix[o] = options[o]
        BY <2>1, <3>1 DEF MixOf
      <3>3. QED
        BY <1>1, <1>2, <2>1, <2>2, <3>2 DEF FileFollows
    <2>3. CASE i >= saving
      <3>1. \A j \in 1 .. saving - 1 : j \in 1 .. 6 /\ j # i
        BY <1>1, <2>3
      <3>2. ~ \E j \in 1 .. saving - 1 : Order[j] = o
        BY <2>1, <3>1, OrderDistinct
      <3>3. mix[o] = shown[o]
        BY <3>2 DEF MixOf
      <3>4. QED
        BY <1>1, <1>2, <2>1, <2>3, <3>3 DEF FileFollows
    <2>4. QED
      BY <1>1, <2>2, <2>3
  <1>4. mix = [o \in Options |-> mix[o]]
    BY DEF MixOf
  <1> HIDE DEF mix
  <1>5. file = mix
    BY <1>1, <1>3, <1>4
  <1>6. QED
    BY <1>5 DEF mix

\* A stop during a save leaves no options, or the first of the new and the rest of
\* the last ones, however often the process was started, stopped and played before.
THEOREM StopsMixTwo == Spec => InterruptedSave
  <1>1. Inv /\ [Next]_vars
          => [Stop /\ saving # 0 /\ ~torn =>
                file' = NothingSaved \/ file' = MixOf(saving, options, shown)]_vars
    BY StopStep
  <1>2. QED
    BY <1>1, Invariance, PTL DEF Spec, InterruptedSave

\* Each step of Session is a step of the option store, or none.
LEMMA StoreStep ==
  ASSUME Inv, [Next]_vars
  PROVE  Store!Next \/ UNCHANGED Kept
  <1> USE DEF Store!Next, Store!Set, Store!Lose, Store!NothingKept, NothingSaved
  <1>1. TypeOK /\ FileFollows
    BY DEF Inv
  <1>2. KeptStep
    BY <1>1, FileStep
  <1>3. CASE WriteFile
    <2>1. /\ Kept' = [Kept EXCEPT ![Order[saving]] = options[Order[saving]]]
          /\ Order[saving] \in Options
      BY <1>1, <1>3, WriteKeeps
    <2>2. options[Order[saving]] \in Values[Order[saving]]
      BY <1>1, <2>1 DEF TypeOK, IsChoice
    <2>3. QED
      BY <2>1, <2>2 DEF Kept
  <1>4. CASE Kept' = NothingSaved
    BY <1>4 DEF Kept
  <1>5. QED
    BY <1>2, <1>3, <1>4 DEF KeptStep

\* The configuration file is an option store: a save replaces one option and keeps
\* the others, and a process stopped within a save loses all or none.
THEOREM FileIsStore == Spec => ImplementsStore
  <1>1. Init => Store!Init
    BY DEF Init, Store!Init, Store!NothingKept, NothingSaved
  <1>2. Inv /\ [Next]_vars => [Store!Next]_Kept
    BY StoreStep
  <1>3. Inv /\ [Next]_vars => [Store!Next]_(IF step = "write" THEN content ELSE file)
    BY <1>2 DEF Kept
  <1>4. QED
    BY <1>1, <1>3, Invariance, PTL DEF Spec, ImplementsStore, Store!Spec
=============================================================================
