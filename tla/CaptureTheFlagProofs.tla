------------------------ MODULE CaptureTheFlagProofs ------------------------
(***************************************************************************)
(* Who holds a flag is a free enemy and the flag is with him, for any      *)
(* number of players and any map; and what follows for the ways of a flag. *)
(***************************************************************************)
EXTENDS CaptureTheFlag, TLAPS

Inv == TypeOK /\ FlagIsWithHolder

LEMMA PlayersType ==
    /\ NumPlayers \in Nat /\ Players \subseteq Nat \ {0} /\ Own \subseteq Players
    /\ Nobody \notin Players
  BY FlagsAssumption DEF NumPlayers, Players, Own, Nobody

\* A flag after set_player_stats: untouched, with a free enemy, put down where it was, or home.
LEMMA FlagMoves ==
    ASSUME TypeOK, NEW f \in Teams, NEW now \in [Players -> Slot],
           NEW first \in Players \cup {Nobody}, IsFirst(first, Touching(f, now))
    PROVE  LET after == FlagAfter(f, now, first)
           IN \/ after = flag[f] /\ flag[f].by = Nobody
              \/ /\ flag[f].by # Nobody /\ now[flag[f].by].free
                 /\ after = [place |-> now[flag[f].by].place, by |-> flag[f].by]
              \/ flag[f].by # Nobody /\ after = [place |-> flag[f].place, by |-> Nobody]
              \/ /\ flag[f].by = Nobody /\ first \in Touching(f, now) /\ TeamOf(first) # f
                 /\ after = [place |-> now[first].place, by |-> first]
              \/ flag[f].by = Nobody /\ after = Back(f)
PROOF
  <1> DEFINE after == FlagAfter(f, now, first)
  <1>1. flag[f] \in [place : Places, by : Players \cup {Nobody}]
    BY DEF TypeOK
  <1>2. CASE flag[f].by # Nobody
    <2>1. CASE CanHold(now[flag[f].by])
      BY <1>2, <2>1 DEF FlagAfter, CanHold
    <2>2. CASE ~CanHold(now[flag[f].by])
      <3>1. after = [flag[f] EXCEPT !.by = Nobody]
        BY <1>2, <2>2 DEF FlagAfter
      <3>2. after = [place |-> flag[f].place, by |-> Nobody]
        BY <3>1, <1>1
      <3> QED BY <1>2, <3>2
    <2> QED BY <2>1, <2>2
  <1>3. CASE flag[f].by = Nobody /\ first = Nobody
    BY <1>3 DEF FlagAfter
  <1>4. CASE flag[f].by = Nobody /\ first # Nobody
    <2>1. first \in Touching(f, now)
      BY <1>4 DEF IsFirst
    <2> QED BY <1>4, <2>1 DEF FlagAfter
  <1> QED BY <1>2, <1>3, <1>4

LEMMA InitInv == Init => Inv
PROOF
  <1> SUFFICES ASSUME Init PROVE Inv
    OBVIOUS
  <1>1. TypeOK
    BY FlagsAssumption, PlayersType DEF Init, TypeOK, Slot, Teams
  <1>2. FlagIsWithHolder
    BY DEF Init, FlagIsWithHolder
  <1> QED BY <1>1, <1>2 DEF Inv

\* What a step of sync_players_to_teams does: s is what becomes of the slot, first who
\* touches each flag first.
LEMMA SyncPlayerStep ==
    ASSUME SyncPlayer
    PROVE  \E s \in Slot, first \in [Teams -> Players \cup {Nobody}] :
             LET now == [slots EXCEPT ![turn] = s]
             IN /\ Seen(turn, s)
                /\ \A f \in Teams : IsFirst(first[f], Touching(f, now))
                /\ slots' = now
                /\ flag' = [f \in Teams |-> FlagAfter(f, now, first[f])]
PROOF
  <1>1. PICK s \in Slot :
          LET now == [slots EXCEPT ![turn] = s]
          IN /\ Seen(turn, s)
             /\ slots' = now
             /\ \E first \in [Teams -> Touching(1, now) \cup Touching(2, now) \cup {Nobody}] :
                  /\ \A f \in Teams : IsFirst(first[f], Touching(f, now))
                  /\ flag' = [f \in Teams |-> FlagAfter(f, now, first[f])]
    BY DEF SyncPlayer
  <1> DEFINE now == [slots EXCEPT ![turn] = s]
  <1>2. PICK first \in [Teams -> Touching(1, now) \cup Touching(2, now) \cup {Nobody}] :
          /\ \A f \in Teams : IsFirst(first[f], Touching(f, now))
          /\ flag' = [f \in Teams |-> FlagAfter(f, now, first[f])]
    BY <1>1
  <1>3. first \in [Teams -> Players \cup {Nobody}]
    BY DEF Touching
  <1> QED BY <1>1, <1>2, <1>3

LEMMA SyncPlayerType ==
    ASSUME TypeOK, SyncPlayer PROVE TypeOK'
PROOF
  <1> PICK s \in Slot, first \in [Teams -> Players \cup {Nobody}] :
        LET now == [slots EXCEPT ![turn] = s]
        IN /\ Seen(turn, s)
           /\ \A f \in Teams : IsFirst(first[f], Touching(f, now))
           /\ slots' = now
           /\ flag' = [f \in Teams |-> FlagAfter(f, now, first[f])]
    BY SyncPlayerStep
  <1>1. slots' \in [Players -> Slot]
    BY DEF TypeOK
  <1>2. ASSUME NEW f \in Teams
        PROVE flag'[f] \in [place : Places, by : Players \cup {Nobody}]
    <2>1. IsFirst(first[f], Touching(f, slots')) /\ flag'[f] = FlagAfter(f, slots', first[f])
      OBVIOUS
    <2>2. flag[f] \in [place : Places, by : Players \cup {Nobody}]
      BY DEF TypeOK
    <2>3. first[f] \in Players \cup {Nobody}
      OBVIOUS
    <2>4. \A p \in Players : slots'[p].place \in Places
      BY <1>1 DEF Slot
    <2>5. Back(f) \in [place : Places, by : Players \cup {Nobody}]
      BY FlagsAssumption DEF Back
    <2> DEFINE moves ==
          \/ flag'[f] = flag[f]
          \/ flag[f].by # Nobody /\ flag'[f] = [place |-> slots'[flag[f].by].place, by |-> flag[f].by]
          \/ flag'[f] = [place |-> flag[f].place, by |-> Nobody]
          \/ /\ first[f] \in Players
             /\ flag'[f] = [place |-> slots'[first[f]].place, by |-> first[f]]
          \/ flag'[f] = Back(f)
    <2>6. moves
      BY <1>1, <2>1, <2>3, FlagMoves DEF Touching
    <2> QED BY <2>2, <2>4, <2>5, <2>6
  <1>3. flag' \in [Teams -> [place : Places, by : Players \cup {Nobody}]]
    BY <1>2
  <1>4. turn' \in 1 .. NumPlayers + 1
    BY PlayersType DEF SyncPlayer, TypeOK, Players
  <1> QED BY <1>1, <1>3, <1>4 DEF SyncPlayer, TypeOK

LEMMA CalculateScoresType ==
    ASSUME TypeOK, CalculateScores PROVE TypeOK'
PROOF
  <1>1. score' \in [Teams -> Nat]
    BY DEF TypeOK, CalculateScores, ScoreAfter
  <1>2. flag' \in [Teams -> [place : Places, by : Players \cup {Nobody}]]
    BY FlagsAssumption DEF TypeOK, CalculateScores, Back
  <1>3. countdown' \in 0 .. CountdownFrames
    BY FlagsAssumption DEF TypeOK, CalculateScores, CountdownAfter
  <1>4. turn' \in 1 .. NumPlayers + 1
    BY PlayersType DEF CalculateScores
  <1> QED BY <1>1, <1>2, <1>3, <1>4 DEF TypeOK, CalculateScores

\* The holder is looked at in every call, with the slots of that call.
LEMMA SyncPlayerHolder ==
    ASSUME Inv, SyncPlayer PROVE FlagIsWithHolder'
PROOF
  <1> PICK s \in Slot, first \in [Teams -> Players \cup {Nobody}] :
        LET now == [slots EXCEPT ![turn] = s]
        IN /\ Seen(turn, s)
           /\ \A f \in Teams : IsFirst(first[f], Touching(f, now))
           /\ slots' = now
           /\ flag' = [f \in Teams |-> FlagAfter(f, now, first[f])]
    BY SyncPlayerStep
  <1>1. slots' \in [Players -> Slot]
    BY DEF Inv, TypeOK
  <1> SUFFICES ASSUME NEW f \in Teams, flag'[f].by # Nobody
               PROVE  /\ slots'[flag'[f].by].free
                      /\ slots'[flag'[f].by].place = flag'[f].place
                      /\ TeamOf(flag'[f].by) # f
    BY DEF FlagIsWithHolder
  <1>2. IsFirst(first[f], Touching(f, slots')) /\ flag'[f] = FlagAfter(f, slots', first[f])
    OBVIOUS
  <1>3. flag[f].by # Nobody => TeamOf(flag[f].by) # f
    BY DEF Inv, FlagIsWithHolder
  <1>4. \/ flag'[f] = flag[f] /\ flag[f].by = Nobody
        \/ /\ flag[f].by # Nobody /\ slots'[flag[f].by].free
           /\ flag'[f] = [place |-> slots'[flag[f].by].place, by |-> flag[f].by]
        \/ flag'[f] = [place |-> flag[f].place, by |-> Nobody]
        \/ /\ first[f] \in Touching(f, slots') /\ TeamOf(first[f]) # f
           /\ flag'[f] = [place |-> slots'[first[f]].place, by |-> first[f]]
        \/ flag'[f] = Back(f)
    <2> first[f] \in Players \cup {Nobody}
      OBVIOUS
    <2> QED BY <1>1, <1>2, FlagMoves DEF Inv
  <1>5. first[f] \in Touching(f, slots') => slots'[first[f]].free
    BY DEF Touching, CanHold
  <1> QED BY <1>3, <1>4, <1>5 DEF Back

LEMMA CalculateScoresHolder ==
    ASSUME Inv, CalculateScores PROVE FlagIsWithHolder'
PROOF
  <1> SUFFICES ASSUME NEW f \in Teams, flag'[f].by # Nobody
               PROVE  /\ slots'[flag'[f].by].free
                      /\ slots'[flag'[f].by].place = flag'[f].place
                      /\ TeamOf(flag'[f].by) # f
    BY DEF FlagIsWithHolder
  <1>1. flag'[f] = flag[f] /\ slots' = slots
    BY DEF CalculateScores, Back
  <1> QED BY <1>1 DEF Inv, FlagIsWithHolder

LEMMA NextInv == Inv /\ [Next]_vars => Inv'
PROOF
  <1> SUFFICES ASSUME Inv, [Next]_vars PROVE Inv'
    OBVIOUS
  <1>1. CASE SyncPlayer
    BY <1>1, SyncPlayerType, SyncPlayerHolder DEF Inv
  <1>2. CASE CalculateScores
    BY <1>2, CalculateScoresType, CalculateScoresHolder DEF Inv
  <1>3. CASE UNCHANGED vars
    BY <1>3 DEF Inv, TypeOK, FlagIsWithHolder, vars
  <1> QED BY <1>1, <1>2, <1>3 DEF Next, MatchOver

LEMMA Invariance == Spec => []Inv
  BY InitInv, NextInv, PTL DEF Spec

\* For every number of players and every map: who holds a flag is a free enemy, and
\* Places, holders, scores and the countdown stay within their types on every map.
THEOREM FlagsTypeCorrect == Spec => []TypeOK
PROOF
  <1>1. Inv => TypeOK
    BY DEF Inv
  <1> QED BY <1>1, Invariance, PTL

\* the flag is where he is, after each call of the game mode.
THEOREM FlagsAreHeld == Spec => []FlagIsWithHolder
  BY Invariance, PTL DEF Inv

\* The ways of a flag that is held: with its holder, put down, or home.
Ways(f) ==
    \/ flag'[f].by = flag[f].by /\ <<flag[f].place, flag'[f].place>> \in Walk
    \/ flag'[f].by = Nobody /\ flag'[f].place \in {flag[f].place, Home[f]}
    \/ UNCHANGED flag[f]

LEMMA HeldFlagWalks ==
    ASSUME Inv, Next, NEW f \in Teams, flag[f].by \in Own PROVE Ways(f)
PROOF
  <1> DEFINE p == flag[f].by
  <1>1. CASE SyncPlayer
    <2> PICK s \in Slot, first \in [Teams -> Players \cup {Nobody}] :
          LET now == [slots EXCEPT ![turn] = s]
          IN /\ Seen(turn, s)
             /\ \A g \in Teams : IsFirst(first[g], Touching(g, now))
             /\ slots' = now
             /\ flag' = [g \in Teams |-> FlagAfter(g, now, first[g])]
      BY <1>1, SyncPlayerStep
    <2>1. slots' \in [Players -> Slot] /\ slots \in [Players -> Slot] /\ p \in Players
      BY PlayersType DEF Inv, TypeOK
    <2>2. p # Nobody /\ slots[p].free /\ slots[p].place = flag[f].place
      BY PlayersType DEF Inv, FlagIsWithHolder
    <2>3. flag'[f] = FlagAfter(f, slots', first[f])
      OBVIOUS
    <2>4. CASE turn = p /\ slots'[p].free
      <3>1. slots'[p] = s
        BY <2>1, <2>4
      <3>2. <<slots[p].place, s.place>> \in Walk
        BY <2>2, <2>4, <3>1 DEF Seen
      <3>3. flag'[f] = [place |-> s.place, by |-> p]
        BY <2>2, <2>3, <2>4, <3>1 DEF FlagAfter, CanHold
      <3>4. flag'[f].by = flag[f].by /\ flag'[f].place = s.place
        BY <3>3
      <3>5. <<flag[f].place, flag'[f].place>> \in Walk
        BY <2>2, <3>2, <3>4
      <3> QED BY <3>4, <3>5 DEF Ways
    <2>5. CASE turn # p
      <3>1. slots'[p] = slots[p]
        BY <2>1, <2>5
      <3>2. flag'[f] = [place |-> flag[f].place, by |-> flag[f].by]
        BY <2>2, <2>3, <3>1 DEF FlagAfter, CanHold
      <3>3. flag[f] \in [place : Places, by : Players \cup {Nobody}]
        BY DEF Inv, TypeOK
      <3> QED BY <3>2, <3>3 DEF Ways
    <2>6. CASE ~slots'[p].free
      <3>1. flag'[f] = [flag[f] EXCEPT !.by = Nobody]
        BY <2>2, <2>3, <2>6 DEF FlagAfter, CanHold
      <3>2. flag[f] \in [place : Places, by : Players \cup {Nobody}]
        BY DEF Inv, TypeOK
      <3> QED BY <3>1, <3>2 DEF Ways
    <2> QED BY <2>4, <2>5, <2>6
  <1>2. CASE CalculateScores
    BY <1>2 DEF CalculateScores, Back, Ways
  <1>3. CASE MatchOver
    BY <1>3 DEF MatchOver, vars, Ways
  <1> QED BY <1>1, <1>2, <1>3 DEF Next

\* For every map and every way of walking on it: no flag travels by a warp or by a
\* death of its holder, if he is a player of the host.
THEOREM FlagsWalk == Spec => NoTeleport
PROOF
  <1>1. Inv /\ [Next]_vars => [\A f \in Teams : flag[f].by \in Own => Ways(f)]_vars
    BY HeldFlagWalks
  <1> QED BY <1>1, Invariance, PTL DEF Spec, NoTeleport, Ways

\* The first player who touches the flag of the first team is one of its own, if any
\* of them does.
LEMMA OwnTeamFirst ==
    ASSUME NEW first \in Players, NEW S \in SUBSET Players, IsFirst(first, S),
           TeamOf(first) # 1, NEW q \in S
    PROVE  TeamOf(q) # 1
PROOF
  <1>1. TeamOf(first) = 2
    BY DEF TeamOf
  <1>2. q = first \/ Before(first, q)
    BY PlayersType DEF IsFirst
  <1> QED BY <1>1, <1>2 DEF Before

\* For every number of players: while a free player of the first team touches its flag,
\* no enemy takes it.
THEOREM FirstTeamsFlag == Spec => FirstTeamDefends
PROOF
  <1>1. Inv /\ [Next]_vars =>
          [flag[1].by = Nobody /\ flag'[1].by # Nobody =>
              \A p \in Players : TeamOf(p) = 1 /\ slots'[p].free =>
                                   slots'[p].place # flag[1].place]_vars
    <2> SUFFICES ASSUME Inv, Next, flag[1].by = Nobody, flag'[1].by # Nobody,
                        NEW q \in Players, TeamOf(q) = 1, slots'[q].free,
                        slots'[q].place = flag[1].place
                 PROVE  FALSE
      BY Zenon
    <2>1. CASE SyncPlayer
      <3> PICK s \in Slot, first \in [Teams -> Players \cup {Nobody}] :
            LET now == [slots EXCEPT ![turn] = s]
            IN /\ Seen(turn, s)
               /\ \A g \in Teams : IsFirst(first[g], Touching(g, now))
               /\ slots' = now
               /\ flag' = [g \in Teams |-> FlagAfter(g, now, first[g])]
        BY <2>1, SyncPlayerStep
      <3>1. 1 \in Teams
        BY DEF Teams
      <3>2. IsFirst(first[1], Touching(1, slots')) /\ flag'[1] = FlagAfter(1, slots', first[1])
        BY <3>1
      <3>3. q \in Touching(1, slots')
        BY DEF Touching, CanHold
      <3>4. first[1] \in Touching(1, slots')
        BY <3>2, <3>3 DEF IsFirst
      <3>5. TeamOf(first[1]) # 1
        BY <3>2, <3>4, PlayersType DEF FlagAfter, Back, Touching
      <3>6. Touching(1, slots') \subseteq Players
        BY DEF Touching
      <3> QED BY <3>2, <3>3, <3>4, <3>5, <3>6, OwnTeamFirst
    <2>2. CASE CalculateScores
      BY <2>2 DEF CalculateScores, Back, Teams
    <2>3. CASE MatchOver
      BY <2>3 DEF MatchOver, vars
    <2> QED BY <2>1, <2>2, <2>3 DEF Next
  <1> QED BY <1>1, Invariance, PTL DEF Spec, FirstTeamDefends
=============================================================================
