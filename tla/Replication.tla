---------------------------- MODULE Replication ----------------------------
(***************************************************************************)
(* One match seen by all its processes: the host (server, local player and *)
(* bots in one process) and the clients, each running the same frame loop  *)
(* over its own copy of the player table and exchanging UDP datagrams once *)
(* per frame (src/net.c, and the damage, kill and respawn rules of         *)
(* src/projectile.c and src/player.c that write what net.c replicates).    *)
(*                                                                         *)
(* A process is authoritative for the players it OWNS: it alone damages,   *)
(* kills and respawns them, and everybody else copies what it sends.       *)
(* The lists of kills are not replicated: every process keeps its own, and *)
(* adds to it when it sees a copy go from alive to dead.                   *)
(*                                                                         *)
(* Abstracted: positions, weapons and projectiles (a hit by any known      *)
(* shooter of another team may land), the 300 frames of countdown between  *)
(* a win and the main menu (any number of frames), player ids drawn by     *)
(* rand() (taken to be distinct), and what a datagram tells of counts: the *)
(* num_kills of a record, which no receiver reads, and the scores of the   *)
(* teams, which calculate_scores writes anew in a free-for-all.            *)
(***************************************************************************)
EXTENDS Integers, Sequences, FiniteSets, FiniteSetsExt, Functions

CONSTANTS
    Host,           \* the process that hosts, and the id of its own player
    Clients,        \* the processes that join, and the ids of their players
    Bots,           \* the ids of the host's bots, in the order of their slots
    Phantom,        \* the id read from bytes that no client sent
    None,           \* not an id: what last_hurt_by holds before any damage
    Mode,           \* "ffa" (deathmatch, gun game) or "ctf"
    NumTeams,       \* teams of the game mode, numbered from 1; 0 is no team
    MaxHealth,      \* PLAYER_MAX_HEALTH
    RespawnFrames,  \* frames a player stays dead (180)
    WinScore,       \* winning_score(): kills that end the match
    NumSlots,       \* slots of the player table (255)
    HostBacklog,    \* bound: datagrams the host's socket buffers
    ClientBacklog,  \* bound: datagrams a client's socket buffers
    MaxDeaths       \* bound: deaths in the match

Procs == {Host} \union Clients
Players == Procs \union Range(Bots)
Ids == Players \union {Phantom}

ASSUME IdsAssumption ==
    /\ IsFiniteSet(Clients)
    /\ Host \notin Clients
    /\ Bots \in Seq(Range(Bots))
    /\ Range(Bots) \intersect Procs = {}
    /\ \A m, n \in DOMAIN Bots : Bots[m] = Bots[n] => m = n
    /\ Phantom \notin Players
    /\ None \notin Ids

ASSUME BoundsAssumption ==
    /\ Mode \in {"ffa", "ctf"}
    /\ NumTeams \in Nat \ {0}
    /\ Mode = "ctf" => NumTeams = 2
    /\ MaxHealth \in Nat \ {0}
    /\ RespawnFrames \in Nat \ {0}
    /\ WinScore \in Nat \ {0}
    /\ NumSlots \in Nat /\ NumSlots > Len(Bots)
    /\ HostBacklog \in Nat /\ ClientBacklog \in Nat /\ MaxDeaths \in Nat

Owner(i) == IF i \in Clients THEN i ELSE Host
Owned(p) == {i \in Players : Owner(i) = p}

Teams == 1 .. NumTeams

VARIABLES
    pc,         \* pc[p]: where process p is in its frame, or how it left
    roster,     \* roster[p]: the ids of p's assigned slots, in slot order
    health,     \* health[p][i]: health of player i in p's table
    lastHurt,   \* lastHurt[p][i]: last_hurt_by
    team,       \* team[p][i]: team_id, 0 while no team is assigned
    kills,      \* kills[p][i]: the kills list; num_kills is its length
    deadFrames, \* deadFrames[i]: num_frames_dead, at the owner of i
    deaths,     \* deaths[p][i]: history, how often i had died in this state
    addrs,      \* addrs_to_send_to of the host
    toHost,     \* the datagrams in the host's socket, oldest first
    toClient,   \* toClient[c]: the datagrams in c's socket, oldest first
    missed,     \* history: who lost, before he had a slot, all he had sent
                \* for one frame, overwritten in the host's net_buffer
    inbox,      \* inbox[p]: the records found in p's net_buffer
    next        \* next[p]: the record of inbox[p] to be processed next

tables == <<roster, health, lastHurt, team, kills, deaths>>
network == <<addrs, toHost, toClient, missed>>
vars == <<pc, tables, deadFrames, network, inbox, next>>

Stages == {"net", "apply", "teams", "play", "menu", "exit_killer", "exit_team"}
Running == {"net", "apply", "teams", "play"}

\* What get_minimal_player_info and handle_networking put in a datagram. The
\* field deaths is history: the code does not send it.
NetPlayer == [id : Ids, health : 0 .. MaxHealth, lastHurt : Ids \union {None},
              team : 0 .. NumTeams, deaths : Nat]

PlayerKill == [victim : Ids, death : Nat]

TypeOK ==
    /\ pc \in [Procs -> Stages]
    /\ roster \in [Procs -> Seq(Ids) \ {<<>>}]
    /\ health \in [Procs -> [Ids -> 0 .. MaxHealth]]
    /\ lastHurt \in [Procs -> [Ids -> Ids \union {None}]]
    /\ team \in [Procs -> [Ids -> 0 .. NumTeams]]
    /\ kills \in [Procs -> [Ids -> Seq(PlayerKill)]]
    /\ deaths \in [Procs -> [Ids -> Nat]]
    /\ deadFrames \in [Players -> 0 .. RespawnFrames - 1]
    /\ addrs \subseteq Clients
    /\ toHost \in Seq(NetPlayer)
    /\ \A n \in DOMAIN toHost : toHost[n].id \in Clients
    /\ toClient \in [Clients -> Seq(Seq(NetPlayer) \ {<<>>})]
    /\ missed \subseteq Clients
    /\ inbox \in [Procs -> Seq(NetPlayer)]
    /\ next \in [Procs -> Nat \ {0}]
    /\ \A p \in Procs :
          /\ pc[p] = "apply" => next[p] \in 1 .. Len(inbox[p])
          /\ pc[p] \in Running \ {"apply"} => next[p] = 1

-----------------------------------------------------------------------------
(* Teams.                                                                  *)

Known(p) == Range(roster[p])

Members(tm, t) == {i \in Ids : tm[i] = t}

\* add_player_to_team of a free-for-all: an empty team, or none if none is left.
FirstEmptyTeam(tm) ==
    LET empty == {t \in Teams : Members(tm, t) = {}}
    IN IF empty = {} THEN 0 ELSE CHOOSE t \in empty : \A u \in empty : t <= u

\* add_player_to_team of capture the flag.
SmallerTeam(tm) ==
    IF Cardinality(Members(tm, 1)) < Cardinality(Members(tm, 2)) THEN 1 ELSE 2

\* add_player_to_team, given the teams so far.
NewTeam(tm) == IF Mode = "ctf" THEN SmallerTeam(tm) ELSE FirstEmptyTeam(tm)

\* The host's bots get their teams in slot order, its own player comes last.
JoinOrder == Append(Bots, Host)

FirstTeams ==
    {tm \in [Ids -> 0 .. NumTeams] :
        /\ \A i \in Ids \ Range(JoinOrder) : tm[i] = 0
        /\ \A n \in DOMAIN JoinOrder :
              tm[JoinOrder[n]] =
                NewTeam([i \in Ids |-> IF \E m \in 1 .. n - 1 : JoinOrder[m] = i
                                       THEN tm[i] ELSE 0])}

Init ==
    /\ pc = [p \in Procs |-> "net"]
    /\ roster = [p \in Procs |-> IF p = Host THEN <<Host>> \o Bots ELSE <<p>>]
    /\ health = [p \in Procs |-> [i \in Ids |-> IF i \in Owned(p) THEN MaxHealth ELSE 0]]
    /\ lastHurt = [p \in Procs |-> [i \in Ids |-> None]]
    /\ \E tm \in FirstTeams :
          team = [p \in Procs |-> IF p = Host THEN tm ELSE [i \in Ids |-> 0]]
    /\ kills = [p \in Procs |-> [i \in Ids |-> <<>>]]
    /\ deaths = [p \in Procs |-> [i \in Ids |-> 0]]
    /\ deadFrames = [i \in Players |-> 0]
    /\ addrs = {}
    /\ toHost = <<>>
    /\ toClient = [c \in Clients |-> <<>>]
    /\ missed = {}
    /\ inbox = [p \in Procs |-> <<>>]
    /\ next = [p \in Procs |-> 1]

-----------------------------------------------------------------------------
(* Kills and damage.                                                       *)

Live(p) == pc[p] \in Running

Goto(p, stage) == pc' = [pc EXCEPT ![p] = stage]

\* Mutant of KillerFound: the search leaves the host out.
HostNotSearched(v, k, known) == k = v \/ k \in known \ {Host}

\* add_kill: the killer is looked up by last_hurt_by; a suicide counts for
\* nobody. known is the table the lookup searches.
KillerFound(v, k, known) == k = v \/ k \in known

\* Mutant of KillsAfter: only kills of own players are counted.
LocalKillsOnly(p, v, k, death) ==
    IF k = v \/ k \notin Owned(p) THEN kills
    ELSE [kills EXCEPT ![p][k] = Append(@, [victim |-> v, death |-> death])]

KillsAfter(p, v, k, death) ==
    IF k = v THEN kills
    ELSE [kills EXCEPT ![p][k] = Append(@, [victim |-> v, death |-> death])]

\* Mutant of CanHurt: teams are not compared.
HurtsAnybody(p, k, v) == k # v

\* A shot of k may hurt v at p: update_projectiles compares the team the
\* shooter had when he fired with the target's. His own shot can only hit a
\* client that fired it before it had a team.
CanHurt(p, k, v) ==
    IF k = v THEN p \in Clients /\ team[p][v] # 0
    ELSE team[p][k] # team[p][v]

DeathsSoFar == MapThenSumSet(LAMBDA i : deaths[Owner(i)][i], Players)

\* damage_player, called by update_projectiles for a shot of k at v. Copies of
\* other processes' players (is_net_player) are never damaged.
DamagePlayer(p, v, k, damage) ==
    /\ pc[p] = "play"
    /\ v \in Owned(p) /\ v \in Known(p) /\ k \in Known(p)
    /\ CanHurt(p, k, v)
    /\ health[p][v] > 0
    /\ LET left == IF damage >= health[p][v] THEN 0 ELSE health[p][v] - damage
           died == left = 0
       IN /\ died => DeathsSoFar < MaxDeaths
          /\ lastHurt' = [lastHurt EXCEPT ![p][v] = k]
          /\ health' = [health EXCEPT ![p][v] = left]
          /\ deaths' = [deaths EXCEPT ![p][v] = IF died THEN @ + 1 ELSE @]
          /\ kills' = IF died THEN KillsAfter(p, v, k, deaths[p][v] + 1) ELSE kills
    /\ UNCHANGED <<pc, roster, team, deadFrames, network, inbox, next>>

-----------------------------------------------------------------------------
(* handle_networking.                                                      *)

RecordOf(p, i) ==
    [id |-> i, health |-> health[p][i], lastHurt |-> lastHurt[p][i],
     team |-> team[p][i], deaths |-> deaths[p][i]]

\* The list of NetPlayers the server sends: every assigned slot, in order. The
\* ids and scores of the teams, which precede it, are not modelled.
Snapshot == [n \in DOMAIN roster[Host] |-> RecordOf(Host, roster[Host][n])]

\* Garbage read as a NetPlayer: some id, some health, hurt by himself or nobody.
\* The bytes are those of the server's last snapshot. Its records begin at an odd
\* place behind the teams, the places of the buffer are multiples of eight, so
\* what is read there is no player's record and its id no player's.
Garbage == [id : {Phantom}, health : 0 .. MaxHealth, lastHurt : {None, Phantom},
            team : {0}, deaths : {0}]

\* What the server finds in its buffer after reading the datagrams of batch:
\* the first is read to the start of the buffer and every other one to the
\* place behind it, yet the bytes of all are counted. From the third on, the
\* records counted lie over what the buffer held before.
NetPlayersOf(batch) ==
    LET n == Len(batch) IN
    IF n <= 2 THEN {batch}
    ELSE {<<batch[1], batch[n]>> \o g : g \in [1 .. n - 2 -> Garbage]}

\* Who sent datagrams of batch only to places that the later ones take.
Overwritten(batch) ==
    {r.id : r \in Range(batch)} \ {batch[n].id : n \in DOMAIN batch \cap {1, Len(batch)}}

\* The server sends its snapshot to all addresses, of which any may be lost
\* or find the receiver gone or its socket full, then reads all datagrams.
HandleNetworkingHost ==
    /\ pc[Host] = "net"
    /\ \E got \in SUBSET {c \in addrs : Live(c) /\ Len(toClient[c]) < ClientBacklog} :
          toClient' = [c \in Clients |-> IF c \in got THEN Append(toClient[c], Snapshot)
                                         ELSE toClient[c]]
    /\ toHost' = <<>>
    /\ addrs' = addrs \union {r.id : r \in Range(toHost)}
    /\ missed' = missed \union (Overwritten(toHost) \ Known(Host))
    /\ IF toHost = <<>>
       THEN Goto(Host, "play") /\ UNCHANGED inbox
       ELSE /\ Goto(Host, "apply")
            /\ \E records \in NetPlayersOf(toHost) :
                  inbox' = [inbox EXCEPT ![Host] = records]
    /\ UNCHANGED <<tables, deadFrames, next>>

\* A client sends its own record, which the network may lose (a record equal
\* to the last one is not sent at all: to the others that is a loss, too),
\* reads the oldest datagram and throws the one after it away.
HandleNetworkingClient(c) ==
    /\ pc[c] = "net"
    /\ \E sent \in BOOLEAN :
          /\ sent => Live(Host) /\ Len(toHost) < HostBacklog
          /\ toHost' = IF sent THEN Append(toHost, RecordOf(c, c)) ELSE toHost
    /\ LET q == toClient[c] IN
       IF q = <<>>
       THEN Goto(c, "play") /\ UNCHANGED <<toClient, inbox>>
       ELSE /\ Goto(c, "apply")
            /\ inbox' = [inbox EXCEPT ![c] = Head(q)]
            /\ toClient' = [toClient EXCEPT ![c] = SubSeq(q, 3, Len(q))]
    /\ UNCHANGED <<tables, deadFrames, addrs, missed, next>>

\* The loop over the records of the buffer goes on, or ends.
Advance(p) ==
    IF next[p] < Len(inbox[p])
    THEN /\ next' = [next EXCEPT ![p] = @ + 1]
         /\ UNCHANGED <<pc, inbox>>
    ELSE /\ next' = [next EXCEPT ![p] = 1]
         /\ IF p = Host
            THEN Goto(p, "play") /\ inbox' = [inbox EXCEPT ![p] = <<>>]
            ELSE Goto(p, "teams") /\ UNCHANGED inbox

Record(p) == inbox[p][next[p]]

HasSlot(p, i) == i \in Known(p) \/ Len(roster[p]) < NumSlots

\* Mutant of RosterWith: assigned_id is not set.
SlotNotAssigned(p, i) == roster

\* The slot of i, the first free one if it has none yet.
RosterWith(p, i) ==
    IF i \in Known(p) THEN roster ELSE [roster EXCEPT ![p] = Append(@, i)]

\* Mutant of TeamAfter: the host takes teams from its clients.
EverybodyBelieves(p, r) == [team EXCEPT ![p][r.id] = r.team]

\* Mutant of TeamAfter: clients assign teams themselves.
EverybodyAssigns(p, r) ==
    [team EXCEPT ![p][r.id] = IF @ = 0 THEN NewTeam(team[p]) ELSE @]

\* The host assigns a team to a player without one, a client believes the host.
TeamAfter(p, r) ==
    [team EXCEPT ![p][r.id] =
        IF p # Host THEN r.team ELSE IF @ = 0 THEN NewTeam(team[Host]) ELSE @]

\* process_net_packets: no free slot, the record is dropped.
ProcessDropped(p) ==
    /\ pc[p] = "apply"
    /\ ~HasSlot(p, Record(p).id)
    /\ Advance(p)
    /\ UNCHANGED <<tables, deadFrames, network>>

\* process_net_packets: a client's own record only tells it its team.
ProcessOwn(p) ==
    LET r == Record(p) IN
    /\ pc[p] = "apply"
    /\ r.id = p
    /\ team' = IF p = Host THEN team ELSE [team EXCEPT ![p][p] = r.team]
    /\ Advance(p)
    /\ UNCHANGED <<roster, health, lastHurt, kills, deaths, deadFrames, network>>

\* Mutant of SeenDying: a copy that was dead already is not told apart.
SeenDead(p, r) == r.health = 0

\* A copy that was alive is found dead.
SeenDying(p, r) == r.health = 0 /\ health[p][r.id] > 0

\* Mutant of KillerId: last_hurt_by is copied after add_kill.
LastKnownKiller(p, r) == lastHurt[p][r.id]

\* The id add_kill looks for: last_hurt_by is copied from the record before.
KillerId(p, r) == r.lastHurt

\* process_net_packets: the copy of another process's player is overwritten,
\* and a kill is counted when it dies.
ProcessCopy(p) ==
    LET r == Record(p)
        dies == SeenDying(p, r)
    IN
    /\ pc[p] = "apply"
    /\ r.id # p /\ HasSlot(p, r.id)
    /\ dies => KillerFound(r.id, KillerId(p, r), Known(p))
    /\ roster' = RosterWith(p, r.id)
    /\ team' = TeamAfter(p, r)
    /\ lastHurt' = [lastHurt EXCEPT ![p][r.id] = r.lastHurt]
    /\ health' = [health EXCEPT ![p][r.id] = r.health]
    /\ deaths' = [deaths EXCEPT ![p][r.id] = r.deaths]
    /\ kills' = IF dies THEN KillsAfter(p, r.id, KillerId(p, r), r.deaths) ELSE kills
    /\ Advance(p)
    /\ UNCHANGED <<deadFrames, network>>

\* add_kill does not find the killer: the process exits.
ProcessExits(p) ==
    LET r == Record(p) IN
    /\ pc[p] = "apply"
    /\ r.id # p
    /\ SeenDying(p, r)
    /\ ~KillerFound(r.id, KillerId(p, r), Known(p))
    /\ Goto(p, "exit_killer")
    /\ UNCHANGED <<tables, deadFrames, network, inbox, next>>

ProcessNetPacket(p) ==
    ProcessDropped(p) \/ ProcessOwn(p) \/ ProcessCopy(p) \/ ProcessExits(p)

\* Mutant of Placed: find_player_by_id is not asked.
TeamOnly(c, r) == r.team \in Teams

\* A client finds the team and the player of a record.
Placed(c, r) == r.team \in Teams /\ r.id \in Known(c)

\* A client refills its teams from the records, and exits when one has no place.
\* It takes the ids and the scores of the teams from the same datagram.
SyncTeams(c) ==
    /\ pc[c] = "teams"
    /\ IF \A r \in Range(inbox[c]) : Placed(c, r)
       THEN Goto(c, "play")
       ELSE Goto(c, "exit_team")
    /\ inbox' = [inbox EXCEPT ![c] = <<>>]
    /\ UNCHANGED <<tables, deadFrames, network, next>>

-----------------------------------------------------------------------------
(* The end of the frame.                                                   *)

\* The score of a team in a free-for-all, as p counts it.
Score(p, t) ==
    MapThenSumSet(LAMBDA i : Len(kills[p][i]), {i \in Known(p) : team[p][i] = t})

\* Mutant of Won: off by one.
WonOneEarly(p) == Mode = "ctf" \/ \E t \in Teams : Score(p, t) >= WinScore - 1

\* calculate_scores. Flags are captured by positions, which are not modelled:
\* a capture-the-flag match may be won at any time.
Won(p) == Mode = "ctf" \/ \E t \in Teams : Score(p, t) >= WinScore

\* Mutant of DeadAt: is_net_player is not asked.
DeadCopiesToo(p) == {i \in Players : i \in Known(p) /\ health[p][i] = 0}

\* Mutant of DeadAt: only the first slot is looked at.
DeadButNoBots(p) == {i \in {p} : health[p][i] = 0}

\* respawn_players: p's own dead players wait, then come back.
DeadAt(p) == {i \in Owned(p) : i \in Known(p) /\ health[p][i] = 0}

\* Mutant of DueAt: off by one.
DueTooLate(p) == {i \in DeadAt(p) : deadFrames[i] >= RespawnFrames}

DueAt(p) == {i \in DeadAt(p) : deadFrames[i] + 1 >= RespawnFrames}

FinishFrame(p) ==
    /\ pc[p] = "play"
    /\ deadFrames' = [i \in Players |->
          IF i \in DueAt(p) THEN 0
          ELSE IF i \in DeadAt(p) THEN deadFrames[i] + 1 ELSE deadFrames[i]]
    /\ health' = [health EXCEPT ![p] =
          [i \in Ids |-> IF i \in DueAt(p) THEN MaxHealth ELSE @[i]]]
    /\ \E left \in BOOLEAN :
          /\ left => Won(p)
          /\ Goto(p, IF left THEN "menu" ELSE "net")
    /\ UNCHANGED <<roster, lastHurt, team, kills, deaths, network, inbox, next>>

Play(p) == \E v, k \in Ids, damage \in 1 .. MaxHealth : DamagePlayer(p, v, k, damage)

Step(p) == ProcessNetPacket(p) \/ Play(p) \/ FinishFrame(p)

\* Once every process has left, the match is over.
MatchOver == (\A p \in Procs : ~Live(p)) /\ UNCHANGED vars

Next ==
    \/ HandleNetworkingHost
    \/ \E c \in Clients : HandleNetworkingClient(c) \/ SyncTeams(c)
    \/ \E p \in Procs : Step(p)
    \/ MatchOver

Spec == Init /\ [][Next]_vars

\* Fairness: the frame loop of a running process never stops, and a network
\* that loses datagrams does not lose all of them.
FrameFairness ==
    /\ WF_vars(HandleNetworkingHost)
    /\ \A c \in Clients : WF_vars(HandleNetworkingClient(c)) /\ WF_vars(SyncTeams(c))
    /\ \A p \in Procs : WF_vars(ProcessNetPacket(p)) /\ WF_vars(FinishFrame(p))

NetworkFairness ==
    \A c \in Clients :
        /\ SF_vars(HandleNetworkingClient(c) /\ toHost' # toHost)
        /\ SF_vars(HandleNetworkingHost /\ toClient'[c] # toClient[c])

FairSpec == Spec /\ FrameFairness /\ NetworkFairness

-----------------------------------------------------------------------------
(* What makes a match correct.                                             *)

\* Nobody counts a kill that did not happen: each kill a process credits to k
\* (process_net_packets, add_kill) was credited to k by the victim's owner.
KillsAreDeaths ==
    \A p \in Procs, k \in Ids :
        \A e \in Range(kills[p][k]) : e \in Range(kills[Owner(e.victim)][k])

\* A player i with health h, hurt by k and dead d times: if he is dead by
\* another's hand, his owner has credited the kill. A phantom has no killer.
DeathIsCredited(ks, i, h, k, d) ==
    h = 0 /\ k # i =>
        IF i = Phantom THEN k = None
        ELSE k \in Ids /\ [victim |-> i, death |-> d] \in Range(ks[Owner(i)][k])

CreditedRecord(ks, r) == DeathIsCredited(ks, r.id, r.health, r.lastHurt, r.deaths)

\* A dead player names the killer his owner credited, wherever he is seen: in
\* any table, in a socket or in a buffer (damage_player sets last_hurt_by and
\* adds the kill before anything is sent).
DeadAreCredited ==
    /\ \A p \in Procs : \A i \in Known(p) :
          DeathIsCredited(kills, i, health[p][i], lastHurt[p][i], deaths[p][i])
    /\ \A n \in DOMAIN toHost : CreditedRecord(kills, toHost[n])
    /\ \A c \in Clients : \A m \in DOMAIN toClient[c] :
          \A n \in DOMAIN toClient[c][m] : CreditedRecord(kills, toClient[c][m][n])
    /\ \A p \in Procs : \A n \in DOMAIN inbox[p] : CreditedRecord(kills, inbox[p][n])

\* No process counts the same death twice, for the same or for another killer,
\* however often and late the datagrams that show it arrive, in order.
NoDoubleKill ==
    \A p \in Procs, k, l \in Ids :
        \A m \in DOMAIN kills[p][k], n \in DOMAIN kills[p][l] :
            kills[p][k][m] = kills[p][l][n] => k = l /\ m = n

\* The kills of k that happened, each counted by the owner of its victim.
RealKills(k) ==
    UNION {{e \in Range(kills[o][k]) : Owner(e.victim) = o} : o \in Procs}

\* A process that leaves for the main menu does so because somebody really
\* made enough kills, not by its own miscount (calculate_scores).
VictoryIsReal ==
    Mode = "ffa" =>
        \A p \in Procs : pc[p] = "menu" => \E k \in Ids : Cardinality(RealKills(k)) >= WinScore

\* The server's own lookup of a killer (add_kill) never fails for a player: every
\* id that a client can name in last_hurt_by was relayed by the server itself. Only
\* bytes that nobody sent can end it.
HostExitsByGarbage == pc[Host] = "exit_killer" => Record(Host).id = Phantom

\* No client exits in the synchronisation of teams: the records it gets carry
\* teams of the mode and ids that have a slot (handle_networking).
NoTeamExit == \A c \in Clients : pc[c] # "exit_team"

\* Who plays with others can be seen by them: a client that the full table of the
\* server has no slot for leaves with its first snapshot (handle_networking), it
\* does not play on among players who do not know it (process_net_packets). The
\* exception is a client whose first datagrams the server has overwritten: it is
\* sent to, and plays on, before it has a slot.
NoSpectators ==
    \A c \in Clients :
        pc[c] \in {"net", "play"} /\ Known(c) # {c} => c \in Known(Host) \/ c \in missed

\* A client that gives a player a team gives him the server's.
TeamAgreement ==
    \A c \in Clients, i \in Ids : team[c][i] # 0 => team[c][i] = team[Host][i]

\* Nobody is killed by a member of his own team, though each victim is judged
\* by its owner with the owner's view of the teams (update_projectiles). The
\* exception are clients whose first datagrams the server has overwritten: they
\* fight without a team, and may be given that of their killer later.
NoFriendlyKills ==
    \A p \in Procs, k \in Ids :
        \A e \in Range(kills[p][k]) :
            e.victim \notin missed => team[Host][k] # team[Host][e.victim]

\* The life of a player in order: dead of death d, alive after it, dead of d + 1.
NotLater(d1, h1, d2, h2) == d1 < d2 \/ (d1 = d2 /\ (h1 > 0 => h2 > 0))

\* A copy never goes back to an earlier point of the player's life, so no old
\* datagram revives a player or kills him again (process_net_packets). Sockets keep
\* the order of datagrams here, which UDP does not promise.
CopiesNeverGoBack ==
    [][\A p \in Procs : \A i \in Players \ Owned(p) :
          NotLater(deaths[p][i], health[p][i], deaths'[p][i], health'[p][i])]_vars

\* A copy is never ahead of the player: only its owner kills or revives him.
CopiesNotAhead ==
    \A p \in Procs : \A i \in Known(p) \ {Phantom} :
        NotLater(deaths[p][i], health[p][i], deaths[Owner(i)][i], health[Owner(i)][i])

\* The kill counts of all processes together implement the abstract scoreboard:
\* each count grows by one kill that happened and was not counted there before.
ScoreboardKill(k, e) == [killer |-> k, victim |-> e.victim, death |-> e.death]

Board == INSTANCE Scoreboard WITH
    Deaths <- 1 .. MaxDeaths,
    happened <- UNION {{ScoreboardKill(k, e) : e \in RealKills(k)} : k \in Ids},
    seen <- [p \in Procs |->
                UNION {{ScoreboardKill(k, e) : e \in Range(kills[p][k])} : k \in Ids}],
    score <- [p \in Procs |-> [k \in Ids |-> Len(kills[p][k])]]

ImplementsScoreboard == Board!Spec

\* A dead player comes back, or his process is gone (respawn_players).
DeadComeBack ==
    \A i \in Players : (health[Owner(i)][i] = 0) ~> (health[Owner(i)][i] > 0 \/ ~Live(Owner(i)))

\* A client that keeps sending gets its team from the server, if neither of them
\* comes to the end of the match before; no error exit keeps it from it.
ClientsJoin ==
    \A c \in Clients : <>(team[c][c] # 0 \/ pc[c] = "menu" \/ ~Live(Host))

-----------------------------------------------------------------------------
(* What the code says of itself and does not do.                           *)

\* "Couldn't find killer player" (src/projectile.c:33) is an error exit that
\* no process should come to.
KillerAlwaysFound == \A p \in Procs : pc[p] # "exit_killer"
=============================================================================
