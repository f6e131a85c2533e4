------------------------- MODULE ReplicationProofs -------------------------
(***************************************************************************)
(* Theorems about Replication for every finite set of clients, every number*)
(* of bots, teams and slots, and every capacity of the sockets: its types  *)
(* are right, clients have the teams that the server gave, and no process  *)
(* counts a kill that did not happen.                                      *)
(*                                                                         *)
(* However many datagrams the server finds waiting, it knows the killer of *)
(* every player it is told of. Every client that plays with others has a   *)
(* slot and its team, and nobody is killed by his own team, but for the    *)
(* clients whose first datagrams the server has overwritten. With slots    *)
(* and teams enough no client exits for the want of a team.                *)
(***************************************************************************)
EXTENDS Replication, SequenceTheorems, WellFoundedInduction, FiniteSetTheorems, TLAPS

USE DEF vars, tables, network

-----------------------------------------------------------------------------
(* The helpers.                                                            *)

\* Ids and their owners.
LEMMA IdFacts ==
  /\ Host \in Procs /\ Host \in Ids
  /\ Procs \subseteq Ids /\ Players \subseteq Ids /\ Procs \subseteq Players
  /\ \A i \in Ids : Owner(i) \in Procs
  /\ \A p \in Procs : Owner(p) = p
  /\ Host \notin Clients /\ Phantom \notin Procs
  BY IdsAssumption DEF Procs, Ids, Players, Owner

\* What a sequence holds is in the set it is a sequence of.
LEMMA ElementIn ==
  ASSUME NEW S, NEW s \in Seq(S), NEW n \in DOMAIN s PROVE s[n] \in S
  OBVIOUS

\* What is left of a client's datagrams after the first one and the one behind it.
LEMMA DatagramsLeft ==
  ASSUME NEW S, NEW q \in Seq(S), q # <<>>
  PROVE  /\ 1 \in DOMAIN q /\ Head(q) = q[1]
         /\ SubSeq(q, 3, Len(q)) \in Seq(S)
         /\ \A m \in DOMAIN SubSeq(q, 3, Len(q)) : m + 2 \in DOMAIN q
                                                 /\ SubSeq(q, 3, Len(q))[m] = q[m + 2]
  OBVIOUS

\* A record made from a table of the right type is a NetPlayer.
LEMMA RecordType ==
  ASSUME TypeOK, NEW p \in Procs, NEW i \in Ids
  PROVE  RecordOf(p, i) \in NetPlayer
  BY DEF TypeOK, RecordOf, NetPlayer

LEMMA SnapshotType ==
  ASSUME TypeOK
  PROVE  Snapshot \in Seq(NetPlayer) \ {<<>>}
  <1>1. roster[Host] \in Seq(Ids) /\ Len(roster[Host]) # 0
    BY IdFacts DEF TypeOK
  <1>2. \A n \in 1 .. Len(roster[Host]) : RecordOf(Host, roster[Host][n]) \in NetPlayer
    BY <1>1, IdFacts, RecordType
  <1>3. QED
    BY <1>1, <1>2 DEF Snapshot

LEMMA GarbageType == Garbage \subseteq NetPlayer
  BY BoundsAssumption DEF Garbage, NetPlayer, Ids

\* Of more than two datagrams the server finds the first, the last and garbage.
LEMMA NetPlayersShape ==
  ASSUME NEW batch \in Seq(NetPlayer), Len(batch) > 2, NEW records \in NetPlayersOf(batch)
  PROVE  /\ records \in Seq(NetPlayer)
         /\ Len(records) = Len(batch)
         /\ records[1] = batch[1] /\ records[2] = batch[Len(batch)]
         /\ \A n \in 3 .. Len(batch) : records[n] \in Garbage
  <1> DEFINE ends == <<batch[1], batch[Len(batch)]>>
  <1>1. PICK g \in [1 .. Len(batch) - 2 -> Garbage] : records = ends \o g
    <2>1. Len(batch) \in Nat /\ ~(Len(batch) <= 2)
      OBVIOUS
    <2>2. NetPlayersOf(batch) = {ends \o g : g \in [1 .. Len(batch) - 2 -> Garbage]}
      BY <2>1, Zenon DEF NetPlayersOf
    <2>3. QED
      BY <2>2, Zenon
  <1>2. Garbage \subseteq NetPlayer
    BY GarbageType
  <1>3. g \in Seq(NetPlayer) /\ Len(g) = Len(batch) - 2
    <2>1. Len(batch) - 2 \in Nat
      OBVIOUS
    <2>2. g \in [1 .. Len(batch) - 2 -> NetPlayer]
      BY <1>2
    <2>3. QED
      BY <2>1, <2>2
  <1>4. ends \in Seq(NetPlayer) /\ Len(ends) = 2
    <2>1. batch[1] \in NetPlayer /\ batch[Len(batch)] \in NetPlayer
      OBVIOUS
    <2>2. QED
      BY <2>1
  <1>5. ends[1] = batch[1] /\ ends[2] = batch[Len(batch)]
    OBVIOUS
  <1> HIDE DEF ends
  <1>6. /\ records \in Seq(NetPlayer)
        /\ Len(records) = Len(batch)
        /\ \A n \in 1 .. Len(batch) : records[n] = IF n <= 2 THEN ends[n] ELSE g[n - 2]
    <2>1. /\ ends \o g \in Seq(NetPlayer)
          /\ Len(ends \o g) = Len(ends) + Len(g)
          /\ \A n \in 1 .. Len(ends) + Len(g) :
                (ends \o g)[n] = IF n <= Len(ends) THEN ends[n] ELSE g[n - Len(ends)]
      BY <1>3, <1>4, ConcatProperties
    <2>2. Len(ends) + Len(g) = Len(batch)
      BY <1>3, <1>4
    <2>3. QED
      BY <1>1, <1>4, <2>1, <2>2
  <1>7. records[1] = batch[1] /\ records[2] = batch[Len(batch)]
    BY <1>5, <1>6
  <1>8. ASSUME NEW n \in 3 .. Len(batch) PROVE records[n] \in Garbage
    <2>1. n \in 1 .. Len(batch) /\ ~(n <= 2) /\ n - 2 \in 1 .. Len(batch) - 2
      OBVIOUS
    <2>2. QED
      BY <1>1, <1>6, <2>1
  <1>9. QED
    BY <1>6, <1>7, <1>8

\* Whatever the server reads from its buffer is a list of NetPlayers, as long
\* as the datagrams, with nothing but garbage added.
LEMMA NetPlayersType ==
  ASSUME NEW batch \in Seq(NetPlayer), NEW records \in NetPlayersOf(batch)
  PROVE  /\ records \in Seq(NetPlayer)
         /\ Len(records) = Len(batch)
         /\ \A n \in 1 .. Len(records) :
               records[n] \in Range(batch) \/ records[n] \in Garbage
  <1>1. CASE Len(batch) <= 2
    BY <1>1 DEF NetPlayersOf, Range
  <1>2. CASE Len(batch) > 2
    <2>1. /\ records \in Seq(NetPlayer) /\ Len(records) = Len(batch)
          /\ records[1] = batch[1] /\ records[2] = batch[Len(batch)]
          /\ \A n \in 3 .. Len(batch) : records[n] \in Garbage
      BY <1>2, NetPlayersShape
    <2>2. 1 \in DOMAIN batch /\ Len(batch) \in DOMAIN batch
      BY <1>2
    <2>3. batch[1] \in Range(batch) /\ batch[Len(batch)] \in Range(batch)
      BY <2>2, Zenon DEF Range
    <2>4. \A n \in 1 .. Len(batch) : n = 1 \/ n = 2 \/ n \in 3 .. Len(batch)
      BY <1>2
    <2>5. QED
      BY <2>1, <2>3, <2>4
  <1>3. QED
    BY <1>1, <1>2

\* A set of naturals with a member has a least one.
LEMMA LeastNatural ==
  ASSUME NEW S \in SUBSET Nat, S # {}
  PROVE  \E n \in S : \A m \in S : n <= m
  <1>1. PICK n \in S : \A m \in S : <<m, n>> \notin OpToRel(<, Nat)
    BY NatLessThanWellFounded, WFMin
  <1>2. \A m \in S : ~(m < n)
    BY <1>1, Zenon DEF OpToRel
  <1>3. QED
    BY <1>2

\* A player gets a team of the mode or none.
LEMMA NewTeamType ==
  ASSUME NEW tm PROVE NewTeam(tm) \in 0 .. NumTeams
  <1>1. CASE Mode = "ctf"
    BY <1>1, BoundsAssumption DEF NewTeam, SmallerTeam, FirstEmptyTeam
  <1>2. CASE Mode # "ctf"
    <2> DEFINE empty == {t \in Teams : Members(tm, t) = {}}
    <2>1. CASE empty = {}
      BY <1>2, <2>1, BoundsAssumption DEF NewTeam, SmallerTeam, FirstEmptyTeam
    <2>2. CASE empty # {}
      <3>1. empty \in SUBSET Nat
        BY DEF Teams
      <3>2. \E t \in empty : \A u \in empty : t <= u
        BY <2>2, <3>1, LeastNatural
      <3>3. (CHOOSE t \in empty : \A u \in empty : t <= u) \in Teams
        BY <3>2
      <3>4. QED
        BY <1>2, <2>2, <3>3, BoundsAssumption DEF NewTeam, FirstEmptyTeam, Teams
    <2>3. QED
      BY <2>1, <2>2
  <1>3. QED
    BY <1>1, <1>2

-----------------------------------------------------------------------------
(* Type correctness.                                                       *)

LEMMA InitType == Init => TypeOK
  <1> SUFFICES ASSUME Init PROVE TypeOK
    OBVIOUS
  <1>1. roster \in [Procs -> Seq(Ids) \ {<<>>}]
    <2>1. Bots \in Seq(Ids)
      BY IdsAssumption DEF Ids, Players, Range
    <2>2. QED
      BY <2>1, IdFacts DEF Init
  <1>2. health \in [Procs -> [Ids -> 0 .. MaxHealth]]
    BY BoundsAssumption DEF Init
  <1>3. team \in [Procs -> [Ids -> 0 .. NumTeams]]
    BY BoundsAssumption DEF Init, FirstTeams
  <1>4. kills \in [Procs -> [Ids -> Seq(PlayerKill)]]
    BY DEF Init
  <1>5. /\ pc \in [Procs -> Stages]
        /\ lastHurt \in [Procs -> [Ids -> Ids \union {None}]]
        /\ deaths \in [Procs -> [Ids -> Nat]]
        /\ deadFrames \in [Players -> 0 .. RespawnFrames - 1]
        /\ addrs \subseteq Clients /\ missed \subseteq Clients
    BY BoundsAssumption DEF Init, Stages
  <1>6. /\ toHost \in Seq(NetPlayer)
        /\ toClient \in [Clients -> Seq(Seq(NetPlayer) \ {<<>>})]
        /\ inbox \in [Procs -> Seq(NetPlayer)]
        /\ next \in [Procs -> Nat \ {0}]
        /\ \A n \in DOMAIN toHost : toHost[n].id \in Clients
        /\ \A p \in Procs :
              /\ pc[p] = "apply" => next[p] \in 1 .. Len(inbox[p])
              /\ pc[p] \in Running \ {"apply"} => next[p] = 1
    BY DEF Init
  <1>7. QED
    BY <1>1, <1>2, <1>3, <1>4, <1>5, <1>6 DEF TypeOK

\* The stages of the processes and the loop over the records keep their types.
StageTypes ==
    /\ pc \in [Procs -> Stages]
    /\ inbox \in [Procs -> Seq(NetPlayer)]
    /\ next \in [Procs -> Nat \ {0}]
    /\ \A p \in Procs :
          /\ pc[p] = "apply" => next[p] \in 1 .. Len(inbox[p])
          /\ pc[p] \in Running \ {"apply"} => next[p] = 1

\* The tables and timers keep their types.
TableTypes ==
    /\ roster \in [Procs -> Seq(Ids) \ {<<>>}]
    /\ health \in [Procs -> [Ids -> 0 .. MaxHealth]]
    /\ lastHurt \in [Procs -> [Ids -> Ids \union {None}]]
    /\ team \in [Procs -> [Ids -> 0 .. NumTeams]]
    /\ kills \in [Procs -> [Ids -> Seq(PlayerKill)]]
    /\ deaths \in [Procs -> [Ids -> Nat]]
    /\ deadFrames \in [Players -> 0 .. RespawnFrames - 1]

\* The network keeps its types.
NetworkTypes ==
    /\ addrs \subseteq Clients /\ missed \subseteq Clients
    /\ toHost \in Seq(NetPlayer)
    /\ \A n \in DOMAIN toHost : toHost[n].id \in Clients
    /\ toClient \in [Clients -> Seq(Seq(NetPlayer) \ {<<>>})]

LEMMA TypeParts == TypeOK <=> StageTypes /\ TableTypes /\ NetworkTypes
  BY DEF TypeOK, StageTypes, TableTypes, NetworkTypes

LEMMA AdvanceType ==
  ASSUME StageTypes, NEW p \in Procs, pc[p] = "apply", Advance(p)
  PROVE  StageTypes'
  <1>1. CASE next[p] < Len(inbox[p])
    <2>1. next' = [next EXCEPT ![p] = @ + 1] /\ pc' = pc /\ inbox' = inbox
      BY <1>1 DEF Advance
    <2>2. next[p] + 1 \in 1 .. Len(inbox[p])
      BY <1>1 DEF StageTypes
    <2>3. QED
      BY <2>1, <2>2 DEF StageTypes
  <1>2. CASE ~(next[p] < Len(inbox[p]))
    <2>1. /\ next' = [next EXCEPT ![p] = 1]
          /\ inbox' = [inbox EXCEPT ![p] = <<>>] \/ inbox' = inbox
          /\ pc' = [pc EXCEPT ![p] = IF p = Host THEN "play" ELSE "teams"]
      BY <1>2 DEF Advance, Goto
    <2>2. /\ pc' \in [Procs -> Stages]
          /\ pc'[p] # "apply"
          /\ \A q \in Procs \ {p} : pc'[q] = pc[q]
      <3> DEFINE s == IF p = Host THEN "play" ELSE "teams"
      <3>1. s \in Stages /\ s # "apply"
        BY DEF Stages
      <3>2. pc' = [pc EXCEPT ![p] = s]
        BY <2>1
      <3> HIDE DEF s
      <3>3. QED
        BY <3>1, <3>2 DEF StageTypes
    <2>3. inbox' \in [Procs -> Seq(NetPlayer)] /\ \A q \in Procs \ {p} : inbox'[q] = inbox[q]
      <3>1. CASE inbox' = inbox
        BY <3>1 DEF StageTypes
      <3>2. CASE inbox' = [inbox EXCEPT ![p] = <<>>]
        <4>1. <<>> \in Seq(NetPlayer)
          OBVIOUS
        <4>2. QED
          BY <3>2, <4>1 DEF StageTypes
      <3>3. QED
        BY <2>1, <3>1, <3>2
    <2>4. next' \in [Procs -> Nat \ {0}] /\ next'[p] = 1 /\ \A q \in Procs \ {p} : next'[q] = next[q]
      BY <2>1 DEF StageTypes
    <2>5. QED
      BY <2>2, <2>3, <2>4 DEF StageTypes
  <1>3. QED
    BY <1>1, <1>2

\* Buffers are only read or emptied by the loop over the records.
LEMMA AdvanceInbox ==
  ASSUME TypeOK, NEW p \in Procs, Advance(p)
  PROVE  \A q \in Procs : inbox'[q] = inbox[q] \/ inbox'[q] = <<>>
  <1>1. DOMAIN inbox = Procs
    BY DEF TypeOK
  <1>2. CASE inbox' = inbox
    BY <1>2
  <1>3. CASE inbox' = [inbox EXCEPT ![p] = <<>>]
    BY <1>1, <1>3
  <1>4. inbox' = inbox \/ inbox' = [inbox EXCEPT ![p] = <<>>]
    <2>1. CASE next[p] < Len(inbox[p])
      BY <2>1 DEF Advance
    <2>2. CASE ~(next[p] < Len(inbox[p])) /\ p = Host
      BY <2>2 DEF Advance
    <2>3. CASE ~(next[p] < Len(inbox[p])) /\ p # Host
      BY <2>3 DEF Advance
    <2>4. QED
      BY <2>1, <2>2, <2>3
  <1>5. QED
    BY <1>2, <1>3, <1>4

\* The record under the loop is a NetPlayer.
LEMMA RecordIsNetPlayer ==
  ASSUME TypeOK, NEW p \in Procs, pc[p] = "apply"
  PROVE  /\ Record(p) \in NetPlayer
         /\ Record(p).id \in Ids
         /\ Record(p).health \in 0 .. MaxHealth
         /\ Record(p).lastHurt \in Ids \union {None}
         /\ Record(p).team \in 0 .. NumTeams
         /\ Record(p).deaths \in Nat
  <1>1. inbox[p] \in Seq(NetPlayer) /\ next[p] \in 1 .. Len(inbox[p])
    BY DEF TypeOK
  <1>2. Record(p) \in NetPlayer
    BY <1>1 DEF Record
  <1>3. QED
    BY <1>2 DEF NetPlayer

\* Counting a kill keeps the kill lists well typed, and changes one of them.
LEMMA KillsType ==
  ASSUME TypeOK, NEW p \in Procs, NEW v \in Ids, NEW k \in Ids, NEW death \in Nat
  PROVE  KillsAfter(p, v, k, death) \in [Procs -> [Ids -> Seq(PlayerKill)]]
  <1>1. [victim |-> v, death |-> death] \in PlayerKill
    BY DEF PlayerKill
  <1>2. Append(kills[p][k], [victim |-> v, death |-> death]) \in Seq(PlayerKill)
    BY <1>1 DEF TypeOK
  <1>3. QED
    BY <1>2 DEF KillsAfter, TypeOK

LEMMA DamageType ==
  ASSUME TypeOK, NEW p \in Procs, NEW v \in Ids, NEW k \in Ids,
         NEW damage \in 1 .. MaxHealth, DamagePlayer(p, v, k, damage)
  PROVE  TypeOK'
  <1> DEFINE left == IF damage >= health[p][v] THEN 0 ELSE health[p][v] - damage
  <1>1. left \in 0 .. MaxHealth
    <2>1. health[p][v] \in 0 .. MaxHealth /\ MaxHealth \in Nat
      BY BoundsAssumption DEF TypeOK
    <2>2. QED
      BY <2>1
  <1>2. /\ lastHurt' = [lastHurt EXCEPT ![p][v] = k]
        /\ health' = [health EXCEPT ![p][v] = left]
        /\ deaths' = [deaths EXCEPT ![p][v] = IF left = 0 THEN @ + 1 ELSE @]
        /\ kills' = IF left = 0 THEN KillsAfter(p, v, k, deaths[p][v] + 1) ELSE kills
        /\ UNCHANGED <<pc, roster, team, deadFrames, network, inbox, next>>
    BY DEF DamagePlayer
  <1> HIDE DEF left
  <1>3. deaths[p][v] + 1 \in Nat
    <2>1. deaths[p][v] \in Nat
      BY DEF TypeOK
    <2>2. QED
      BY <2>1
  <1>4. kills' \in [Procs -> [Ids -> Seq(PlayerKill)]]
    BY <1>2, <1>3, KillsType DEF TypeOK
  <1>5. TableTypes'
    <2>1. health' \in [Procs -> [Ids -> 0 .. MaxHealth]]
      BY <1>1, <1>2 DEF TypeOK
    <2>2. lastHurt' \in [Procs -> [Ids -> Ids \union {None}]]
      BY <1>2 DEF TypeOK
    <2>3. deaths' \in [Procs -> [Ids -> Nat]]
      BY <1>2, <1>3 DEF TypeOK
    <2>4. QED
      BY <1>2, <1>4, <2>1, <2>2, <2>3 DEF TypeOK, TableTypes
  <1>6. StageTypes' /\ NetworkTypes'
    BY <1>2, TypeParts DEF StageTypes, NetworkTypes
  <1>7. QED
    BY <1>5, <1>6, TypeParts DEF TypeOK, StageTypes, TableTypes, NetworkTypes

LEMMA HostNetType ==
  ASSUME TypeOK, HandleNetworkingHost
  PROVE  TypeOK'
  <1>1. toClient' \in [Clients -> Seq(Seq(NetPlayer) \ {<<>>})]
    <2>1. PICK got : toClient' = [c \in Clients |-> IF c \in got THEN Append(toClient[c], Snapshot)
                                                    ELSE toClient[c]]
      BY DEF HandleNetworkingHost
    <2>2. \A c \in Clients : Append(toClient[c], Snapshot) \in Seq(Seq(NetPlayer) \ {<<>>})
      BY SnapshotType DEF TypeOK
    <2>3. QED
      BY <2>1, <2>2 DEF TypeOK
  <1>2. toHost' \in Seq(NetPlayer) /\ \A n \in DOMAIN toHost' : toHost'[n].id \in Clients
    BY DEF HandleNetworkingHost
  <1>3. addrs' \subseteq Clients /\ missed' \subseteq Clients
    <2>1. \A r \in Range(toHost) : r.id \in Clients
      BY DEF TypeOK, Range
    <2>2. /\ addrs' = addrs \union {r.id : r \in Range(toHost)}
          /\ missed' = missed \union (Overwritten(toHost) \ Known(Host))
      BY DEF HandleNetworkingHost
    <2>3. Overwritten(toHost) \subseteq Clients
      BY <2>1 DEF Overwritten
    <2>4. QED
      BY <2>1, <2>2, <2>3 DEF TypeOK
  <1>4. StageTypes'
    <2>1. CASE toHost = <<>>
      <3>1. pc' = [pc EXCEPT ![Host] = "play"] /\ inbox' = inbox /\ next' = next
        BY <2>1 DEF HandleNetworkingHost, Goto
      <3>2. next[Host] = 1
        BY IdFacts DEF HandleNetworkingHost, TypeOK, Running
      <3>3. QED
        BY <3>1, <3>2, IdFacts, TypeParts DEF StageTypes, Stages
    <2>2. CASE toHost # <<>>
      <3>1. PICK records \in NetPlayersOf(toHost) :
               /\ pc' = [pc EXCEPT ![Host] = "apply"]
               /\ inbox' = [inbox EXCEPT ![Host] = records]
               /\ next' = next
        BY <2>2 DEF HandleNetworkingHost, Goto
      <3>2. records \in Seq(NetPlayer) /\ Len(records) \in Nat \ {0}
        BY <2>2, NetPlayersType DEF TypeOK
      <3>3. next[Host] = 1
        BY IdFacts DEF HandleNetworkingHost, TypeOK, Running
      <3>4. QED
        BY <3>1, <3>2, <3>3, IdFacts, TypeParts DEF StageTypes, Stages
    <2>3. QED
      BY <2>1, <2>2
  <1>5. TableTypes'
    BY TypeParts DEF HandleNetworkingHost, TableTypes
  <1>6. QED
    BY <1>1, <1>2, <1>3, <1>4, <1>5, TypeParts DEF TypeOK, StageTypes, TableTypes, NetworkTypes

LEMMA ClientNetType ==
  ASSUME TypeOK, NEW c \in Clients, HandleNetworkingClient(c)
  PROVE  TypeOK'
  <1>0. c \in Procs
    BY DEF Procs
  <1>1. NetworkTypes'
    <2>1. toHost' \in Seq(NetPlayer) /\ \A n \in DOMAIN toHost' : toHost'[n].id \in Clients
      <3>1. RecordOf(c, c) \in NetPlayer /\ RecordOf(c, c).id = c
        BY <1>0, IdFacts, RecordType DEF RecordOf
      <3>2. toHost' = toHost \/ toHost' = Append(toHost, RecordOf(c, c))
        BY DEF HandleNetworkingClient
      <3>3. CASE toHost' = Append(toHost, RecordOf(c, c))
        <4> DEFINE r == RecordOf(c, c)
        <4> HIDE DEF r
        <4>1. toHost \in Seq(NetPlayer) /\ r \in NetPlayer
          BY <3>1 DEF TypeOK, r
        <4>2. toHost' = Append(toHost, r)
          BY <3>3 DEF r
        <4>3. \A n \in DOMAIN toHost' : toHost'[n] = r \/ (n \in DOMAIN toHost /\ toHost'[n] = toHost[n])
          BY <4>1, <4>2
        <4>4. r.id \in Clients /\ \A n \in DOMAIN toHost : toHost[n].id \in Clients
          BY <3>1 DEF TypeOK, r
        <4>5. QED
          BY <4>1, <4>2, <4>3, <4>4
      <3>4. QED
        BY <3>2, <3>3 DEF TypeOK
    <2>2. toClient' \in [Clients -> Seq(Seq(NetPlayer) \ {<<>>})]
      <3> DEFINE q == toClient[c]
      <3>1. q \in Seq(Seq(NetPlayer) \ {<<>>})
        BY DEF TypeOK
      <3>2. q # <<>> => SubSeq(q, 3, Len(q)) \in Seq(Seq(NetPlayer) \ {<<>>})
        BY <3>1, DatagramsLeft
      <3>3. QED
        BY <3>2 DEF HandleNetworkingClient, TypeOK
    <2>3. QED
      BY <2>1, <2>2 DEF HandleNetworkingClient, TypeOK, NetworkTypes
  <1>2. StageTypes'
    <2>0. next[c] = 1 /\ next' = next
      BY <1>0 DEF HandleNetworkingClient, TypeOK, Running
    <2>1. CASE toClient[c] = <<>>
      <3>1. pc' = [pc EXCEPT ![c] = "play"] /\ inbox' = inbox
        BY <2>1 DEF HandleNetworkingClient, Goto
      <3>2. QED
        BY <1>0, <2>0, <3>1, TypeParts DEF StageTypes, Stages
    <2>2. CASE toClient[c] # <<>>
      <3>1. /\ pc' = [pc EXCEPT ![c] = "apply"]
            /\ inbox' = [inbox EXCEPT ![c] = Head(toClient[c])]
        BY <2>2 DEF HandleNetworkingClient, Goto
      <3>2. Head(toClient[c]) \in Seq(NetPlayer) /\ Len(Head(toClient[c])) \in Nat \ {0}
        BY <2>2 DEF TypeOK
      <3>3. QED
        BY <1>0, <2>0, <3>1, <3>2, TypeParts DEF StageTypes, Stages
    <2>3. QED
      BY <2>1, <2>2
  <1>3. TableTypes'
    BY TypeParts DEF HandleNetworkingClient, TableTypes
  <1>4. QED
    BY <1>1, <1>2, <1>3, TypeParts DEF TypeOK, StageTypes, TableTypes, NetworkTypes

LEMMA SyncType ==
  ASSUME TypeOK, NEW c \in Clients, SyncTeams(c)
  PROVE  TypeOK'
  <1>0. c \in Procs
    BY DEF Procs
  <1>1. /\ pc' = [pc EXCEPT ![c] = "play"] \/ pc' = [pc EXCEPT ![c] = "exit_team"]
        /\ inbox' = [inbox EXCEPT ![c] = <<>>]
        /\ next' = next /\ next[c] = 1
    BY <1>0 DEF SyncTeams, Goto, TypeOK, Running
  <1>2. /\ pc' \in [Procs -> Stages]
        /\ pc'[c] # "apply"
        /\ \A q \in Procs \ {c} : pc'[q] = pc[q]
    <2>1. CASE pc' = [pc EXCEPT ![c] = "play"]
      BY <1>0, <2>1 DEF TypeOK, Stages
    <2>2. CASE pc' = [pc EXCEPT ![c] = "exit_team"]
      BY <1>0, <2>2 DEF TypeOK, Stages
    <2>3. QED
      BY <1>1, <2>1, <2>2
  <1>3. StageTypes'
    <2>1. inbox' \in [Procs -> Seq(NetPlayer)] /\ \A q \in Procs \ {c} : inbox'[q] = inbox[q]
      <3>1. <<>> \in Seq(NetPlayer)
        OBVIOUS
      <3>2. QED
        BY <1>1, <3>1 DEF TypeOK
    <2>2. QED
      BY <1>1, <1>2, <2>1, TypeParts DEF StageTypes
  <1>4. TableTypes' /\ NetworkTypes'
    BY TypeParts DEF SyncTeams, TableTypes, NetworkTypes
  <1>5. QED
    BY <1>3, <1>4 DEF TypeOK, StageTypes, TableTypes, NetworkTypes

LEMMA CopyType ==
  ASSUME TypeOK, NEW p \in Procs, ProcessCopy(p)
  PROVE  TypeOK'
  <1> DEFINE r == Record(p)
             dies == SeenDying(p, r)
  <1>1. /\ pc[p] = "apply"
        /\ dies => KillerFound(r.id, r.lastHurt, Known(p))
        /\ roster' = RosterWith(p, r.id)
        /\ team' = TeamAfter(p, r)
        /\ lastHurt' = [lastHurt EXCEPT ![p][r.id] = r.lastHurt]
        /\ health' = [health EXCEPT ![p][r.id] = r.health]
        /\ deaths' = [deaths EXCEPT ![p][r.id] = r.deaths]
        /\ kills' = IF dies THEN KillsAfter(p, r.id, r.lastHurt, r.deaths) ELSE kills
        /\ Advance(p)
        /\ UNCHANGED <<deadFrames, network>>
    BY Zenon DEF ProcessCopy, KillerId
  <1>2. /\ r.id \in Ids /\ r.health \in 0 .. MaxHealth
        /\ r.lastHurt \in Ids \union {None}
        /\ r.team \in 0 .. NumTeams /\ r.deaths \in Nat
    BY <1>1, RecordIsNetPlayer
  <1> HIDE DEF r, dies
  <1>3. StageTypes'
    BY <1>1, TypeParts, AdvanceType
  <1>4. roster' \in [Procs -> Seq(Ids) \ {<<>>}]
    <2>1. Append(roster[p], r.id) \in Seq(Ids) \ {<<>>}
      <3>1. roster[p] \in Seq(Ids)
        BY DEF TypeOK
      <3>2. QED
        BY <1>2, <3>1, AppendProperties
    <2>2. QED
      BY <1>1, <2>1 DEF TypeOK, RosterWith
  <1>5. team' \in [Procs -> [Ids -> 0 .. NumTeams]]
    <2>1. NewTeam(team[Host]) \in 0 .. NumTeams
      BY NewTeamType
    <2>2. PICK t \in 0 .. NumTeams : team' = [team EXCEPT ![p][r.id] = t]
      <3>1. team \in [Procs -> [Ids -> 0 .. NumTeams]]
        BY DEF TypeOK
      <3>2. team[p][r.id] \in 0 .. NumTeams
        BY <1>2, <3>1
      <3>3. QED
        BY <1>1, <1>2, <2>1, <3>1, <3>2 DEF TeamAfter
    <2>3. QED
      BY <1>2, <2>2 DEF TypeOK
  <1>6. kills' \in [Procs -> [Ids -> Seq(PlayerKill)]]
    <2>1. CASE dies
      <3>1. r.lastHurt = r.id \/ r.lastHurt \in Known(p)
        BY <1>1, <2>1 DEF KillerFound
      <3>2. Known(p) \subseteq Ids
        BY DEF Known, Range, TypeOK
      <3>3. QED
        BY <1>1, <1>2, <2>1, <3>1, <3>2, KillsType
    <2>2. QED
      BY <1>1, <2>1 DEF TypeOK
  <1>7. /\ lastHurt' \in [Procs -> [Ids -> Ids \union {None}]]
        /\ health' \in [Procs -> [Ids -> 0 .. MaxHealth]]
        /\ deaths' \in [Procs -> [Ids -> Nat]]
    BY <1>1, <1>2 DEF TypeOK
  <1>8. TableTypes'
    BY <1>1, <1>4, <1>5, <1>6, <1>7 DEF TypeOK, TableTypes
  <1>9. NetworkTypes'
    BY <1>1, TypeParts DEF NetworkTypes
  <1>10. QED
    BY <1>3, <1>8, <1>9 DEF TypeOK, StageTypes, TableTypes, NetworkTypes

LEMMA ProcessType ==
  ASSUME TypeOK, NEW p \in Procs, ProcessNetPacket(p)
  PROVE  TypeOK'
  <1>1. CASE ProcessDropped(p)
    <2>1. StageTypes'
      BY <1>1, TypeParts, AdvanceType DEF ProcessDropped
    <2>2. TableTypes' /\ NetworkTypes'
      BY <1>1, TypeParts DEF ProcessDropped, TableTypes, NetworkTypes
    <2>3. QED
      BY <2>1, <2>2 DEF TypeOK, StageTypes, TableTypes, NetworkTypes
  <1>2. CASE ProcessOwn(p)
    <2>0. pc[p] = "apply" /\ Advance(p)
      BY <1>2 DEF ProcessOwn
    <2>1. StageTypes'
      BY <2>0, TypeParts, AdvanceType
    <2>2. team' \in [Procs -> [Ids -> 0 .. NumTeams]]
      <3>1. Record(p).team \in 0 .. NumTeams
        BY <2>0, RecordIsNetPlayer
      <3>2. team' = team \/ team' = [team EXCEPT ![p][p] = Record(p).team]
        BY <1>2 DEF ProcessOwn
      <3>3. CASE team' = [team EXCEPT ![p][p] = Record(p).team]
        <4>1. p \in Ids /\ team \in [Procs -> [Ids -> 0 .. NumTeams]]
          BY IdFacts DEF TypeOK
        <4>2. QED
          BY <3>1, <3>3, <4>1
      <3>4. QED
        BY <3>2, <3>3 DEF TypeOK
    <2>3. TableTypes' /\ NetworkTypes'
      BY <1>2, <2>2, TypeParts DEF ProcessOwn, TableTypes, NetworkTypes
    <2>4. QED
      BY <2>1, <2>3 DEF TypeOK, StageTypes, TableTypes, NetworkTypes
  <1>3. CASE ProcessCopy(p)
    BY <1>3, CopyType
  <1>4. CASE ProcessExits(p)
    <2>1. pc' = [pc EXCEPT ![p] = "exit_killer"] /\ UNCHANGED <<inbox, next>>
      BY <1>4 DEF ProcessExits, Goto
    <2>2. StageTypes'
      BY <2>1, TypeParts DEF StageTypes, Stages, Running
    <2>3. TableTypes' /\ NetworkTypes'
      BY <1>4, TypeParts DEF ProcessExits, TableTypes, NetworkTypes
    <2>4. QED
      BY <2>2, <2>3 DEF TypeOK, StageTypes, TableTypes, NetworkTypes
  <1>5. QED
    BY <1>1, <1>2, <1>3, <1>4 DEF ProcessNetPacket

LEMMA FinishType ==
  ASSUME TypeOK, NEW p \in Procs, FinishFrame(p)
  PROVE  TypeOK'
  <1>1. deadFrames' \in [Players -> 0 .. RespawnFrames - 1]
    <2>1. \A i \in Players : deadFrames[i] \in 0 .. RespawnFrames - 1 /\ RespawnFrames \in Nat \ {0}
      BY BoundsAssumption DEF TypeOK
    <2>2. \A i \in Players : i \in DeadAt(p) /\ i \notin DueAt(p) => ~(deadFrames[i] + 1 >= RespawnFrames)
      BY DEF DueAt
    <2>3. \A i \in Players :
            (IF i \in DueAt(p) THEN 0
             ELSE IF i \in DeadAt(p) THEN deadFrames[i] + 1 ELSE deadFrames[i])
              \in 0 .. RespawnFrames - 1
      BY <2>1, <2>2
    <2>4. QED
      BY <2>3 DEF FinishFrame
  <1>2. health' \in [Procs -> [Ids -> 0 .. MaxHealth]]
    <2>1. health' = [health EXCEPT ![p] =
                        [i \in Ids |-> IF i \in DueAt(p) THEN MaxHealth ELSE health[p][i]]]
      BY DEF FinishFrame
    <2>2. [i \in Ids |-> IF i \in DueAt(p) THEN MaxHealth ELSE health[p][i]] \in [Ids -> 0 .. MaxHealth]
      BY BoundsAssumption DEF TypeOK
    <2>3. QED
      BY <2>1, <2>2 DEF TypeOK
  <1>3. StageTypes'
    <2>1. pc' = [pc EXCEPT ![p] = "menu"] \/ pc' = [pc EXCEPT ![p] = "net"]
      BY DEF FinishFrame, Goto
    <2>2. next[p] = 1 /\ UNCHANGED <<inbox, next>>
      BY DEF FinishFrame, TypeOK, Running
    <2>3. CASE pc' = [pc EXCEPT ![p] = "menu"]
      BY <2>2, <2>3, TypeParts DEF StageTypes, Stages, Running
    <2>4. CASE pc' = [pc EXCEPT ![p] = "net"]
      BY <2>2, <2>4, TypeParts DEF StageTypes, Stages, Running
    <2>5. QED
      BY <2>1, <2>3, <2>4
  <1>4. TableTypes'
    BY <1>1, <1>2, TypeParts DEF FinishFrame, TableTypes
  <1>5. NetworkTypes'
    BY TypeParts DEF FinishFrame, NetworkTypes
  <1>6. QED
    BY <1>3, <1>4, <1>5 DEF TypeOK, StageTypes, TableTypes, NetworkTypes

LEMMA StutterType ==
  ASSUME TypeOK, UNCHANGED vars
  PROVE  TypeOK'
  BY DEF TypeOK

LEMMA NextType ==
  ASSUME TypeOK, [Next]_vars
  PROVE  TypeOK'
  <1>1. CASE HandleNetworkingHost
    BY <1>1, HostNetType
  <1>2. ASSUME NEW c \in Clients, HandleNetworkingClient(c) \/ SyncTeams(c) PROVE TypeOK'
    BY <1>2, ClientNetType, SyncType
  <1>3. ASSUME NEW p \in Procs, Step(p) PROVE TypeOK'
    BY <1>3, ProcessType, DamageType, FinishType DEF Step, Play
  <1>4. CASE MatchOver \/ UNCHANGED vars
    BY <1>4, StutterType DEF MatchOver
  <1>5. QED
    BY <1>1, <1>2, <1>3, <1>4 DEF Next

\* In every match every variable has its type; in particular a process that is
\* looping over its buffer never reads past the records it counted, every
\* datagram to a client carries a player, and only clients are sent to.
THEOREM TypeCorrect == Spec => []TypeOK
  <1>1. QED
    BY InitType, NextType, PTL DEF Spec

-----------------------------------------------------------------------------
(* Clients have the server's teams.                                        *)

\* Record r gives the team of the server's table tm, or none.
Official(tm, r) == r.team # 0 => r.team = tm[Host][r.id]

SentTeams ==
  \A c \in Clients :
    /\ \A m \in DOMAIN toClient[c] : \A n \in DOMAIN toClient[c][m] : Official(team, toClient[c][m][n])
    /\ \A n \in DOMAIN inbox[c] : Official(team, inbox[c][n])

TeamInv == TypeOK /\ TeamAgreement /\ SentTeams

\* The server never changes a team it has given.
TeamsLast == \A i \in Ids : team[Host][i] # 0 => team'[Host][i] = team[Host][i]

LEMMA OfficialStays ==
  ASSUME TeamsLast, NEW r \in NetPlayer, Official(team, r)
  PROVE  Official(team', r)
  BY DEF TeamsLast, Official, NetPlayer

LEMMA InitTeam == Init => TeamInv
  <1> SUFFICES ASSUME Init PROVE TeamInv
    OBVIOUS
  <1>1. TypeOK
    BY InitType
  <1>2. PICK tm \in FirstTeams :
           team = [p \in Procs |-> IF p = Host THEN tm ELSE [i \in Ids |-> 0]]
    BY DEF Init
  <1>3. \A c \in Clients, i \in Ids : team[c][i] = 0
    BY <1>2, IdFacts DEF Procs
  <1>4. TeamAgreement
    BY <1>3 DEF TeamAgreement
  <1>5. SentTeams
    BY DEF Init, SentTeams, Procs
  <1>6. QED
    BY <1>1, <1>4, <1>5 DEF TeamInv

\* A step that sends and receives nothing and gives no client a team of its own.
LEMMA TeamStep ==
  ASSUME TeamInv, TypeOK', TeamsLast, toClient' = toClient,
         \A c \in Clients : inbox'[c] = inbox[c] \/ inbox'[c] = <<>>,
         \A c \in Clients, i \in Ids :
            team'[c][i] = team[c][i] \/ (team'[c][i] # 0 => team'[c][i] = team[Host][i])
  PROVE  TeamInv'
  <1>1. TeamAgreement'
    BY DEF TeamInv, TeamAgreement, TeamsLast
  <1>2. ASSUME NEW c \in Clients, NEW m \in DOMAIN toClient[c], NEW n \in DOMAIN toClient[c][m]
        PROVE  Official(team', toClient[c][m][n])
    <2>1. toClient[c][m][n] \in NetPlayer
      BY ElementIn DEF TeamInv, TypeOK
    <2>2. QED
      BY <2>1, OfficialStays DEF TeamInv, SentTeams
  <1>3. ASSUME NEW c \in Clients, NEW n \in DOMAIN inbox[c]
        PROVE  Official(team', inbox[c][n])
    <2>1. inbox[c] \in Seq(NetPlayer)
      BY DEF TeamInv, TypeOK, Procs
    <2>2. inbox[c][n] \in NetPlayer
      BY <2>1, ElementIn
    <2>3. QED
      BY <2>2, OfficialStays DEF TeamInv, SentTeams
  <1>4. SentTeams'
    BY <1>2, <1>3 DEF SentTeams
  <1>5. QED
    BY <1>1, <1>4 DEF TeamInv

LEMMA SameTeams ==
  ASSUME TeamInv, TypeOK', team' = team, toClient' = toClient,
         \A p \in Procs : inbox'[p] = inbox[p] \/ inbox'[p] = <<>>
  PROVE  TeamInv'
  <1>1. TeamsLast
    BY DEF TeamsLast
  <1>2. QED
    BY <1>1, TeamStep DEF Procs

LEMMA HostNetTeam ==
  ASSUME TeamInv, TypeOK', HandleNetworkingHost
  PROVE  TeamInv'
  <1>1. TypeOK /\ TeamAgreement /\ SentTeams
    BY DEF TeamInv
  <1>2. team' = team
    BY DEF HandleNetworkingHost
  <1>3. \A n \in DOMAIN Snapshot : Official(team, Snapshot[n])
    BY DEF Snapshot, RecordOf, Official
  <1>4. \A c \in Clients : inbox'[c] = inbox[c]
    <2>1. DOMAIN inbox = Procs /\ Clients \subseteq Procs /\ Host \notin Clients
      BY <1>1, IdFacts DEF TypeOK, Procs
    <2>2. inbox' = inbox \/ \E records : inbox' = [inbox EXCEPT ![Host] = records]
      BY DEF HandleNetworkingHost
    <2>3. QED
      BY <2>1, <2>2
  <1>5. ASSUME NEW c \in Clients, NEW m \in DOMAIN toClient'[c], NEW n \in DOMAIN toClient'[c][m]
        PROVE  Official(team, toClient'[c][m][n])
    <2>1. toClient'[c] = toClient[c] \/ toClient'[c] = Append(toClient[c], Snapshot)
      BY DEF HandleNetworkingHost
    <2>2. toClient[c] \in Seq(Seq(NetPlayer) \ {<<>>}) /\ Snapshot \in Seq(NetPlayer) \ {<<>>}
      BY <1>1, SnapshotType DEF TypeOK
    <2>3. CASE m \in DOMAIN toClient[c]
      <3>1. Append(toClient[c], Snapshot)[m] = toClient[c][m]
        BY <2>2, <2>3
      <3>2. toClient'[c][m] = toClient[c][m]
        BY <2>1, <3>1
      <3>3. n \in DOMAIN toClient[c][m]
        BY <3>2
      <3>4. QED
        BY <1>1, <2>3, <3>2, <3>3 DEF SentTeams
    <2>4. CASE m \notin DOMAIN toClient[c]
      <3>1. toClient'[c] = Append(toClient[c], Snapshot)
        BY <2>1, <2>4
      <3>2. toClient'[c][m] = Snapshot
        BY <2>2, <2>4, <3>1
      <3>3. QED
        BY <1>3, <3>2
    <2>5. QED
      BY <2>3, <2>4
  <1>6. QED
    BY <1>1, <1>2, <1>4, <1>5 DEF TeamInv, TeamAgreement, SentTeams

LEMMA ClientNetTeam ==
  ASSUME TeamInv, TypeOK', NEW c \in Clients, HandleNetworkingClient(c)
  PROVE  TeamInv'
  <1> DEFINE q == toClient[c]
  <1>1. TypeOK /\ TeamAgreement /\ SentTeams /\ q \in Seq(Seq(NetPlayer) \ {<<>>})
    BY DEF TeamInv, TypeOK
  <1>2. team' = team
    BY DEF HandleNetworkingClient
  <1>3. DOMAIN inbox = Procs /\ DOMAIN toClient = Clients /\ Clients \subseteq Procs
    BY <1>1 DEF TypeOK, Procs
  <1>4. CASE q = <<>>
    <2>1. toClient' = toClient /\ inbox' = inbox
      BY <1>4 DEF HandleNetworkingClient
    <2>2. QED
      BY <1>2, <2>1, SameTeams
  <1>5. CASE q # <<>>
    <2>1. /\ inbox' = [inbox EXCEPT ![c] = Head(q)]
          /\ toClient' = [toClient EXCEPT ![c] = SubSeq(q, 3, Len(q))]
      BY <1>5 DEF HandleNetworkingClient
    <2>2. /\ \A d \in Clients \ {c} : toClient'[d] = toClient[d] /\ inbox'[d] = inbox[d]
          /\ inbox'[c] = Head(q) /\ toClient'[c] = SubSeq(q, 3, Len(q))
      BY <1>3, <2>1
    <2>3. /\ 1 \in DOMAIN q /\ Head(q) = q[1]
          /\ \A m \in DOMAIN SubSeq(q, 3, Len(q)) : m + 2 \in DOMAIN q
                                                  /\ SubSeq(q, 3, Len(q))[m] = q[m + 2]
      BY <1>1, <1>5, DatagramsLeft
    <2>4. \A m \in DOMAIN q : \A n \in DOMAIN q[m] : Official(team, q[m][n])
      BY <1>1 DEF SentTeams
    <2> HIDE DEF q
    <2>5. /\ \A n \in DOMAIN inbox'[c] : Official(team, inbox'[c][n])
          /\ \A m \in DOMAIN toClient'[c] : \A n \in DOMAIN toClient'[c][m] :
                Official(team, toClient'[c][m][n])
      BY <2>2, <2>3, <2>4
    <2>6. ASSUME NEW d \in Clients \ {c}
          PROVE  /\ \A n \in DOMAIN inbox'[d] : Official(team, inbox'[d][n])
                 /\ \A m \in DOMAIN toClient'[d] : \A n \in DOMAIN toClient'[d][m] :
                       Official(team, toClient'[d][m][n])
      <3>1. inbox'[d] = inbox[d] /\ toClient'[d] = toClient[d]
        BY <2>2
      <3>2. QED
        BY <1>1, <3>1 DEF SentTeams
    <2>7. SentTeams'
      BY <1>2, <2>5, <2>6 DEF SentTeams
    <2>8. QED
      BY <1>1, <1>2, <2>7 DEF TeamInv, TeamAgreement
  <1>6. QED
    BY <1>4, <1>5

LEMMA RecordIsOfficial ==
  ASSUME TeamInv, NEW c \in Clients, pc[c] = "apply"
  PROVE  Official(team, Record(c))
  <1>1. next[c] \in DOMAIN inbox[c]
    BY DEF TeamInv, TypeOK, Procs
  <1>2. QED
    BY <1>1 DEF TeamInv, SentTeams, Record

\* A client takes the team of a record.
LEMMA TeamTaken ==
  ASSUME TeamInv, TypeOK', NEW c \in Clients, NEW i \in Ids, NEW t,
         t # 0 => t = team[Host][i], team' = [team EXCEPT ![c][i] = t],
         toClient' = toClient, \A p \in Procs : inbox'[p] = inbox[p] \/ inbox'[p] = <<>>
  PROVE  TeamInv'
  <1>1. /\ team \in [Procs -> [Ids -> 0 .. NumTeams]]
        /\ Clients \subseteq Procs /\ Host \in Procs /\ Host # c
    BY IdFacts DEF TeamInv, TypeOK, Procs
  <1>2. \A p \in Procs, j \in Ids : team'[p][j] = IF p = c /\ j = i THEN t ELSE team[p][j]
    BY <1>1
  <1>3. TeamsLast
    BY <1>1, <1>2 DEF TeamsLast
  <1>4. \A d \in Clients, j \in Ids :
           team'[d][j] = team[d][j] \/ (team'[d][j] # 0 => team'[d][j] = team[Host][j])
    BY <1>1, <1>2
  <1>5. QED
    BY <1>1, <1>3, <1>4, TeamStep

LEMMA ProcessTeam ==
  ASSUME TeamInv, TypeOK', NEW p \in Procs, ProcessNetPacket(p)
  PROVE  TeamInv'
  <1> DEFINE r == Record(p)
  <1>1. TypeOK /\ pc[p] = "apply"
    BY DEF TeamInv, ProcessNetPacket, ProcessDropped, ProcessOwn, ProcessCopy, ProcessExits
  <1>2. r \in NetPlayer /\ r.id \in Ids
    BY <1>1, RecordIsNetPlayer
  <1>3. p # Host => p \in Clients /\ (r.team # 0 => r.team = team[Host][r.id])
    BY <1>1, RecordIsOfficial DEF Procs, Official
  <1>4. toClient' = toClient /\ \A q \in Procs : inbox'[q] = inbox[q] \/ inbox'[q] = <<>>
    BY <1>1, AdvanceInbox
    DEF ProcessNetPacket, ProcessDropped, ProcessOwn, ProcessCopy, ProcessExits
  <1>5. CASE team' = team
    BY <1>4, <1>5, SameTeams
  <1>6. CASE p # Host /\ team' = [team EXCEPT ![p][r.id] = r.team]
    BY <1>2, <1>3, <1>4, <1>6, TeamTaken
  <1>7. CASE p = Host /\ ProcessCopy(p)
    <2> DEFINE t == IF team[Host][r.id] = 0 THEN NewTeam(team[Host]) ELSE team[Host][r.id]
    <2>1. team' = [team EXCEPT ![Host][r.id] = t]
      BY <1>7 DEF ProcessCopy, TeamAfter
    <2>2. /\ team \in [Procs -> [Ids -> 0 .. NumTeams]]
          /\ Clients \subseteq Procs /\ Host \in Procs /\ Host \notin Clients
      BY <1>1, IdFacts DEF TypeOK, Procs
    <2>3. team[Host][r.id] # 0 => t = team[Host][r.id]
      OBVIOUS
    <2> HIDE DEF t, r
    <2>4. \A q \in Procs, j \in Ids : team'[q][j] = IF q = Host /\ j = r.id THEN t ELSE team[q][j]
      BY <1>2, <2>1, <2>2
    <2>5. TeamsLast
      BY <2>2, <2>3, <2>4 DEF TeamsLast
    <2>6. \A c \in Clients, j \in Ids : team'[c][j] = team[c][j]
      BY <2>2, <2>4
    <2>7. QED
      BY <1>4, <2>2, <2>5, <2>6, TeamStep
  <1>8. \/ team' = team
        \/ p # Host /\ team' = [team EXCEPT ![p][r.id] = r.team]
        \/ p = Host /\ ProcessCopy(p)
    <2>1. CASE ProcessCopy(p)
      BY <2>1 DEF ProcessCopy, TeamAfter
    <2>2. CASE ProcessOwn(p)
      BY <2>2 DEF ProcessOwn
    <2>3. CASE ProcessDropped(p) \/ ProcessExits(p)
      BY <2>3 DEF ProcessDropped, ProcessExits
    <2>4. QED
      BY <2>1, <2>2, <2>3 DEF ProcessNetPacket
  <1>9. QED
    BY <1>5, <1>6, <1>7, <1>8

LEMMA NextTeamInv == TeamInv /\ [Next]_vars => TeamInv'
  <1> SUFFICES ASSUME TeamInv, [Next]_vars PROVE TeamInv'
    OBVIOUS
  <1>1. TypeOK /\ TypeOK' /\ DOMAIN inbox = Procs
    BY NextType DEF TeamInv, TypeOK
  <1>2. CASE HandleNetworkingHost
    BY <1>1, <1>2, HostNetTeam
  <1>3. ASSUME NEW c \in Clients, HandleNetworkingClient(c) PROVE TeamInv'
    BY <1>1, <1>3, ClientNetTeam
  <1>4. ASSUME NEW c \in Clients, SyncTeams(c) PROVE TeamInv'
    <2>1. team' = team /\ toClient' = toClient /\ inbox' = [inbox EXCEPT ![c] = <<>>]
      BY <1>4 DEF SyncTeams
    <2>2. QED
      BY <1>1, <2>1, SameTeams
  <1>5. ASSUME NEW p \in Procs, ProcessNetPacket(p) PROVE TeamInv'
    BY <1>1, <1>5, ProcessTeam
  <1>6. ASSUME NEW p \in Procs, Play(p) \/ FinishFrame(p) PROVE TeamInv'
    <2>1. team' = team /\ toClient' = toClient /\ inbox' = inbox
      BY <1>6 DEF Play, DamagePlayer, FinishFrame
    <2>2. QED
      BY <1>1, <2>1, SameTeams
  <1>7. CASE UNCHANGED vars
    BY <1>1, <1>7, SameTeams
  <1>8. QED
    BY <1>2, <1>3, <1>4, <1>5, <1>6, <1>7 DEF Next, Step, MatchOver

\* A client that gives a player a team gives him the server's, whatever teams
\* the mode has and whatever is lost (add_player_to_team, process_net_packets).
THEOREM TeamsAgree == Spec => []TeamAgreement
  <1>1. TeamInv => TeamAgreement
    BY DEF TeamInv
  <1>2. QED
    BY <1>1, InitTeam, NextTeamInv, PTL DEF Spec

-----------------------------------------------------------------------------
(* The kills. KillsAreDeaths alone is not inductive: a process counts a    *)
(* kill when it finds a dead player in a datagram, so what datagrams say   *)
(* must be right, and a server's datagrams repeat what its table says.     *)
(* DeadAreCredited says that both are: whoever is seen dead by another's   *)
(* hand was credited to that killer by his owner, who alone kills him.     *)
(* And the server knows every killer that it is told of.                   *)

\* A process never loses its own slot.
OwnSlots == \A p \in Procs : p \in Known(p)

KillInv == TypeOK /\ OwnSlots /\ KillsAreDeaths /\ DeadAreCredited

\* The kill lists only grow.
KillsGrow == \A p \in Procs, k \in Ids : Range(kills[p][k]) \subseteq Range(kills'[p][k])

\* What was credited stays credited.
LEMMA CreditStays ==
  ASSUME KillsGrow, NEW i \in Ids, NEW h, NEW k, NEW d, DeathIsCredited(kills, i, h, k, d)
  PROVE  DeathIsCredited(kills', i, h, k, d)
  BY IdFacts DEF DeathIsCredited, KillsGrow

\* Appending one kill adds one member to the range of a list.
LEMMA AppendRange ==
  ASSUME NEW S, NEW s \in Seq(S), NEW e \in S
  PROVE  Range(Append(s, e)) = Range(s) \union {e}
  <1>1. /\ DOMAIN Append(s, e) = 1 .. Len(s) + 1 /\ DOMAIN s = 1 .. Len(s) /\ Len(s) \in Nat
        /\ \A n \in 1 .. Len(s) : Append(s, e)[n] = s[n]
        /\ Append(s, e)[Len(s) + 1] = e
    OBVIOUS
  <1>2. \A x \in Range(Append(s, e)) : x \in Range(s) \union {e}
    BY <1>1 DEF Range
  <1>3. \A x \in Range(s) : x \in Range(Append(s, e))
    BY <1>1 DEF Range
  <1>4. e \in Range(Append(s, e))
    BY <1>1 DEF Range
  <1>5. QED
    BY <1>2, <1>3, <1>4

\* A step that adds one kill that the victim's owner has (or gets by the very
\* step) leaves all counts honest, and all lists grow.
LEMMA OneKillAdded ==
  ASSUME KillInv, NEW p \in Procs, NEW k \in Ids, NEW e \in PlayerKill,
         Owner(e.victim) = p \/ e \in Range(kills[Owner(e.victim)][k]),
         kills' = [kills EXCEPT ![p][k] = Append(kills[p][k], e)]
  PROVE  KillsGrow /\ KillsAreDeaths' /\ e \in Range(kills'[Owner(e.victim)][k])
  <1>1. \A q \in Procs, l \in Ids :
          Range(kills'[q][l]) = IF q = p /\ l = k THEN Range(kills[p][k]) \union {e}
                                ELSE Range(kills[q][l])
    <2>1. kills \in [Procs -> [Ids -> Seq(PlayerKill)]]
      BY DEF KillInv, TypeOK
    <2>2. Range(Append(kills[p][k], e)) = Range(kills[p][k]) \union {e}
      BY <2>1, AppendRange
    <2>3. \A q \in Procs, l \in Ids :
             kills'[q][l] = IF q = p /\ l = k THEN Append(kills[p][k], e) ELSE kills[q][l]
      BY <2>1
    <2> SUFFICES ASSUME NEW q \in Procs, NEW l \in Ids
                 PROVE  Range(kills'[q][l]) =
                          IF q = p /\ l = k THEN Range(kills[p][k]) \union {e}
                          ELSE Range(kills[q][l])
      OBVIOUS
    <2>4. CASE q = p /\ l = k
      <3>1. kills'[q][l] = Append(kills[p][k], e)
        BY <2>3, <2>4
      <3>2. QED
        BY <2>2, <2>4, <3>1
    <2>5. CASE ~(q = p /\ l = k)
      <3>1. kills'[q][l] = kills[q][l]
        BY <2>3, <2>5
      <3>2. QED
        BY <2>5, <3>1
    <2>6. QED
      BY <2>4, <2>5
  <1>2. KillsGrow
    BY <1>1 DEF KillsGrow
  <1>3. e.victim \in Ids /\ Owner(e.victim) \in Procs
    BY IdFacts DEF PlayerKill
  <1>4. e \in Range(kills'[Owner(e.victim)][k])
    BY <1>1, <1>3
  <1>5. ASSUME NEW q \in Procs, NEW l \in Ids, NEW f \in Range(kills'[q][l])
        PROVE  f \in Range(kills'[Owner(f.victim)][l])
    <2>1. CASE f \in Range(kills[q][l])
      <3>1. f \in Range(kills[Owner(f.victim)][l])
        BY <2>1 DEF KillInv, KillsAreDeaths
      <3>2. f.victim \in Ids
        <4>1. kills[q][l] \in Seq(PlayerKill)
          BY DEF KillInv, TypeOK
        <4>2. f \in PlayerKill
          BY <2>1, <4>1 DEF Range
        <4>3. QED
          BY <4>2 DEF PlayerKill
      <3>3. QED
        BY <1>2, <3>1, <3>2, IdFacts DEF KillsGrow
    <2>2. CASE q = p /\ l = k /\ f = e
      BY <1>4, <2>2
    <2>3. QED
      BY <1>1, <2>1, <2>2
  <1>6. QED
    BY <1>2, <1>4, <1>5 DEF KillsAreDeaths

-----------------------------------------------------------------------------
(* The parts of DeadAreCredited, and what leaves each as it is.            *)

TablesCredited ==
  \A p \in Procs : \A i \in Known(p) :
      DeathIsCredited(kills, i, health[p][i], lastHurt[p][i], deaths[p][i])

SocketsCredited ==
  /\ \A n \in DOMAIN toHost : CreditedRecord(kills, toHost[n])
  /\ \A c \in Clients : \A m \in DOMAIN toClient[c] :
        \A n \in DOMAIN toClient[c][m] : CreditedRecord(kills, toClient[c][m][n])

InboxesCredited ==
  \A p \in Procs : \A n \in DOMAIN inbox[p] : CreditedRecord(kills, inbox[p][n])

LEMMA CreditParts ==
  DeadAreCredited <=> TablesCredited /\ SocketsCredited /\ InboxesCredited
  BY DEF DeadAreCredited, TablesCredited, SocketsCredited, InboxesCredited

LEMMA RecordStays ==
  ASSUME KillsGrow, NEW r \in NetPlayer, CreditedRecord(kills, r)
  PROVE  CreditedRecord(kills', r)
  <1>1. r.id \in Ids
    BY DEF NetPlayer
  <1>2. QED
    BY <1>1, CreditStays DEF CreditedRecord

LEMMA CountsStay ==
  ASSUME KillsAreDeaths, kills' = kills
  PROVE  KillsGrow /\ KillsAreDeaths'
  BY DEF KillsGrow, KillsAreDeaths

LEMMA SocketsStay ==
  ASSUME TypeOK, KillsGrow, SocketsCredited, toHost' = toHost, toClient' = toClient
  PROVE  SocketsCredited'
  <1>1. ASSUME NEW n \in DOMAIN toHost PROVE CreditedRecord(kills', toHost[n])
    <2>1. toHost[n] \in NetPlayer
      BY ElementIn DEF TypeOK
    <2>2. QED
      BY <2>1, RecordStays DEF SocketsCredited
  <1>2. ASSUME NEW c \in Clients, NEW m \in DOMAIN toClient[c], NEW n \in DOMAIN toClient[c][m]
        PROVE  CreditedRecord(kills', toClient[c][m][n])
    <2>1. toClient[c][m][n] \in NetPlayer
      BY ElementIn DEF TypeOK
    <2>2. QED
      BY <2>1, RecordStays DEF SocketsCredited
  <1>3. QED
    BY <1>1, <1>2 DEF SocketsCredited

\* A buffer that keeps its records, or is emptied.
LEMMA InboxStays ==
  ASSUME TypeOK, KillsGrow, InboxesCredited, NEW p \in Procs,
         inbox'[p] = inbox[p] \/ inbox'[p] = <<>>, NEW n \in DOMAIN inbox'[p]
  PROVE  CreditedRecord(kills', inbox'[p][n])
  <1>1. inbox'[p] = inbox[p]
    OBVIOUS
  <1>2. inbox[p][n] \in NetPlayer
    BY <1>1, ElementIn DEF TypeOK
  <1>3. QED
    BY <1>1, <1>2, RecordStays DEF InboxesCredited

LEMMA InboxesStay ==
  ASSUME TypeOK, KillsGrow, InboxesCredited,
         \A p \in Procs : inbox'[p] = inbox[p] \/ inbox'[p] = <<>>
  PROVE  InboxesCredited'
  BY InboxStays DEF InboxesCredited

LEMMA KnownIds ==
  ASSUME TypeOK, NEW p \in Procs, NEW i \in Known(p) PROVE i \in Ids
  <1>1. roster[p] \in Seq(Ids)
    BY DEF TypeOK
  <1>2. QED
    BY <1>1 DEF Known, Range

\* A player of a table who is as he was, or alive.
LEMMA EntryStays ==
  ASSUME TypeOK, KillsGrow, TablesCredited, NEW p \in Procs, NEW i \in Known(p),
         \/ health'[p][i] = health[p][i] /\ lastHurt'[p][i] = lastHurt[p][i]
            /\ deaths'[p][i] = deaths[p][i]
         \/ health'[p][i] # 0
  PROVE  DeathIsCredited(kills', i, health'[p][i], lastHurt'[p][i], deaths'[p][i])
  <1>1. i \in Ids
    BY DEF Known, Range, TypeOK
  <1>2. CASE health'[p][i] # 0
    BY <1>2 DEF DeathIsCredited
  <1>3. CASE /\ health'[p][i] = health[p][i] /\ lastHurt'[p][i] = lastHurt[p][i]
             /\ deaths'[p][i] = deaths[p][i]
    BY <1>1, <1>3, CreditStays DEF TablesCredited
  <1>4. QED
    BY <1>2, <1>3

-----------------------------------------------------------------------------
(* The initial states and the steps.                                       *)

LEMMA InitKill == Init => KillInv
  <1> SUFFICES ASSUME Init PROVE KillInv
    OBVIOUS
  <1>1. TypeOK
    BY InitType
  <1>2. OwnSlots
    <2> SUFFICES ASSUME NEW p \in Procs PROVE p \in Known(p)
      BY DEF OwnSlots
    <2>1. CASE p = Host
      <3>1. Bots \in Seq(Range(Bots))
        BY IdsAssumption
      <3>2. roster[p] = <<Host>> \o Bots
        BY <2>1 DEF Init
      <3>3. 1 \in DOMAIN roster[p] /\ roster[p][1] = Host
        BY <3>1, <3>2
      <3>4. QED
        BY <2>1, <3>3 DEF Known, Range
    <2>2. CASE p # Host
      <3>1. roster[p] = <<p>>
        BY <2>2 DEF Init
      <3>2. 1 \in DOMAIN roster[p] /\ roster[p][1] = p
        BY <3>1
      <3>3. QED
        BY <3>2 DEF Known, Range
    <2>3. QED
      BY <2>1, <2>2
  <1>3. KillsAreDeaths
    BY DEF Init, KillsAreDeaths, Range
  <1>4. TablesCredited
    <2> SUFFICES ASSUME NEW p \in Procs, NEW i \in Known(p) PROVE health[p][i] # 0
      BY DEF TablesCredited, DeathIsCredited
    <2>1. i \in Owned(p)
      <3>1. CASE p = Host
        <4>1. Bots \in Seq(Range(Bots))
          BY IdsAssumption
        <4>2. roster[p] = <<Host>> \o Bots
          BY <3>1 DEF Init
        <4>3. PICK n \in DOMAIN roster[p] : i = roster[p][n]
          BY DEF Known, Range
        <4>4. i = Host \/ i \in Range(Bots)
          BY <4>1, <4>2, <4>3
        <4>5. QED
          BY <3>1, <4>4, IdsAssumption DEF Owned, Owner, Players, Procs
      <3>2. CASE p # Host
        <4>1. i = p
          BY <3>2 DEF Init, Known, Range
        <4>2. QED
          BY <4>1, IdFacts DEF Owned
      <3>3. QED
        BY <3>1, <3>2
    <2>2. i \in Ids
      BY <2>1, IdFacts DEF Owned
    <2>3. QED
      BY <2>1, <2>2, BoundsAssumption DEF Init
  <1>5. SocketsCredited
    BY DEF Init, SocketsCredited
  <1>6. InboxesCredited
    BY DEF Init, InboxesCredited
  <1>7. QED
    BY <1>1, <1>2, <1>3, <1>4, <1>5, <1>6, CreditParts DEF KillInv

LEMMA DamageKill ==
  ASSUME KillInv, NEW p \in Procs, NEW v \in Ids, NEW k \in Ids,
         NEW damage \in 1 .. MaxHealth, DamagePlayer(p, v, k, damage)
  PROVE  OwnSlots' /\ KillsAreDeaths' /\ DeadAreCredited'
  <1> DEFINE left == IF damage >= health[p][v] THEN 0 ELSE health[p][v] - damage
             died == left = 0
             death == deaths[p][v] + 1
  <1>1. TypeOK /\ OwnSlots /\ KillsAreDeaths /\ DeadAreCredited
    BY DEF KillInv
  <1>2. /\ v \in Owned(p) /\ v \in Players /\ Owner(v) = p
        /\ lastHurt' = [lastHurt EXCEPT ![p][v] = k]
        /\ health' = [health EXCEPT ![p][v] = left]
        /\ deaths' = [deaths EXCEPT ![p][v] = IF died THEN death ELSE deaths[p][v]]
        /\ kills' = IF died THEN KillsAfter(p, v, k, death) ELSE kills
        /\ UNCHANGED <<roster, toHost, toClient, inbox>>
    BY DEF DamagePlayer, Owned
  <1>3. death \in Nat /\ left \in 0 .. MaxHealth
    <2>1. health[p][v] \in 0 .. MaxHealth /\ deaths[p][v] \in Nat /\ MaxHealth \in Nat
      BY <1>1, BoundsAssumption DEF TypeOK
    <2>2. damage \in Nat /\ damage > 0
      BY <2>1
    <2>3. left \in 0 .. MaxHealth
      BY <2>1, <2>2
    <2>4. QED
      BY <2>1, <2>3
  <1> HIDE DEF left, death
  <1>4. /\ KillsGrow /\ KillsAreDeaths'
        /\ died /\ k # v => [victim |-> v, death |-> death] \in Range(kills'[Owner(v)][k])
    <2>1. CASE died /\ k # v
      <3> DEFINE e == [victim |-> v, death |-> death]
      <3>1. e \in PlayerKill /\ e.victim = v
        BY <1>3 DEF PlayerKill
      <3>2. kills' = [kills EXCEPT ![p][k] = Append(kills[p][k], e)]
        BY <1>2, <2>1 DEF KillsAfter
      <3> HIDE DEF e
      <3>3. KillsGrow /\ KillsAreDeaths' /\ e \in Range(kills'[Owner(e.victim)][k])
        BY <1>2, <3>1, <3>2, OneKillAdded
      <3>4. QED
        BY <3>1, <3>3 DEF e
    <2>2. CASE ~(died /\ k # v)
      <3>1. kills' = kills
        BY <1>2, <2>2 DEF KillsAfter
      <3>2. QED
        BY <1>1, <2>2, <3>1, CountsStay
    <2>3. QED
      BY <2>1, <2>2
  <1>5. TablesCredited'
    <2> SUFFICES ASSUME NEW q \in Procs, NEW i \in Known(q)
                 PROVE  DeathIsCredited(kills', i, health'[q][i], lastHurt'[q][i], deaths'[q][i])
      BY <1>2 DEF TablesCredited, Known
    <2>1. CASE q = p /\ i = v
      <3>1. /\ health'[q][i] = left /\ lastHurt'[q][i] = k
            /\ deaths'[q][i] = IF died THEN death ELSE deaths[p][v]
        BY <1>1, <1>2, <2>1 DEF TypeOK
      <3>2. v # Phantom
        BY <1>2, IdsAssumption
      <3>3. QED
        BY <1>4, <2>1, <3>1, <3>2 DEF DeathIsCredited
    <2>2. CASE ~(q = p /\ i = v)
      <3>1. i \in Ids
        BY <1>1, KnownIds
      <3>2. /\ health'[q][i] = health[q][i] /\ lastHurt'[q][i] = lastHurt[q][i]
            /\ deaths'[q][i] = deaths[q][i]
        BY <1>1, <1>2, <2>2, <3>1 DEF TypeOK
      <3>3. QED
        BY <1>1, <1>4, <3>2, CreditParts, EntryStays
    <2>3. QED
      BY <2>1, <2>2
  <1>6. SocketsCredited'
    BY <1>1, <1>2, <1>4, CreditParts, SocketsStay
  <1>7. InboxesCredited'
    BY <1>1, <1>2, <1>4, CreditParts, InboxesStay
  <1>8. OwnSlots'
    BY <1>1, <1>2 DEF OwnSlots, Known
  <1>9. QED
    BY <1>4, <1>5, <1>6, <1>7, <1>8 DEF DeadAreCredited, TablesCredited, SocketsCredited, InboxesCredited

\* A table entry is sent as it is.
LEMMA RecordCredited ==
  ASSUME TablesCredited, NEW p \in Procs, NEW i \in Known(p)
  PROVE  CreditedRecord(kills, RecordOf(p, i))
  BY DEF TablesCredited, CreditedRecord, RecordOf

LEMMA SnapshotCredited ==
  ASSUME TypeOK, TablesCredited
  PROVE  \A n \in DOMAIN Snapshot : CreditedRecord(kills, Snapshot[n])
  <1> SUFFICES ASSUME NEW n \in DOMAIN roster[Host]
               PROVE  CreditedRecord(kills, RecordOf(Host, roster[Host][n]))
    BY DEF Snapshot
  <1>1. roster[Host][n] \in Known(Host)
    BY DEF Known, Range
  <1>2. QED
    BY <1>1, IdFacts, RecordCredited

\* A phantom has no killer.
LEMMA GarbageCredited ==
  ASSUME NEW r \in Garbage PROVE CreditedRecord(kills, r)
  <1>1. r.id = Phantom /\ r.lastHurt \in {None, Phantom}
    BY DEF Garbage
  <1>2. QED
    BY <1>1 DEF CreditedRecord, DeathIsCredited

LEMMA HostNetKill ==
  ASSUME KillInv, HandleNetworkingHost
  PROVE  OwnSlots' /\ KillsAreDeaths' /\ DeadAreCredited'
  <1>1. TypeOK /\ OwnSlots /\ KillsAreDeaths /\ TablesCredited /\ SocketsCredited /\ InboxesCredited
    BY CreditParts DEF KillInv
  <1>2. /\ roster' = roster /\ health' = health /\ lastHurt' = lastHurt
        /\ kills' = kills /\ deaths' = deaths /\ toHost' = <<>>
    BY DEF HandleNetworkingHost
  <1>3. KillsAreDeaths' /\ OwnSlots' /\ TablesCredited'
    BY <1>1, <1>2 DEF KillsAreDeaths, OwnSlots, TablesCredited, Known
  <1>4. SocketsCredited'
    <2>1. PICK got : toClient' = [c \in Clients |-> IF c \in got THEN Append(toClient[c], Snapshot)
                                                    ELSE toClient[c]]
      BY DEF HandleNetworkingHost
    <2> SUFFICES ASSUME NEW c \in Clients, NEW m \in DOMAIN toClient'[c],
                        NEW n \in DOMAIN toClient'[c][m]
                 PROVE  CreditedRecord(kills, toClient'[c][m][n])
      BY <1>2 DEF SocketsCredited
    <2>2. toClient[c] \in Seq(Seq(NetPlayer) \ {<<>>})
      BY <1>1 DEF TypeOK
    <2>3. CASE m \in DOMAIN toClient[c]
      <3>1. toClient'[c][m] = toClient[c][m]
        BY <2>1, <2>2, <2>3, SnapshotType, <1>1
      <3>2. QED
        BY <1>1, <2>3, <3>1 DEF SocketsCredited
    <2>4. CASE m \notin DOMAIN toClient[c]
      <3>1. toClient'[c] = Append(toClient[c], Snapshot)
        BY <2>1, <2>4
      <3>2. toClient'[c][m] = Snapshot
        BY <2>2, <2>4, <3>1
      <3>3. QED
        BY <1>1, <3>2, SnapshotCredited
    <2>5. QED
      BY <2>3, <2>4
  <1>5. InboxesCredited'
    <2>1. CASE inbox' = inbox
      BY <1>1, <1>2, <2>1 DEF InboxesCredited
    <2>2. ASSUME NEW records \in NetPlayersOf(toHost), inbox' = [inbox EXCEPT ![Host] = records]
          PROVE  InboxesCredited'
      <3>1. toHost \in Seq(NetPlayer) /\ inbox \in [Procs -> Seq(NetPlayer)]
        BY <1>1 DEF TypeOK
      <3>2. /\ records \in Seq(NetPlayer)
            /\ \A n \in 1 .. Len(records) : records[n] \in Range(toHost) \/ records[n] \in Garbage
        BY <2>2, <3>1, NetPlayersType
      <3>3. \A n \in 1 .. Len(records) : CreditedRecord(kills, records[n])
        BY <1>1, <3>2, GarbageCredited DEF SocketsCredited, Range
      <3> SUFFICES ASSUME NEW p \in Procs, NEW n \in DOMAIN inbox'[p]
                   PROVE  CreditedRecord(kills, inbox'[p][n])
        BY <1>2 DEF InboxesCredited
      <3>4. CASE p = Host
        <4>1. inbox'[p] = records
          BY <2>2, <3>1, <3>4
        <4>2. n \in 1 .. Len(records)
          BY <3>2, <4>1
        <4>3. QED
          BY <3>3, <4>1, <4>2
      <3>5. CASE p # Host
        BY <1>1, <2>2, <3>1, <3>5 DEF InboxesCredited
      <3>6. QED
        BY <3>4, <3>5
    <2>3. QED
      BY <2>1, <2>2 DEF HandleNetworkingHost
  <1>6. QED
    BY <1>3, <1>4, <1>5 DEF DeadAreCredited, TablesCredited, SocketsCredited, InboxesCredited

LEMMA ClientNetKill ==
  ASSUME KillInv, NEW c \in Clients, HandleNetworkingClient(c)
  PROVE  OwnSlots' /\ KillsAreDeaths' /\ DeadAreCredited'
  <1>1. TypeOK /\ OwnSlots /\ KillsAreDeaths /\ TablesCredited /\ SocketsCredited /\ InboxesCredited
    BY CreditParts DEF KillInv
  <1>2. /\ roster' = roster /\ health' = health /\ lastHurt' = lastHurt
        /\ kills' = kills /\ deaths' = deaths
    BY DEF HandleNetworkingClient
  <1>3. KillsAreDeaths' /\ OwnSlots' /\ TablesCredited'
    BY <1>1, <1>2 DEF KillsAreDeaths, OwnSlots, TablesCredited, Known
  <1>4. c \in Procs /\ c \in Known(c)
    BY <1>1 DEF OwnSlots, Procs
  <1>5. \A n \in DOMAIN toHost' : CreditedRecord(kills, toHost'[n])
    <2>1. CASE toHost' = toHost
      BY <1>1, <2>1 DEF SocketsCredited
    <2>2. CASE toHost' = Append(toHost, RecordOf(c, c))
      <3> DEFINE r == RecordOf(c, c)
      <3>1. CreditedRecord(kills, r)
        BY <1>1, <1>4, RecordCredited
      <3>2. r \in NetPlayer
        BY <1>1, <1>4, IdFacts, RecordType
      <3>3. toHost \in Seq(NetPlayer)
        BY <1>1 DEF TypeOK
      <3> HIDE DEF r
      <3> SUFFICES ASSUME NEW n \in DOMAIN Append(toHost, r)
                   PROVE  CreditedRecord(kills, Append(toHost, r)[n])
        BY <2>2 DEF r
      <3>4. Append(toHost, r)[n] \in Range(toHost) \union {r}
        <4>1. Append(toHost, r)[n] \in Range(Append(toHost, r))
          BY Zenon DEF Range
        <4>2. QED
          BY <3>2, <3>3, <4>1, AppendRange
      <3>5. QED
        BY <1>1, <3>1, <3>4 DEF SocketsCredited, Range
    <2>3. QED
      BY <2>1, <2>2 DEF HandleNetworkingClient
  <1> DEFINE q == toClient[c]
  <1>6. q \in Seq(Seq(NetPlayer) \ {<<>>})
    BY <1>1 DEF TypeOK
  <1>7. /\ \A d \in Clients : \/ toClient'[d] = toClient[d]
                              \/ d = c /\ toClient'[d] = SubSeq(q, 3, Len(q))
        /\ \A p \in Procs : \/ inbox'[p] = inbox[p]
                            \/ q # <<>> /\ inbox'[p] = Head(q)
    <2>0. DOMAIN toClient = Clients /\ DOMAIN inbox = Procs
      BY <1>1 DEF TypeOK
    <2>1. CASE q = <<>>
      <3>1. toClient' = toClient /\ inbox' = inbox
        BY <2>1 DEF HandleNetworkingClient
      <3>2. QED
        BY <3>1
    <2>2. CASE q # <<>>
      <3>1. toClient' = [toClient EXCEPT ![c] = SubSeq(toClient[c], 3, Len(toClient[c]))]
        BY <2>2 DEF HandleNetworkingClient
      <3>2. inbox' = [inbox EXCEPT ![c] = Head(toClient[c])]
        BY <2>2 DEF HandleNetworkingClient
      <3>3. QED
        BY <2>0, <2>2, <3>1, <3>2
    <2>3. QED
      BY <2>1, <2>2
  <1>8. \A m \in DOMAIN q : \A n \in DOMAIN q[m] : CreditedRecord(kills, q[m][n])
    BY <1>1 DEF SocketsCredited
  <1> HIDE DEF q
  <1>9. SocketsCredited'
    <2> SUFFICES ASSUME NEW d \in Clients, NEW m \in DOMAIN toClient'[d],
                        NEW n \in DOMAIN toClient'[d][m]
                 PROVE  CreditedRecord(kills, toClient'[d][m][n])
      BY <1>2, <1>5 DEF SocketsCredited
    <2>1. CASE toClient'[d] = toClient[d]
      BY <1>1, <2>1 DEF SocketsCredited
    <2>2. CASE d = c /\ toClient'[d] = SubSeq(q, 3, Len(q))
      <3>1. m + 2 \in DOMAIN q /\ toClient'[d][m] = q[m + 2]
        BY <1>6, <2>2
      <3>2. QED
        BY <1>8, <3>1
    <2>3. QED
      BY <1>7, <2>1, <2>2
  <1>10. InboxesCredited'
    <2> SUFFICES ASSUME NEW p \in Procs, NEW n \in DOMAIN inbox'[p]
                 PROVE  CreditedRecord(kills, inbox'[p][n])
      BY <1>2 DEF InboxesCredited
    <2>1. CASE inbox'[p] = inbox[p]
      BY <1>1, <2>1 DEF InboxesCredited
    <2>2. CASE q # <<>> /\ inbox'[p] = Head(q)
      <3>1. 1 \in DOMAIN q /\ Head(q) = q[1]
        BY <1>6, <2>2
      <3>2. QED
        BY <1>8, <2>2, <3>1
    <2>3. QED
      BY <1>7, <2>1, <2>2
  <1>11. QED
    BY <1>3, <1>9, <1>10 DEF DeadAreCredited, TablesCredited, SocketsCredited, InboxesCredited

\* The record being processed was credited.
LEMMA RecordIsCredited ==
  ASSUME TypeOK, InboxesCredited, NEW p \in Procs, pc[p] = "apply"
  PROVE  CreditedRecord(kills, Record(p))
  <1>1. next[p] \in DOMAIN inbox[p]
    BY DEF TypeOK
  <1>2. QED
    BY <1>1 DEF InboxesCredited, Record

\* A new slot takes none away.
LEMMA SlotsStay ==
  ASSUME TypeOK, NEW p \in Procs, NEW i \in Ids, roster' = RosterWith(p, i)
  PROVE  /\ \A q \in Procs : Known(q) \subseteq Known(q)'
         /\ \A q \in Procs : \A j \in Known(q)' : j \in Known(q) \/ (q = p /\ j = i)
  <1>1. CASE i \in Known(p)
    <2>1. roster' = roster
      BY <1>1 DEF RosterWith
    <2>2. QED
      BY <2>1 DEF Known
  <1>2. CASE i \notin Known(p)
    <2>1. roster' = [roster EXCEPT ![p] = Append(roster[p], i)]
      BY <1>2 DEF RosterWith
    <2>2. roster \in [Procs -> Seq(Ids) \ {<<>>}]
      BY DEF TypeOK
    <2>3. Range(Append(roster[p], i)) = Range(roster[p]) \union {i}
      BY <2>2, AppendRange
    <2>4. \A q \in Procs : roster'[q] = IF q = p THEN Append(roster[p], i) ELSE roster[q]
      BY <2>1, <2>2
    <2>5. Range(roster'[p]) = Range(roster[p]) \union {i}
      BY <2>3, <2>4
    <2>6. \A q \in Procs \ {p} : roster'[q] = roster[q]
      BY <2>4
    <2>7. Known(p)' = Known(p) \union {i} /\ \A q \in Procs \ {p} : Known(q)' = Known(q)
      BY <2>5, <2>6, Zenon DEF Known
    <2>8. QED
      BY <2>7
  <1>3. QED
    BY <1>1, <1>2

LEMMA CopyKill ==
  ASSUME KillInv, NEW p \in Procs, ProcessCopy(p)
  PROVE  OwnSlots' /\ KillsAreDeaths' /\ DeadAreCredited'
  <1> DEFINE r == Record(p)
             dies == SeenDying(p, r)
  <1>1. TypeOK /\ OwnSlots /\ KillsAreDeaths /\ TablesCredited /\ SocketsCredited /\ InboxesCredited
    BY CreditParts DEF KillInv
  <1>2. /\ pc[p] = "apply"
        /\ dies => KillerFound(r.id, r.lastHurt, Known(p))
        /\ roster' = RosterWith(p, r.id)
        /\ lastHurt' = [lastHurt EXCEPT ![p][r.id] = r.lastHurt]
        /\ health' = [health EXCEPT ![p][r.id] = r.health]
        /\ deaths' = [deaths EXCEPT ![p][r.id] = r.deaths]
        /\ kills' = IF dies THEN KillsAfter(p, r.id, r.lastHurt, r.deaths) ELSE kills
        /\ Advance(p)
        /\ toHost' = toHost /\ toClient' = toClient
    BY DEF ProcessCopy, KillerId
  <1>3. r \in NetPlayer /\ r.id \in Ids /\ r.deaths \in Nat
    BY <1>1, <1>2, RecordIsNetPlayer
  <1>4. CreditedRecord(kills, r)
    BY <1>1, <1>2, RecordIsCredited
  <1>5. dies => r.health = 0
    BY DEF SeenDying
  <1> HIDE DEF r, dies
  <1>6. KillsGrow /\ KillsAreDeaths'
    <2>1. CASE dies /\ r.lastHurt # r.id
      <3> DEFINE e == [victim |-> r.id, death |-> r.deaths]
      <3>1. r.lastHurt \in Known(p)
        BY <1>2, <2>1 DEF KillerFound
      <3>2. r.lastHurt \in Ids /\ r.lastHurt # None
        BY <1>1, <3>1, KnownIds, IdsAssumption
      <3>3. e \in Range(kills[Owner(e.victim)][r.lastHurt])
        BY <1>4, <1>5, <2>1, <3>2 DEF CreditedRecord, DeathIsCredited
      <3>4. e \in PlayerKill
        BY <1>3 DEF PlayerKill
      <3>5. kills' = [kills EXCEPT ![p][r.lastHurt] = Append(kills[p][r.lastHurt], e)]
        BY <1>2, <2>1 DEF KillsAfter
      <3> HIDE DEF e
      <3>6. QED
        BY <3>2, <3>3, <3>4, <3>5, OneKillAdded
    <2>2. CASE ~(dies /\ r.lastHurt # r.id)
      <3>1. kills' = kills
        BY <1>2, <2>2 DEF KillsAfter
      <3>2. QED
        BY <1>1, <3>1, CountsStay
    <2>3. QED
      BY <2>1, <2>2
  <1>7. /\ \A q \in Procs : Known(q) \subseteq Known(q)'
        /\ \A q \in Procs : \A j \in Known(q)' : j \in Known(q) \/ (q = p /\ j = r.id)
    BY <1>1, <1>2, <1>3, SlotsStay
  <1>8. TablesCredited'
    <2> SUFFICES ASSUME NEW q \in Procs, NEW i \in Known(q)'
                 PROVE  DeathIsCredited(kills', i, health'[q][i], lastHurt'[q][i], deaths'[q][i])
      BY DEF TablesCredited
    <2>1. CASE q = p /\ i = r.id
      <3>1. health'[q][i] = r.health /\ lastHurt'[q][i] = r.lastHurt /\ deaths'[q][i] = r.deaths
        BY <1>1, <1>2, <1>3, <2>1 DEF TypeOK
      <3>2. CreditedRecord(kills', r)
        BY <1>3, <1>4, <1>6, RecordStays
      <3>3. QED
        BY <2>1, <3>1, <3>2 DEF CreditedRecord
    <2>2. CASE ~(q = p /\ i = r.id)
      <3>1. i \in Known(q)
        BY <1>7, <2>2
      <3>2. i \in Ids
        BY <1>1, <3>1, KnownIds
      <3>3. /\ health'[q][i] = health[q][i] /\ lastHurt'[q][i] = lastHurt[q][i]
            /\ deaths'[q][i] = deaths[q][i]
        BY <1>1, <1>2, <2>2, <3>2 DEF TypeOK
      <3>4. QED
        BY <1>1, <1>6, <3>1, <3>3, EntryStays
    <2>3. QED
      BY <2>1, <2>2
  <1>9. SocketsCredited'
    BY <1>1, <1>2, <1>6, SocketsStay
  <1>10. InboxesCredited'
    BY <1>1, <1>2, <1>6, AdvanceInbox, InboxesStay
  <1>11. OwnSlots'
    BY <1>1, <1>7 DEF OwnSlots
  <1>12. QED
    BY <1>6, <1>8, <1>9, <1>10, <1>11 DEF DeadAreCredited, TablesCredited, SocketsCredited, InboxesCredited

\* The steps that credit nobody, hurt nobody and send nothing.
LEMMA QuietKill ==
  ASSUME KillInv,
         UNCHANGED <<roster, lastHurt, kills, deaths, toHost, toClient>>,
         \A p \in Procs : inbox'[p] = inbox[p] \/ inbox'[p] = <<>>,
         \A p \in Procs, i \in Ids : health'[p][i] = health[p][i] \/ health'[p][i] # 0
  PROVE  OwnSlots' /\ KillsAreDeaths' /\ DeadAreCredited'
  <1>1. TypeOK /\ OwnSlots /\ KillsAreDeaths /\ TablesCredited /\ SocketsCredited /\ InboxesCredited
    BY CreditParts DEF KillInv
  <1>2. KillsGrow /\ KillsAreDeaths'
    BY <1>1, CountsStay
  <1>3. OwnSlots' /\ \A p \in Procs : Known(p)' = Known(p)
    BY <1>1 DEF OwnSlots, Known
  <1>4. TablesCredited'
    <2> SUFFICES ASSUME NEW p \in Procs, NEW i \in Known(p)
                 PROVE  DeathIsCredited(kills', i, health'[p][i], lastHurt'[p][i], deaths'[p][i])
      BY <1>3 DEF TablesCredited
    <2>1. i \in Ids
      BY <1>1, KnownIds
    <2>2. QED
      BY <1>1, <1>2, <2>1, EntryStays
  <1>5. SocketsCredited' /\ InboxesCredited'
    BY <1>1, <1>2, SocketsStay, InboxesStay
  <1>6. QED
    BY <1>2, <1>3, <1>4, <1>5 DEF DeadAreCredited, TablesCredited, SocketsCredited, InboxesCredited

LEMMA FinishHealth ==
  ASSUME TypeOK, NEW p \in Procs, FinishFrame(p)
  PROVE  \A q \in Procs, i \in Ids : health'[q][i] = health[q][i] \/ health'[q][i] # 0
  <1>1. health' = [health EXCEPT ![p] = [i \in Ids |-> IF i \in DueAt(p) THEN MaxHealth
                                                       ELSE health[p][i]]]
    BY DEF FinishFrame
  <1>2. DOMAIN health = Procs /\ MaxHealth # 0
    BY BoundsAssumption DEF TypeOK
  <1>3. QED
    BY <1>1, <1>2

LEMMA NextKill ==
  ASSUME KillInv, [Next]_vars
  PROVE  KillInv'
  <1>0. TypeOK
    BY DEF KillInv
  <1>1. TypeOK'
    BY <1>0, NextType
  <1>2. OwnSlots' /\ KillsAreDeaths' /\ DeadAreCredited'
    <2>1. CASE HandleNetworkingHost
      BY <2>1, HostNetKill
    <2>2. ASSUME NEW c \in Clients, HandleNetworkingClient(c)
          PROVE  OwnSlots' /\ KillsAreDeaths' /\ DeadAreCredited'
      BY <2>2, ClientNetKill
    <2>3. ASSUME NEW c \in Clients, SyncTeams(c)
          PROVE  OwnSlots' /\ KillsAreDeaths' /\ DeadAreCredited'
      <3>1. UNCHANGED <<tables, network>> /\ inbox' = [inbox EXCEPT ![c] = <<>>]
        BY <2>3 DEF SyncTeams
      <3>2. DOMAIN inbox = Procs
        BY <1>0 DEF TypeOK
      <3>3. \A p \in Procs : inbox'[p] = inbox[p] \/ inbox'[p] = <<>>
        BY <3>1, <3>2
      <3>4. QED
        BY <3>1, <3>3, QuietKill
    <2>4. ASSUME NEW p \in Procs, ProcessNetPacket(p)
          PROVE  OwnSlots' /\ KillsAreDeaths' /\ DeadAreCredited'
      <3>1. CASE ProcessDropped(p)
        <4>1. UNCHANGED <<tables, network>> /\ Advance(p)
          BY <3>1 DEF ProcessDropped
        <4>2. QED
          BY <1>0, <4>1, AdvanceInbox, QuietKill
      <3>2. CASE ProcessOwn(p)
        <4>1. /\ UNCHANGED <<roster, health, lastHurt, kills, deaths, network>>
              /\ Advance(p)
          BY <3>2 DEF ProcessOwn
        <4>2. QED
          BY <1>0, <4>1, AdvanceInbox, QuietKill
      <3>3. CASE ProcessCopy(p)
        BY <3>3, CopyKill
      <3>4. CASE ProcessExits(p)
        <4>1. UNCHANGED <<tables, network, inbox>>
          BY <3>4 DEF ProcessExits
        <4>2. QED
          BY <4>1, QuietKill
      <3>5. QED
        BY <2>4, <3>1, <3>2, <3>3, <3>4 DEF ProcessNetPacket
    <2>5. ASSUME NEW p \in Procs, Play(p)
          PROVE  OwnSlots' /\ KillsAreDeaths' /\ DeadAreCredited'
      BY <2>5, DamageKill DEF Play
    <2>6. ASSUME NEW p \in Procs, FinishFrame(p)
          PROVE  OwnSlots' /\ KillsAreDeaths' /\ DeadAreCredited'
      <3>1. UNCHANGED <<roster, lastHurt, kills, deaths, network, inbox>>
        BY <2>6 DEF FinishFrame
      <3>2. QED
        BY <1>0, <2>6, <3>1, FinishHealth, QuietKill
    <2>7. CASE UNCHANGED vars
      BY <2>7, QuietKill
    <2>8. QED
      BY <2>1, <2>2, <2>3, <2>4, <2>5, <2>6, <2>7 DEF Next, Step, MatchOver
  <1>3. QED
    BY <1>1, <1>2 DEF KillInv

-----------------------------------------------------------------------------
\* Nobody counts a kill that did not happen, however many processes play and
\* whatever the network loses (process_net_packets, damage_player, add_kill).
THEOREM KillsReal == Spec => []KillsAreDeaths
  <1>1. KillInv => KillsAreDeaths
    BY DEF KillInv
  <1>2. QED
    BY <1>1, InitKill, NextKill, PTL DEF Spec

\* Whoever is seen dead by another's hand was credited to that killer by his
\* owner, in every table, socket and buffer (damage_player).
THEOREM DeathsCredited == Spec => []DeadAreCredited
  <1>1. KillInv => DeadAreCredited
    BY DEF KillInv
  <1>2. QED
    BY <1>1, InitKill, NextKill, PTL DEF Spec

-----------------------------------------------------------------------------
(* The server finds every killer: a record of a client names nobody whom   *)
(* the client did not learn of from the server, and what nobody sent names *)
(* nobody or itself.                                                       *)

\* A record whose last_hurt_by is known to the server, or the player himself.
Relayed(r) == r.lastHurt \in Known(Host) \union {None, r.id}

ClientsKnowHosts ==
  \A c \in Clients :
    /\ Known(c) \subseteq Known(Host) \union {c}
    /\ lastHurt[c][c] \in Known(Host) \union {None, c}
    /\ \A m \in DOMAIN toClient[c] : \A n \in DOMAIN toClient[c][m] :
          toClient[c][m][n].id \in Known(Host)
    /\ \A n \in DOMAIN inbox[c] : inbox[c][n].id \in Known(Host)

HostReceives ==
  /\ Len(toHost) <= HostBacklog
  /\ \A n \in DOMAIN toHost : Relayed(toHost[n])
  /\ \A n \in DOMAIN inbox[Host] :
        inbox[Host][n].id \in Clients \union {Phantom} /\ Relayed(inbox[Host][n])

RelayInv == KillInv /\ ClientsKnowHosts /\ HostReceives

LEMMA InitRelay == Init => RelayInv
  <1> SUFFICES ASSUME Init PROVE RelayInv
    OBVIOUS
  <1>1. KillInv
    BY InitKill
  <1>2. Clients \subseteq Procs /\ Host \in Procs /\ Host \notin Clients /\ Clients \subseteq Ids
    BY IdFacts DEF Procs
  <1>3. \A c \in Clients : Known(c) = {c}
    <2> SUFFICES ASSUME NEW c \in Clients PROVE Known(c) = {c}
      OBVIOUS
    <2>1. roster[c] = <<c>>
      BY <1>2 DEF Init
    <2>2. QED
      BY <2>1 DEF Known, Range
  <1>4. /\ \A c \in Clients : lastHurt[c][c] = None /\ toClient[c] = <<>> /\ inbox[c] = <<>>
        /\ toHost = <<>> /\ inbox[Host] = <<>> /\ pc[Host] = "net"
    BY <1>2 DEF Init
  <1>5. ClientsKnowHosts
    BY <1>3, <1>4 DEF ClientsKnowHosts
  <1>6. HostReceives
    BY <1>4, BoundsAssumption DEF HostReceives
  <1>7. QED
    BY <1>1, <1>5, <1>6 DEF RelayInv

\* A step that sends and receives nothing, and teaches nobody an id that the
\* server does not know.
LEMMA RelayStep ==
  ASSUME RelayInv, KillInv', toHost' = toHost, toClient' = toClient,
         Known(Host) \subseteq Known(Host)',
         \A p \in Procs : inbox'[p] = inbox[p] \/ inbox'[p] = <<>>,
         \A c \in Clients : /\ Known(c)' \subseteq Known(Host) \union {c}
                            /\ lastHurt'[c][c] \in Known(Host) \union {None, c}
  PROVE  RelayInv'
  <1>1. Clients \subseteq Procs /\ Host \in Procs
    BY IdFacts DEF Procs
  <1>2. ClientsKnowHosts'
    <2> SUFFICES ASSUME NEW c \in Clients
                 PROVE  /\ Known(c)' \subseteq Known(Host)' \union {c}
                        /\ lastHurt'[c][c] \in Known(Host)' \union {None, c}
                        /\ \A m \in DOMAIN toClient[c] : \A n \in DOMAIN toClient[c][m] :
                              toClient[c][m][n].id \in Known(Host)'
                        /\ \A n \in DOMAIN inbox'[c] : inbox'[c][n].id \in Known(Host)'
      BY DEF ClientsKnowHosts
    <2>1. inbox'[c] = inbox[c] \/ inbox'[c] = <<>>
      BY <1>1
    <2>2. QED
      BY <2>1 DEF RelayInv, ClientsKnowHosts
  <1>3. HostReceives'
    <2>1. inbox'[Host] = inbox[Host] \/ inbox'[Host] = <<>>
      BY <1>1
    <2>2. QED
      BY <2>1 DEF RelayInv, HostReceives, Relayed
  <1>4. QED
    BY <1>2, <1>3 DEF RelayInv

\* A step that leaves the tables' ids alone, too.
LEMMA QuietRelay ==
  ASSUME RelayInv, KillInv', UNCHANGED <<roster, lastHurt, toHost, toClient>>,
         \A p \in Procs : inbox'[p] = inbox[p] \/ inbox'[p] = <<>>
  PROVE  RelayInv'
  <1>1. \A p : Known(p)' = Known(p)
    BY DEF Known
  <1>2. QED
    BY <1>1, RelayStep DEF RelayInv, ClientsKnowHosts

LEMMA HostNetRelay ==
  ASSUME RelayInv, KillInv', HandleNetworkingHost
  PROVE  RelayInv'
  <1>1. TypeOK /\ ClientsKnowHosts /\ HostReceives
    BY DEF RelayInv, KillInv
  <1>2. /\ Known(Host)' = Known(Host) /\ \A c \in Clients : Known(c)' = Known(c)
        /\ lastHurt' = lastHurt /\ toHost' = <<>>
    BY DEF HandleNetworkingHost, Known
  <1>3. DOMAIN inbox = Procs /\ DOMAIN pc = Procs /\ Host \in Procs /\ Host \notin Clients
        /\ Clients \subseteq Procs
    BY <1>1, IdFacts DEF TypeOK, Procs
  <1>4. \A c \in Clients : inbox'[c] = inbox[c]
    <2>1. inbox' = inbox \/ \E records : inbox' = [inbox EXCEPT ![Host] = records]
      BY DEF HandleNetworkingHost
    <2>2. QED
      BY <1>3, <2>1
  <1>5. \A n \in DOMAIN Snapshot : Snapshot[n].id \in Known(Host)
    BY DEF Snapshot, RecordOf, Known, Range
  <1>6. ASSUME NEW c \in Clients, NEW m \in DOMAIN toClient'[c], NEW n \in DOMAIN toClient'[c][m]
        PROVE  toClient'[c][m][n].id \in Known(Host)
    <2>1. toClient'[c] = toClient[c] \/ toClient'[c] = Append(toClient[c], Snapshot)
      BY DEF HandleNetworkingHost
    <2>2. toClient[c] \in Seq(Seq(NetPlayer) \ {<<>>}) /\ Snapshot \in Seq(NetPlayer) \ {<<>>}
      BY <1>1, SnapshotType DEF TypeOK
    <2>3. CASE m \in DOMAIN toClient[c]
      <3>1. Append(toClient[c], Snapshot)[m] = toClient[c][m]
        BY <2>2, <2>3
      <3>2. toClient'[c][m] = toClient[c][m]
        BY <2>1, <3>1
      <3>3. n \in DOMAIN toClient[c][m]
        BY <3>2
      <3>4. QED
        BY <1>1, <2>3, <3>2, <3>3 DEF ClientsKnowHosts
    <2>4. CASE m \notin DOMAIN toClient[c]
      <3>1. toClient'[c] = Append(toClient[c], Snapshot)
        BY <2>1, <2>4
      <3>2. toClient'[c][m] = Snapshot
        BY <2>2, <2>4, <3>1
      <3>3. QED
        BY <1>5, <3>2
    <2>5. QED
      BY <2>3, <2>4
  <1>7. ClientsKnowHosts'
    BY <1>1, <1>2, <1>4, <1>6 DEF ClientsKnowHosts
  <1>8. HostReceives'
    <2>1. CASE toHost = <<>>
      <3>1. inbox' = inbox
        BY <2>1 DEF HandleNetworkingHost
      <3>2. QED
        BY <1>1, <1>2, <3>1, BoundsAssumption DEF HostReceives, Relayed
    <2>2. CASE toHost # <<>>
      <3>1. PICK records \in NetPlayersOf(toHost) : inbox' = [inbox EXCEPT ![Host] = records]
        BY <2>2 DEF HandleNetworkingHost
      <3>2. inbox'[Host] = records
        BY <1>3, <3>1
      <3>3. \A n \in DOMAIN records : records[n] \in Range(toHost) \/ records[n] \in Garbage
        BY <1>1, NetPlayersType DEF TypeOK
      <3>4. \A r \in Range(toHost) : r.id \in Clients /\ Relayed(r)
        BY <1>1 DEF TypeOK, HostReceives, Range
      <3>5. \A r \in Garbage : r.id = Phantom /\ Relayed(r)
        BY DEF Garbage, Relayed
      <3>6. QED
        BY <1>2, <3>2, <3>3, <3>4, <3>5, BoundsAssumption DEF HostReceives, Relayed
    <2>3. QED
      BY <2>1, <2>2
  <1>9. QED
    BY <1>7, <1>8 DEF RelayInv

LEMMA ClientNetRelay ==
  ASSUME RelayInv, KillInv', NEW c \in Clients, HandleNetworkingClient(c)
  PROVE  RelayInv'
  <1> DEFINE q == toClient[c]
  <1>1. TypeOK /\ ClientsKnowHosts /\ HostReceives
    BY DEF RelayInv, KillInv
  <1>2. /\ Known(Host)' = Known(Host) /\ \A d \in Clients : Known(d)' = Known(d)
        /\ lastHurt' = lastHurt
    BY DEF HandleNetworkingClient, Known
  <1>3. /\ DOMAIN inbox = Procs /\ DOMAIN pc = Procs /\ DOMAIN toClient = Clients
        /\ Host \in Procs /\ Host \notin Clients /\ Clients \subseteq Procs
        /\ q \in Seq(Seq(NetPlayer) \ {<<>>})
    BY <1>1, IdFacts DEF TypeOK, Procs
  <1>4. pc'[Host] = pc[Host] /\ inbox'[Host] = inbox[Host]
    <2>1. /\ \E stage : pc' = [pc EXCEPT ![c] = stage]
          /\ inbox' = inbox \/ \E records : inbox' = [inbox EXCEPT ![c] = records]
      BY DEF HandleNetworkingClient, Goto
    <2>2. QED
      BY <1>3, <2>1
  <1>5. ClientsKnowHosts'
    <2>1. \A m \in DOMAIN q : \A n \in DOMAIN q[m] : q[m][n].id \in Known(Host)
      BY <1>1 DEF ClientsKnowHosts
    <2>2. CASE q = <<>>
      <3>1. toClient' = toClient /\ inbox' = inbox
        BY <2>2 DEF HandleNetworkingClient
      <3>2. QED
        BY <1>1, <1>2, <3>1 DEF ClientsKnowHosts
    <2>3. CASE q # <<>>
      <3>1. /\ inbox' = [inbox EXCEPT ![c] = Head(q)]
            /\ toClient' = [toClient EXCEPT ![c] = SubSeq(q, 3, Len(q))]
        BY <2>3 DEF HandleNetworkingClient
      <3>2. /\ \A d \in Clients \ {c} : toClient'[d] = toClient[d] /\ inbox'[d] = inbox[d]
            /\ inbox'[c] = Head(q) /\ toClient'[c] = SubSeq(q, 3, Len(q))
        BY <1>3, <3>1
      <3>3. /\ 1 \in DOMAIN q /\ Head(q) = q[1]
            /\ \A m \in DOMAIN SubSeq(q, 3, Len(q)) : m + 2 \in DOMAIN q
                                                    /\ SubSeq(q, 3, Len(q))[m] = q[m + 2]
        BY <1>3, <2>3, DatagramsLeft
      <3> HIDE DEF q
      <3>4. /\ \A n \in DOMAIN inbox'[c] : inbox'[c][n].id \in Known(Host)
            /\ \A m \in DOMAIN toClient'[c] : \A n \in DOMAIN toClient'[c][m] :
                  toClient'[c][m][n].id \in Known(Host)
        BY <2>1, <3>2, <3>3
      <3>5. ASSUME NEW d \in Clients \ {c}
            PROVE  /\ \A m \in DOMAIN toClient'[d] : \A n \in DOMAIN toClient'[d][m] :
                          toClient'[d][m][n].id \in Known(Host)
                   /\ \A n \in DOMAIN inbox'[d] : inbox'[d][n].id \in Known(Host)
        <4>1. toClient'[d] = toClient[d] /\ inbox'[d] = inbox[d]
          BY <3>2
        <4>2. QED
          BY <1>1, <4>1 DEF ClientsKnowHosts
      <3>6. \A d \in Clients :
              /\ \A m \in DOMAIN toClient'[d] : \A n \in DOMAIN toClient'[d][m] :
                    toClient'[d][m][n].id \in Known(Host)
              /\ \A n \in DOMAIN inbox'[d] : inbox'[d][n].id \in Known(Host)
        BY <3>4, <3>5
      <3>7. QED
        BY <1>1, <1>2, <3>6 DEF ClientsKnowHosts
    <2>4. QED
      BY <2>2, <2>3
  <1>6. Len(toHost') <= HostBacklog /\ \A n \in DOMAIN toHost' : Relayed(toHost'[n])
    <2> DEFINE r == RecordOf(c, c)
    <2>1. r \in NetPlayer
      BY <1>1, <1>3, IdFacts, RecordType
    <2>2. Relayed(r)
      BY <1>1 DEF RecordOf, Relayed, ClientsKnowHosts
    <2>3. toHost \in Seq(NetPlayer) /\ HostBacklog \in Nat
      BY <1>1, BoundsAssumption DEF TypeOK
    <2>4. toHost' = toHost \/ (Len(toHost) < HostBacklog /\ toHost' = Append(toHost, r))
      BY DEF HandleNetworkingClient
    <2> HIDE DEF r
    <2>5. CASE toHost' = toHost
      BY <1>1, <2>5 DEF HostReceives
    <2>6. CASE Len(toHost) < HostBacklog /\ toHost' = Append(toHost, r)
      <3>1. /\ Len(Append(toHost, r)) = Len(toHost) + 1 /\ Len(toHost) \in Nat
            /\ \A n \in DOMAIN Append(toHost, r) :
                  \/ Append(toHost, r)[n] = r
                  \/ n \in DOMAIN toHost /\ Append(toHost, r)[n] = toHost[n]
        <4>1. /\ Len(Append(toHost, r)) = Len(toHost) + 1 /\ Len(toHost) \in Nat
              /\ DOMAIN Append(toHost, r) = 1 .. Len(toHost) + 1
              /\ DOMAIN toHost = 1 .. Len(toHost)
              /\ \A n \in 1 .. Len(toHost) : Append(toHost, r)[n] = toHost[n]
              /\ Append(toHost, r)[Len(toHost) + 1] = r
          BY <2>1, <2>3
        <4>2. QED
          BY <4>1
      <3>2. QED
        BY <1>1, <2>2, <2>3, <2>6, <3>1 DEF HostReceives
    <2>7. QED
      BY <2>4, <2>5, <2>6
  <1>7. HostReceives'
    BY <1>1, <1>2, <1>4, <1>6 DEF HostReceives, Relayed
  <1>8. QED
    BY <1>5, <1>7 DEF RelayInv

LEMMA DamageRelay ==
  ASSUME RelayInv, KillInv', NEW p \in Procs, NEW v \in Ids, NEW k \in Ids,
         NEW damage \in 1 .. MaxHealth, DamagePlayer(p, v, k, damage)
  PROVE  RelayInv'
  <1>1. TypeOK /\ ClientsKnowHosts
    BY DEF RelayInv, KillInv
  <1>2. /\ UNCHANGED <<roster, toHost, toClient, inbox, pc>>
        /\ lastHurt' = [lastHurt EXCEPT ![p][v] = k]
        /\ k \in Known(p)
    BY DEF DamagePlayer
  <1>3. /\ lastHurt \in [Procs -> [Ids -> Ids \union {None}]]
        /\ Clients \subseteq Procs /\ Clients \subseteq Ids
    BY <1>1 DEF TypeOK, Procs, Ids, Players
  <1>4. \A c \in Clients : lastHurt'[c][c] = lastHurt[c][c] \/ (p = c /\ lastHurt'[c][c] = k)
    BY <1>2, <1>3
  <1>5. \A q : Known(q)' = Known(q)
    BY <1>2 DEF Known
  <1>6. \A c \in Clients : /\ Known(c)' \subseteq Known(Host) \union {c}
                           /\ lastHurt'[c][c] \in Known(Host) \union {None, c}
    BY <1>1, <1>2, <1>4, <1>5 DEF ClientsKnowHosts
  <1>7. QED
    BY <1>2, <1>5, <1>6, RelayStep

LEMMA CopyRelay ==
  ASSUME RelayInv, KillInv', NEW p \in Procs, ProcessCopy(p)
  PROVE  RelayInv'
  <1> DEFINE r == Record(p)
  <1>1. TypeOK /\ ClientsKnowHosts
    BY DEF RelayInv, KillInv
  <1>2. /\ pc[p] = "apply" /\ r.id # p /\ Advance(p)
        /\ roster' = RosterWith(p, r.id)
        /\ lastHurt' = [lastHurt EXCEPT ![p][r.id] = r.lastHurt]
        /\ toHost' = toHost /\ toClient' = toClient
    BY DEF ProcessCopy
  <1>3. r.id \in Ids
    BY <1>1, <1>2, RecordIsNetPlayer
  <1>4. p \in Clients => r.id \in Known(Host)
    <2>1. next[p] \in DOMAIN inbox[p]
      BY <1>1, <1>2 DEF TypeOK
    <2>2. QED
      BY <1>1, <2>1 DEF ClientsKnowHosts, Record
  <1> HIDE DEF r
  <1>5. /\ \A q \in Procs : Known(q) \subseteq Known(q)'
        /\ \A q \in Procs : \A j \in Known(q)' : j \in Known(q) \/ (q = p /\ j = r.id)
    BY <1>1, <1>2, <1>3, SlotsStay
  <1>6. Clients \subseteq Procs /\ Clients \subseteq Ids /\ Host \in Procs
    BY IdFacts DEF Procs
  <1>7. \A c \in Clients : Known(c)' \subseteq Known(Host) \union {c}
    BY <1>1, <1>4, <1>5, <1>6 DEF ClientsKnowHosts
  <1>8. \A c \in Clients : lastHurt'[c][c] \in Known(Host) \union {None, c}
    <2>1. lastHurt \in [Procs -> [Ids -> Ids \union {None}]]
      BY <1>1 DEF TypeOK
    <2>2. \A c \in Clients : lastHurt'[c][c] = lastHurt[c][c]
      BY <1>2, <1>6, <2>1
    <2>3. QED
      BY <1>1, <2>2 DEF ClientsKnowHosts
  <1>9. \A q \in Procs : inbox'[q] = inbox[q] \/ inbox'[q] = <<>>
    BY <1>1, <1>2, AdvanceInbox
  <1>10. QED
    BY <1>2, <1>5, <1>6, <1>7, <1>8, <1>9, RelayStep

\* The server never looks for a killer of a player that it does not know.
LEMMA HostFindsKiller ==
  ASSUME RelayInv, pc[Host] = "apply", SeenDying(Host, Record(Host)),
         Record(Host).id # Phantom
  PROVE  KillerFound(Record(Host).id, Record(Host).lastHurt, Known(Host))
  <1> DEFINE r == Record(Host)
  <1>1. TypeOK /\ InboxesCredited /\ HostReceives /\ Host \in Procs
    BY CreditParts, IdFacts DEF RelayInv, KillInv
  <1>2. r.id \in Clients \union {Phantom} /\ Relayed(r)
    <2>1. next[Host] \in DOMAIN inbox[Host]
      BY <1>1 DEF TypeOK
    <2>2. QED
      BY <1>1, <2>1 DEF HostReceives, Record
  <1>3. CreditedRecord(kills, r)
    BY <1>1, RecordIsCredited
  <1>4. r.health = 0
    BY DEF SeenDying
  <1>5. r.id # Phantom
    OBVIOUS
  <1> HIDE DEF r
  <1>6. r.lastHurt # r.id => r.lastHurt \in Ids
    BY <1>3, <1>4, <1>5 DEF CreditedRecord, DeathIsCredited
  <1>7. KillerFound(r.id, r.lastHurt, Known(Host))
    BY <1>2, <1>6, IdsAssumption DEF KillerFound, Relayed
  <1>8. QED
    BY <1>7 DEF r

LEMMA NextRelay ==
  ASSUME RelayInv, [Next]_vars
  PROVE  RelayInv'
  <1>1. TypeOK /\ KillInv /\ KillInv'
    BY NextKill DEF RelayInv, KillInv
  <1>2. DOMAIN inbox = Procs
    BY <1>1 DEF TypeOK
  <1>3. CASE HandleNetworkingHost
    BY <1>1, <1>3, HostNetRelay
  <1>4. ASSUME NEW c \in Clients, HandleNetworkingClient(c) PROVE RelayInv'
    BY <1>1, <1>4, ClientNetRelay
  <1>5. ASSUME NEW c \in Clients, SyncTeams(c) PROVE RelayInv'
    <2>1. UNCHANGED <<tables, network>> /\ inbox' = [inbox EXCEPT ![c] = <<>>]
      BY <1>5 DEF SyncTeams
    <2>2. \A p \in Procs : inbox'[p] = inbox[p] \/ inbox'[p] = <<>>
      BY <1>2, <2>1
    <2>3. QED
      BY <1>1, <2>1, <2>2, QuietRelay
  <1>6. ASSUME NEW p \in Procs, ProcessDropped(p) \/ ProcessOwn(p) PROVE RelayInv'
    <2>1. Advance(p) /\ UNCHANGED <<roster, lastHurt, toHost, toClient>>
      BY <1>6 DEF ProcessDropped, ProcessOwn
    <2>2. QED
      BY <1>1, <2>1, AdvanceInbox, QuietRelay
  <1>7. ASSUME NEW p \in Procs, ProcessCopy(p) PROVE RelayInv'
    BY <1>1, <1>7, CopyRelay
  <1>8. ASSUME NEW p \in Procs, ProcessExits(p) PROVE RelayInv'
    <2>1. UNCHANGED <<tables, network, inbox>>
      BY <1>8 DEF ProcessExits
    <2>2. QED
      BY <1>1, <2>1, QuietRelay
  <1>9. ASSUME NEW p \in Procs, Play(p) PROVE RelayInv'
    BY <1>1, <1>9, DamageRelay DEF Play
  <1>10. ASSUME NEW p \in Procs, FinishFrame(p) PROVE RelayInv'
    <2>1. UNCHANGED <<roster, lastHurt, network, inbox>>
      BY <1>10 DEF FinishFrame
    <2>2. QED
      BY <1>1, <2>1, QuietRelay
  <1>11. CASE UNCHANGED vars
    BY <1>1, <1>11, QuietRelay
  <1>12. QED
    BY <1>3, <1>4, <1>5, <1>6, <1>7, <1>8, <1>9, <1>10, <1>11
    DEF Next, Step, MatchOver, ProcessNetPacket

\* When the server exits it has been looking for the killer of a phantom.
LEMMA HostExit ==
  ASSUME RelayInv, [Next]_vars, pc[Host] # "exit_killer", pc'[Host] = "exit_killer"
  PROVE  ProcessExits(Host) /\ Record(Host).id = Phantom
  <1>1. TypeOK /\ DOMAIN pc = Procs /\ Host \in Procs /\ Host \notin Clients
    BY IdFacts DEF RelayInv, KillInv, TypeOK
  <1>2. ~HandleNetworkingHost
    <2>1. HandleNetworkingHost => pc' = [pc EXCEPT ![Host] = "play"]
                               \/ pc' = [pc EXCEPT ![Host] = "apply"]
      BY DEF HandleNetworkingHost, Goto
    <2>2. QED
      BY <1>1, <2>1
  <1>3. ~\E c \in Clients : HandleNetworkingClient(c) \/ SyncTeams(c)
    <2>1. \A c \in Clients : HandleNetworkingClient(c) \/ SyncTeams(c) =>
             \E stage : pc' = [pc EXCEPT ![c] = stage]
      BY DEF HandleNetworkingClient, SyncTeams, Goto
    <2>2. QED
      BY <1>1, <2>1
  <1>4. ~\E p \in Procs : ProcessDropped(p) \/ ProcessOwn(p) \/ ProcessCopy(p)
    <2>1. \A p \in Procs : ProcessDropped(p) \/ ProcessOwn(p) \/ ProcessCopy(p) =>
             pc' = pc \/ \E stage \in {"play", "teams"} : pc' = [pc EXCEPT ![p] = stage]
      BY DEF ProcessDropped, ProcessOwn, ProcessCopy, Advance, Goto
    <2>2. QED
      BY <1>1, <2>1
  <1>5. ~\E p \in Procs : Play(p) \/ FinishFrame(p)
    <2>1. \A p \in Procs : Play(p) \/ FinishFrame(p) =>
             pc' = pc \/ \E stage \in {"menu", "net"} : pc' = [pc EXCEPT ![p] = stage]
      BY DEF Play, DamagePlayer, FinishFrame, Goto
    <2>2. QED
      BY <1>1, <2>1
  <1>6. PICK p \in Procs : ProcessExits(p)
    BY <1>2, <1>3, <1>4, <1>5 DEF Next, Step, MatchOver, ProcessNetPacket
  <1>7. p = Host
    BY <1>1, <1>6 DEF ProcessExits, Goto
  <1>8. ProcessExits(Host)
    BY <1>6, <1>7
  <1>9. /\ pc[Host] = "apply" /\ SeenDying(Host, Record(Host))
        /\ ~KillerFound(Record(Host).id, Record(Host).lastHurt, Known(Host))
    BY <1>8 DEF ProcessExits, KillerId
  <1>10. QED
    BY <1>8, <1>9, HostFindsKiller

\* A server that has left keeps its buffer.
LEMMA GoneKeepsRecord ==
  ASSUME TypeOK, [Next]_vars, pc[Host] = "exit_killer"
  PROVE  inbox'[Host] = inbox[Host] /\ next'[Host] = next[Host]
  <1>1. DOMAIN inbox = Procs /\ DOMAIN next = Procs /\ Host \in Procs /\ Host \notin Clients
    BY IdFacts DEF TypeOK
  <1>2. ~HandleNetworkingHost
    BY DEF HandleNetworkingHost
  <1>3. ASSUME NEW c \in Clients, HandleNetworkingClient(c) \/ SyncTeams(c)
        PROVE  inbox'[Host] = inbox[Host] /\ next'[Host] = next[Host]
    <2>1. /\ next' = next
          /\ inbox' = inbox \/ \E records : inbox' = [inbox EXCEPT ![c] = records]
      BY <1>3 DEF HandleNetworkingClient, SyncTeams
    <2>2. QED
      BY <1>1, <2>1
  <1>4. ASSUME NEW p \in Procs, ProcessDropped(p) \/ ProcessOwn(p) \/ ProcessCopy(p)
        PROVE  inbox'[Host] = inbox[Host] /\ next'[Host] = next[Host]
    <2>1. p # Host
      BY <1>4 DEF ProcessDropped, ProcessOwn, ProcessCopy
    <2>2. /\ \E n : next' = [next EXCEPT ![p] = n]
          /\ inbox' = inbox \/ \E records : inbox' = [inbox EXCEPT ![p] = records]
      BY <1>4 DEF ProcessDropped, ProcessOwn, ProcessCopy, Advance
    <2>3. QED
      BY <1>1, <2>1, <2>2
  <1>5. ASSUME NEW p \in Procs, ProcessExits(p) \/ Play(p) \/ FinishFrame(p)
        PROVE  inbox'[Host] = inbox[Host] /\ next'[Host] = next[Host]
    BY <1>5 DEF ProcessExits, Play, DamagePlayer, FinishFrame
  <1>6. QED
    BY <1>2, <1>3, <1>4, <1>5 DEF Next, Step, MatchOver, ProcessNetPacket

\* However many datagrams the server finds waiting, its search for the killer of a
\* player never fails: it has relayed every id that a client can name. Only bytes
\* that nobody sent can end it (add_kill, find_player_by_id).
THEOREM HostStays == Spec => []HostExitsByGarbage
  <1>1. Init => RelayInv /\ HostExitsByGarbage
    <2>1. Init => pc[Host] = "net"
      BY IdFacts DEF Init
    <2>2. QED
      BY <2>1, InitRelay DEF HostExitsByGarbage
  <1>2. RelayInv /\ HostExitsByGarbage /\ [Next]_vars => RelayInv' /\ HostExitsByGarbage'
    <2> SUFFICES ASSUME RelayInv, HostExitsByGarbage, [Next]_vars, pc'[Host] = "exit_killer"
                 PROVE  Record(Host)'.id = Phantom
      BY NextRelay DEF HostExitsByGarbage
    <2>1. CASE pc[Host] = "exit_killer"
      <3>1. Record(Host)' = Record(Host)
        BY <2>1, GoneKeepsRecord DEF Record, RelayInv, KillInv
      <3>2. QED
        BY <2>1, <3>1 DEF HostExitsByGarbage
    <2>2. CASE pc[Host] # "exit_killer"
      <3>1. ProcessExits(Host) /\ Record(Host).id = Phantom
        BY <2>2, HostExit
      <3>2. Record(Host)' = Record(Host)
        BY <3>1 DEF ProcessExits, Record
      <3>3. QED
        BY <3>1, <3>2
    <2>3. QED
      BY <2>1, <2>2
  <1>3. QED
    BY <1>1, <1>2, PTL DEF Spec

-----------------------------------------------------------------------------
(* Slots, teams and snapshots of a step.                                   *)

\* The snapshots that wait at a client: in its socket and in its buffer.
At(c) == Range(toClient[c]) \union {inbox[c]}

\* What waits at a client waited there before, but for the emptied buffer and a
\* snapshot that the server just sent to an address it has.
LEMMA Deliveries ==
  ASSUME TypeOK, [Next]_vars, NEW c \in Clients, NEW s \in At(c)'
  PROVE  \/ s \in At(c) \/ s = <<>>
         \/ s = Snapshot /\ c \in addrs /\ pc[Host] = "net"
  <1>1. /\ DOMAIN inbox = Procs /\ DOMAIN toClient = Clients /\ c \in Procs
        /\ Host \in Procs /\ Host \notin Clients /\ c # Host
        /\ \A d \in Clients : toClient[d] \in Seq(Seq(NetPlayer) \ {<<>>})
    BY IdFacts DEF TypeOK, Procs
  <1>2. CASE s = inbox'[c]
    <2>1. CASE HandleNetworkingHost
      <3>1. inbox' = inbox \/ \E records : inbox' = [inbox EXCEPT ![Host] = records]
        BY <2>1 DEF HandleNetworkingHost
      <3>2. inbox'[c] = inbox[c]
        BY <1>1, <3>1
      <3>3. QED
        BY <1>2, <3>2 DEF At
    <2>2. ASSUME NEW d \in Clients, HandleNetworkingClient(d) PROVE s \in At(c)
      <3>1. CASE toClient[d] = <<>>
        <4>1. inbox' = inbox
          BY <2>2, <3>1 DEF HandleNetworkingClient
        <4>2. QED
          BY <1>2, <4>1 DEF At
      <3>2. CASE toClient[d] # <<>>
        <4>1. inbox' = [inbox EXCEPT ![d] = Head(toClient[d])]
          BY <2>2, <3>2 DEF HandleNetworkingClient
        <4>2. inbox'[c] = inbox[c] \/ (d = c /\ inbox'[c] = Head(toClient[c]))
          BY <1>1, <4>1
        <4>3. d = c => 1 \in DOMAIN toClient[c] /\ Head(toClient[c]) = toClient[c][1]
          BY <1>1, <3>2
        <4>4. d = c => Head(toClient[c]) \in Range(toClient[c])
          BY <4>3 DEF Range
        <4>5. QED
          BY <1>2, <4>2, <4>4 DEF At
      <3>3. QED
        BY <3>1, <3>2
    <2>3. ASSUME NEW d \in Clients, SyncTeams(d) PROVE s \in At(c) \/ s = <<>>
      <3>1. inbox' = [inbox EXCEPT ![d] = <<>>]
        BY <2>3 DEF SyncTeams
      <3>2. inbox'[c] = inbox[c] \/ inbox'[c] = <<>>
        BY <1>1, <3>1
      <3>3. QED
        BY <1>2, <3>2 DEF At
    <2>4. ASSUME NEW p \in Procs, Step(p) PROVE s \in At(c) \/ s = <<>>
      <3>1. Advance(p) \/ inbox' = inbox
        BY <2>4 DEF Step, ProcessNetPacket, ProcessDropped, ProcessOwn, ProcessCopy,
                    ProcessExits, Play, DamagePlayer, FinishFrame
      <3>2. inbox'[c] = inbox[c] \/ inbox'[c] = <<>>
        BY <1>1, <3>1, AdvanceInbox
      <3>3. QED
        BY <1>2, <3>2 DEF At
    <2>5. CASE UNCHANGED vars
      BY <1>2, <2>5 DEF At
    <2>6. QED
      BY <2>1, <2>2, <2>3, <2>4, <2>5 DEF Next, MatchOver
  <1>3. CASE s \in Range(toClient'[c])
    <2>1. CASE HandleNetworkingHost
      <3>1. /\ pc[Host] = "net"
            /\ \/ toClient'[c] = toClient[c]
               \/ c \in addrs /\ toClient'[c] = Append(toClient[c], Snapshot)
        BY <2>1 DEF HandleNetworkingHost
      <3>2. Snapshot \in Seq(NetPlayer) \ {<<>>}
        BY SnapshotType
      <3>3. Range(Append(toClient[c], Snapshot)) = Range(toClient[c]) \union {Snapshot}
        BY <1>1, <3>2, AppendRange
      <3>4. QED
        BY <1>3, <3>1, <3>3 DEF At
    <2>2. ASSUME NEW d \in Clients, HandleNetworkingClient(d) PROVE s \in At(c)
      <3> DEFINE q == toClient[d]
      <3>1. CASE q = <<>>
        <4>1. toClient' = toClient
          BY <2>2, <3>1 DEF HandleNetworkingClient
        <4>2. QED
          BY <1>3, <4>1 DEF At
      <3>2. CASE q # <<>>
        <4>1. toClient' = [toClient EXCEPT ![d] = SubSeq(q, 3, Len(q))]
          BY <2>2, <3>2 DEF HandleNetworkingClient
        <4>2. toClient'[c] = toClient[c] \/ (d = c /\ toClient'[c] = SubSeq(q, 3, Len(q)))
          BY <1>1, <4>1
        <4>3. q \in Seq(Seq(NetPlayer) \ {<<>>})
          BY <1>1
        <4>4. \A m \in DOMAIN SubSeq(q, 3, Len(q)) : m + 2 \in DOMAIN q
                                                  /\ SubSeq(q, 3, Len(q))[m] = q[m + 2]
          BY <4>3, <3>2, DatagramsLeft
        <4> HIDE DEF q
        <4>5. Range(SubSeq(q, 3, Len(q))) \subseteq Range(q)
          BY <4>4 DEF Range
        <4>6. QED
          BY <1>3, <4>2, <4>5 DEF At, q
      <3>3. QED
        BY <3>1, <3>2
    <2>3. CASE toClient' = toClient
      BY <1>3, <2>3 DEF At
    <2>4. HandleNetworkingHost \/ (\E d \in Clients : HandleNetworkingClient(d)) \/ toClient' = toClient
      BY DEF Next, Step, MatchOver, SyncTeams, ProcessNetPacket, ProcessDropped, ProcessOwn,
             ProcessCopy, ProcessExits, Play, DamagePlayer, FinishFrame
    <2>5. QED
      BY <2>1, <2>2, <2>3, <2>4
  <1>4. QED
    BY <1>2, <1>3 DEF At

\* A new slot is handed out for a record only, when there is a free one.
LEMMA NewSlots ==
  ASSUME TypeOK, [Next]_vars, NEW p \in Procs
  PROVE  \/ roster'[p] = roster[p]
         \/ /\ ProcessCopy(p) /\ Record(p).id \in Ids \ Known(p)
            /\ Len(roster[p]) < NumSlots
            /\ roster'[p] = Append(roster[p], Record(p).id)
  <1>1. ASSUME NEW q \in Procs, ProcessCopy(q), roster'[p] # roster[p]
        PROVE  /\ q = p /\ Record(p).id \in Ids \ Known(p) /\ Len(roster[p]) < NumSlots
               /\ roster'[p] = Append(roster[p], Record(p).id)
    <2> DEFINE i == Record(q).id
    <2>1. pc[q] = "apply" /\ HasSlot(q, i) /\ roster' = RosterWith(q, i)
      BY <1>1 DEF ProcessCopy
    <2>2. i \in Ids
      BY <2>1, RecordIsNetPlayer
    <2> HIDE DEF i
    <2>3. i \notin Known(q) /\ roster' = [roster EXCEPT ![q] = Append(roster[q], i)]
      BY <1>1, <2>1 DEF RosterWith
    <2>4. q = p /\ roster'[p] = Append(roster[p], i)
      BY <1>1, <2>3 DEF TypeOK
    <2>5. QED
      BY <2>1, <2>2, <2>3, <2>4 DEF HasSlot, i
  <1>2. (\E q \in Procs : ProcessCopy(q)) \/ roster' = roster
    BY DEF Next, Step, MatchOver, HandleNetworkingHost, HandleNetworkingClient, SyncTeams,
           ProcessNetPacket, ProcessDropped, ProcessOwn, ProcessExits, Play, DamagePlayer,
           FinishFrame
  <1>3. QED
    BY <1>1, <1>2

-----------------------------------------------------------------------------
(* Slots. They are only given, and a player never gets a second one.       *)

\* No value twice in a list, and no player twice in a list of records.
Once(s) == \A m, n \in DOMAIN s : s[m] = s[n] => m = n
IdsOnce(s) == \A m, n \in DOMAIN s : s[m].id = s[n].id => m = n

\* A player has one slot, there are no more slots than the table has, and no
\* snapshot shows a player twice.
SlotInv ==
  /\ \A p \in Procs : Once(roster[p]) /\ Len(roster[p]) <= NumSlots
  /\ \A c \in Clients : \A s \in At(c) : IdsOnce(s)

LEMMA AppendOnce ==
  ASSUME NEW S, NEW s \in Seq(S), NEW e \in S, Once(s), e \notin Range(s)
  PROVE  Once(Append(s, e))
  <1>1. /\ DOMAIN s = 1 .. Len(s) /\ Len(s) \in Nat
        /\ DOMAIN Append(s, e) = 1 .. Len(s) + 1
        /\ \A n \in 1 .. Len(s) : Append(s, e)[n] = s[n]
        /\ Append(s, e)[Len(s) + 1] = e
    OBVIOUS
  <1>2. \A n \in 1 .. Len(s) : s[n] # e
    BY <1>1 DEF Range
  <1>3. ASSUME NEW m \in DOMAIN Append(s, e), NEW n \in DOMAIN Append(s, e),
               Append(s, e)[m] = Append(s, e)[n]
        PROVE  m = n
    <2>1. m \in 1 .. Len(s) \/ m = Len(s) + 1
      BY <1>1
    <2>2. n \in 1 .. Len(s) \/ n = Len(s) + 1
      BY <1>1
    <2>3. QED
      BY <1>1, <1>2, <1>3, <2>1, <2>2 DEF Once
  <1>4. QED
    BY <1>3 DEF Once

\* The slots of the server at the start, and their length.
LEMMA FirstSlots ==
  /\ <<Host>> \o Bots \in Seq(Ids) /\ Len(<<Host>> \o Bots) = Len(Bots) + 1
  /\ Once(<<Host>> \o Bots)
  /\ Range(<<Host>> \o Bots) = Range(JoinOrder)
  /\ JoinOrder \in Seq(Ids)
  <1>1. Bots \in Seq(Ids) /\ Host \in Ids /\ Host \notin Range(Bots)
    BY IdsAssumption, IdFacts DEF Ids, Players, Range, Procs
  <1>2. /\ DOMAIN Bots = 1 .. Len(Bots) /\ Len(Bots) \in Nat
        /\ \A n \in 1 .. Len(Bots) : Bots[n] # Host
    BY <1>1 DEF Range
  <1>3. /\ <<Host>> \o Bots \in Seq(Ids) /\ Len(<<Host>> \o Bots) = Len(Bots) + 1
        /\ DOMAIN (<<Host>> \o Bots) = 1 .. Len(Bots) + 1
        /\ (<<Host>> \o Bots)[1] = Host
        /\ \A n \in 2 .. Len(Bots) + 1 : (<<Host>> \o Bots)[n] = Bots[n - 1]
    BY <1>1, <1>2
  <1>4. Once(<<Host>> \o Bots)
    <2>1. ASSUME NEW m \in 1 .. Len(Bots) + 1, NEW n \in 1 .. Len(Bots) + 1,
                 (<<Host>> \o Bots)[m] = (<<Host>> \o Bots)[n]
          PROVE  m = n
      <3>1. m = 1 \/ (m \in 2 .. Len(Bots) + 1 /\ m - 1 \in 1 .. Len(Bots))
        BY <1>2
      <3>2. n = 1 \/ (n \in 2 .. Len(Bots) + 1 /\ n - 1 \in 1 .. Len(Bots))
        BY <1>2
      <3>3. CASE m = 1 \/ n = 1
        BY <1>2, <1>3, <2>1, <3>1, <3>2, <3>3
      <3>4. CASE m # 1 /\ n # 1
        <4>1. Bots[m - 1] = Bots[n - 1]
          BY <1>3, <2>1, <3>1, <3>2, <3>4
        <4>2. m - 1 = n - 1
          BY <1>2, <3>1, <3>2, <3>4, <4>1, IdsAssumption
        <4>3. QED
          BY <4>2
      <3>5. QED
        BY <3>3, <3>4
    <2>2. QED
      BY <1>3, <2>1 DEF Once
  <1>5. Range(<<Host>> \o Bots) = Range(Bots) \union {Host}
    <2>1. \A n \in 1 .. Len(Bots) : n + 1 \in 2 .. Len(Bots) + 1 /\ (n + 1) - 1 = n
      BY <1>2
    <2>2. \A n \in 1 .. Len(Bots) : (<<Host>> \o Bots)[n + 1] = Bots[n]
      BY <1>3, <2>1
    <2>3. Range(Bots) \union {Host} \subseteq Range(<<Host>> \o Bots)
      <3>1. \A n \in 1 .. Len(Bots) : n + 1 \in 1 .. Len(Bots) + 1
        BY <1>2
      <3>2. 1 \in 1 .. Len(Bots) + 1
        BY <1>2
      <3> DEFINE s == <<Host>> \o Bots
      <3>3. DOMAIN s = 1 .. Len(Bots) + 1 /\ s[1] = Host
            /\ \A n \in 1 .. Len(Bots) : s[n + 1] = Bots[n]
        BY <1>3, <2>2
      <3> HIDE DEF s
      <3>4. Host \in Range(s)
        BY <3>2, <3>3, Zenon DEF Range
      <3>5. \A n \in 1 .. Len(Bots) : Bots[n] \in Range(s)
        BY <3>1, <3>3, Zenon DEF Range
      <3>6. Range(Bots) \subseteq Range(s)
        BY <1>2, <3>5, Zenon DEF Range
      <3>7. QED
        BY <3>4, <3>6 DEF s
    <2>4. \A n \in 1 .. Len(Bots) + 1 : n = 1 \/ (n \in 2 .. Len(Bots) + 1 /\ n - 1 \in 1 .. Len(Bots))
      BY <1>2
    <2>5. \A n \in 1 .. Len(Bots) + 1 : (<<Host>> \o Bots)[n] \in Range(Bots) \union {Host}
      BY <1>2, <1>3, <2>4 DEF Range
    <2>6. QED
      BY <1>3, <2>3, <2>5 DEF Range
  <1>6. JoinOrder \in Seq(Ids) /\ Range(JoinOrder) = Range(Bots) \union {Host}
    BY <1>1, AppendRange DEF JoinOrder
  <1>7. QED
    BY <1>3, <1>4, <1>5, <1>6

LEMMA InitSlots == Init => SlotInv
  <1> SUFFICES ASSUME Init PROVE SlotInv
    OBVIOUS
  <1>1. NumSlots \in Nat /\ NumSlots > Len(Bots) /\ Len(Bots) \in Nat
    BY BoundsAssumption, IdsAssumption
  <1>2. ASSUME NEW p \in Procs PROVE Once(roster[p]) /\ Len(roster[p]) <= NumSlots
    <2>1. CASE p = Host
      <3>1. roster[p] = <<Host>> \o Bots
        BY <2>1 DEF Init
      <3>2. QED
        BY <1>1, <3>1, FirstSlots
    <2>2. CASE p # Host
      <3>1. roster[p] = <<p>>
        BY <2>2 DEF Init
      <3>2. QED
        BY <1>1, <3>1 DEF Once
    <2>3. QED
      BY <2>1, <2>2
  <1>3. \A c \in Clients : At(c) = {<<>>}
    BY DEF Init, At, Range, Procs
  <1>4. QED
    BY <1>2, <1>3 DEF SlotInv, IdsOnce

LEMMA NextSlotInv ==
  ASSUME TypeOK, SlotInv, [Next]_vars
  PROVE  SlotInv'
  <1>1. Host \in Procs
    BY IdFacts
  <1>2. ASSUME NEW p \in Procs PROVE Once(roster'[p]) /\ Len(roster'[p]) <= NumSlots
    <2>1. roster[p] \in Seq(Ids) /\ NumSlots \in Nat
      BY BoundsAssumption DEF TypeOK
    <2>2. Once(roster[p]) /\ Len(roster[p]) <= NumSlots
      BY DEF SlotInv
    <2>3. CASE roster'[p] = roster[p]
      BY <2>2, <2>3
    <2>4. CASE roster'[p] # roster[p]
      <3> DEFINE i == Record(p).id
      <3>1. i \in Ids /\ i \notin Known(p) /\ Len(roster[p]) < NumSlots
            /\ roster'[p] = Append(roster[p], i)
        BY <2>4, NewSlots
      <3> HIDE DEF i
      <3>2. Once(roster'[p])
        BY <2>1, <2>2, <3>1, AppendOnce DEF Known
      <3>3. Len(roster'[p]) = Len(roster[p]) + 1
        BY <2>1, <3>1
      <3>4. QED
        BY <2>1, <3>1, <3>2, <3>3
    <2>5. QED
      BY <2>3, <2>4
  <1>3. IdsOnce(Snapshot)
    BY <1>1 DEF Snapshot, RecordOf, IdsOnce, SlotInv, Once
  <1>4. IdsOnce(<<>>)
    BY DEF IdsOnce
  <1>5. \A c \in Clients : \A s \in At(c)' : IdsOnce(s)
    BY <1>3, <1>4, Deliveries DEF SlotInv
  <1>6. QED
    BY <1>2, <1>5 DEF SlotInv, IdsOnce, Once

-----------------------------------------------------------------------------
(* What a step does to rosters and teams.                                  *)

\* At a free-for-all's server a player gets an empty team, if there is one.
LEMMA FreeTeam ==
  ASSUME NEW tm, Mode # "ctf"
  PROVE  /\ NewTeam(tm) = 0 => \A t \in Teams : Members(tm, t) # {}
         /\ NewTeam(tm) # 0 => NewTeam(tm) \in Teams /\ Members(tm, NewTeam(tm)) = {}
  <1> DEFINE empty == {t \in Teams : Members(tm, t) = {}}
  <1>1. CASE empty = {}
    BY <1>1 DEF NewTeam, FirstEmptyTeam
  <1>2. CASE empty # {}
    <2>1. empty \in SUBSET Nat
      BY DEF Teams
    <2>2. \E t \in empty : \A u \in empty : t <= u
      BY <1>2, <2>1, LeastNatural
    <2>3. NewTeam(tm) \in empty
      BY <1>2, <2>2 DEF NewTeam, FirstEmptyTeam
    <2>4. 0 \notin Teams
      BY DEF Teams
    <2>5. QED
      BY <2>3, <2>4
  <1>3. QED
    BY <1>1, <1>2

\* A player of capture the flag always gets a team.
LEMMA FlagTeam == ASSUME NEW tm, Mode = "ctf" PROVE NewTeam(tm) \in Teams
  BY BoundsAssumption DEF NewTeam, SmallerTeam, Teams

\* A copy that is processed has a slot afterwards.
LEMMA SlotGiven ==
  ASSUME TypeOK, NEW p \in Procs, NEW i \in Ids, roster' = RosterWith(p, i)
  PROVE  /\ Known(p)' = Known(p) \union {i}
         /\ \A q \in Procs \ {p} : roster'[q] = roster[q]
  <1>1. roster \in [Procs -> Seq(Ids) \ {<<>>}]
    BY DEF TypeOK
  <1>2. CASE i \in Known(p)
    BY <1>2 DEF RosterWith, Known
  <1>3. CASE i \notin Known(p)
    <2>1. roster' = [roster EXCEPT ![p] = Append(roster[p], i)]
      BY <1>3 DEF RosterWith
    <2>2. roster'[p] = Append(roster[p], i) /\ \A q \in Procs \ {p} : roster'[q] = roster[q]
      BY <1>1, <2>1
    <2>3. QED
      BY <1>1, <2>2, AppendRange DEF Known
  <1>4. QED
    BY <1>2, <1>3

\* Only the process that processes a record changes its slots and teams.
LEMMA TablesOf ==
  ASSUME TypeOK, [Next]_vars, NEW p \in Procs
  PROVE  \/ roster'[p] = roster[p] /\ team'[p] = team[p]
         \/ /\ ProcessOwn(p) /\ p # Host /\ pc[p] = "apply" /\ Record(p).id = p
            /\ roster'[p] = roster[p]
            /\ \A i \in Ids : team'[p][i] = IF i = p THEN Record(p).team ELSE team[p][i]
         \/ /\ ProcessCopy(p) /\ pc[p] = "apply" /\ Record(p).id \in Ids \ {p}
            /\ Known(p)' = Known(p) \union {Record(p).id}
            /\ \A i \in Ids : team'[p][i] =
                  IF i # Record(p).id THEN team[p][i]
                  ELSE IF p # Host THEN Record(p).team
                  ELSE IF team[Host][i] = 0 THEN NewTeam(team[Host]) ELSE team[Host][i]
  <1>1. /\ roster \in [Procs -> Seq(Ids) \ {<<>>}] /\ team \in [Procs -> [Ids -> 0 .. NumTeams]]
        /\ Procs \subseteq Ids
    BY IdFacts DEF TypeOK
  <1>2. ASSUME NEW q \in Procs, ProcessOwn(q), roster'[p] # roster[p] \/ team'[p] # team[p]
        PROVE  /\ p = q /\ p # Host /\ pc[p] = "apply" /\ Record(p).id = p
               /\ roster'[p] = roster[p]
               /\ \A i \in Ids : team'[p][i] = IF i = p THEN Record(p).team ELSE team[p][i]
    <2> DEFINE r == Record(q)
    <2>1. /\ pc[q] = "apply" /\ r.id = q /\ roster' = roster
          /\ team' = IF q = Host THEN team ELSE [team EXCEPT ![q][q] = r.team]
      BY <1>2 DEF ProcessOwn
    <2>2. q = p /\ p # Host
      BY <1>1, <1>2, <2>1
    <2>3. \A i \in Ids : team'[p][i] = IF i = p THEN r.team ELSE team[p][i]
      BY <1>1, <2>1, <2>2
    <2>4. QED
      BY <2>1, <2>2, <2>3
  <1>3. ASSUME NEW q \in Procs, ProcessCopy(q), roster'[p] # roster[p] \/ team'[p] # team[p]
        PROVE  /\ p = q /\ pc[p] = "apply" /\ Record(p).id \in Ids \ {p}
               /\ Known(p)' = Known(p) \union {Record(p).id}
               /\ \A i \in Ids : team'[p][i] =
                     IF i # Record(p).id THEN team[p][i]
                     ELSE IF p # Host THEN Record(p).team
                     ELSE IF team[Host][i] = 0 THEN NewTeam(team[Host]) ELSE team[Host][i]
    <2> DEFINE r == Record(q)
               t == IF q # Host THEN r.team
                    ELSE IF team[q][r.id] = 0 THEN NewTeam(team[Host]) ELSE team[q][r.id]
    <2>1. /\ pc[q] = "apply" /\ r.id # q /\ roster' = RosterWith(q, r.id)
          /\ team' = TeamAfter(q, r)
      BY <1>3 DEF ProcessCopy
    <2>2. r.id \in Ids
      BY <2>1, RecordIsNetPlayer
    <2>3. team' = [team EXCEPT ![q][r.id] = t]
      BY <2>1 DEF TeamAfter
    <2>4. Known(q)' = Known(q) \union {r.id} /\ \A o \in Procs \ {q} : roster'[o] = roster[o]
      BY <2>1, <2>2, SlotGiven
    <2> HIDE DEF t, r
    <2>5. q = p
      BY <1>1, <1>3, <2>3, <2>4
    <2>6. \A i \in Ids : team'[p][i] = IF i # r.id THEN team[p][i] ELSE t
      BY <1>1, <2>2, <2>3, <2>5
    <2>7. QED
      BY <2>1, <2>2, <2>4, <2>5, <2>6 DEF t, r
  <1>4. \/ roster' = roster /\ team' = team
        \/ \E q \in Procs : ProcessOwn(q) \/ ProcessCopy(q)
    BY DEF Next, Step, MatchOver, HandleNetworkingHost, HandleNetworkingClient, SyncTeams,
           ProcessNetPacket, ProcessDropped, ProcessExits, Play, DamagePlayer, FinishFrame
  <1>5. QED
    BY <1>2, <1>3, <1>4

-----------------------------------------------------------------------------
(* Teams. The server takes no team from a player who has a slot, and what  *)
(* its snapshots say of slots and teams stays true.                        *)

\* No team of a free-for-all is left for another player.
TeamsAreFull == Mode = "ffa" /\ \A t \in Teams : Members(team[Host], t) # {}

\* A team of a free-for-all is one player's.
OneMember ==
  Mode = "ffa" =>
    \A i, j \in Ids : team[Host][i] = team[Host][j] /\ team[Host][i] # 0 => i = j

\* The server gives a player a team with his slot, unless there is none left.
HostFirm ==
  /\ \A i \in Ids \ Known(Host) : team[Host][i] = 0
  /\ \A i \in Known(Host) : team[Host][i] = 0 => TeamsAreFull
  /\ OneMember

\* A record of a snapshot is true for good of the player's slot and team.
Sent(r) == r.id \in Known(Host) /\ r.team = team[Host][r.id]

\* So is what a client knows of others, and all that it still has to read.
FirmInv ==
  /\ HostFirm
  /\ \A c \in Clients : \A i \in Known(c) \ {c} :
        i \in Known(Host) /\ team[c][i] = team[Host][i]
  /\ \A c \in Clients : \A s \in At(c) : \A n \in DOMAIN s : Sent(s[n])

\* The server takes no slot and no team from a player who has a slot.
TeamsFirm ==
  /\ Known(Host) \subseteq Known(Host)'
  /\ \A i \in Known(Host) : team'[Host][i] = team[Host][i]

LEMMA HostFirmStep ==
  ASSUME TypeOK, TypeOK', HostFirm, [Next]_vars
  PROVE  HostFirm' /\ TeamsFirm
  <1>1. Host \in Procs /\ Known(Host) \subseteq Ids
    BY IdFacts, KnownIds
  <1>2. CASE roster'[Host] = roster[Host] /\ team'[Host] = team[Host]
    BY <1>2 DEF HostFirm, TeamsFirm, TeamsAreFull, OneMember, Known, Members
  <1>3. ASSUME NEW i \in Ids, Known(Host)' = Known(Host) \union {i},
               \A j \in Ids : team'[Host][j] =
                  IF j # i THEN team[Host][j]
                  ELSE IF team[Host][j] = 0 THEN NewTeam(team[Host]) ELSE team[Host][j]
        PROVE  HostFirm' /\ TeamsFirm
    <2> DEFINE t == NewTeam(team[Host])
    <2>1. \A j \in Ids : team[Host][j] # 0 => team'[Host][j] = team[Host][j]
      BY <1>3
    <2>2. TeamsAreFull => t = 0
      <3>1. 0 \notin Teams
        BY DEF Teams
      <3>2. Mode = "ffa" => Mode # "ctf"
        OBVIOUS
      <3>3. QED
        BY <3>1, <3>2, FreeTeam DEF TeamsAreFull
    <2>3. t = 0 => TeamsAreFull
      <3>1. 0 \notin Teams /\ Mode \in {"ffa", "ctf"}
        BY BoundsAssumption DEF Teams
      <3>2. QED
        BY <3>1, FreeTeam, FlagTeam DEF TeamsAreFull
    <2>4. ASSUME TeamsAreFull PROVE TeamsAreFull'
      <3>1. ASSUME NEW u \in Teams PROVE Members(team'[Host], u) # {}
        <4>1. PICK j \in Ids : team[Host][j] = u
          BY <2>4 DEF TeamsAreFull, Members
        <4>2. u # 0
          BY DEF Teams
        <4>3. team'[Host][j] = u
          BY <2>1, <4>1, <4>2
        <4>4. QED
          BY <4>3 DEF Members
      <3>2. QED
        BY <2>4, <3>1 DEF TeamsAreFull, Members
    <2>5. ASSUME NEW j \in Ids \ Known(Host)' PROVE team'[Host][j] = 0
      BY <1>3, <2>5 DEF HostFirm
    <2>6. ASSUME NEW j \in Known(Host)', team'[Host][j] = 0 PROVE TeamsAreFull'
      <3>1. CASE j # i
        <4>1. j \in Known(Host) /\ j \in Ids /\ team[Host][j] = 0
          BY <1>1, <1>3, <2>6, <3>1
        <4>2. QED
          BY <2>4, <4>1 DEF HostFirm
      <3>2. CASE j = i
        <4>1. t = 0
          BY <1>3, <2>6, <3>2
        <4>2. QED
          BY <2>3, <2>4, <4>1
      <3>3. QED
        BY <3>1, <3>2
    <2>7. OneMember'
      <3> SUFFICES ASSUME Mode = "ffa", NEW j \in Ids, NEW k \in Ids,
                          team'[Host][j] = team'[Host][k], team'[Host][j] # 0
                   PROVE  j = k
        BY DEF OneMember
      <3>1. \A l \in Ids :
            \/ team'[Host][l] = team[Host][l]
            \/ l = i /\ team[Host][i] = 0 /\ team'[Host][i] = t
        BY <1>3
      <3>2. t # 0 => \A l \in Ids : team[Host][l] # t
        <4>1. Mode # "ctf"
          OBVIOUS
        <4>2. QED
          BY <4>1, FreeTeam DEF Members
      <3> HIDE DEF t
      <3>3. CASE team'[Host][j] = team[Host][j] /\ team'[Host][k] = team[Host][k]
        BY <3>3 DEF HostFirm, OneMember
      <3>4. CASE j # k /\ j = i
        BY <3>1, <3>2, <3>3, <3>4
      <3>5. CASE j # k /\ k = i
        BY <3>1, <3>2, <3>3, <3>5
      <3>6. QED
        BY <3>1, <3>3, <3>4, <3>5
    <2>8. TeamsFirm
      <3>1. ASSUME NEW j \in Known(Host) PROVE team'[Host][j] = team[Host][j]
        <4>1. j \in Ids
          BY <1>1
        <4>2. CASE team[Host][j] = 0
          <5>1. t = 0
            BY <2>2, <4>2 DEF HostFirm
          <5>2. QED
            BY <1>3, <4>1, <4>2, <5>1
        <4>3. QED
          BY <2>1, <4>1, <4>2
      <3>2. QED
        BY <1>3, <3>1 DEF TeamsFirm
    <2>9. QED
      BY <2>5, <2>6, <2>7, <2>8 DEF HostFirm
  <1>4. QED
    BY <1>1, <1>2, <1>3, TablesOf

LEMMA InitFirm == Init => FirmInv
  <1> SUFFICES ASSUME Init PROVE FirmInv
    OBVIOUS
  <1> DEFINE tm == team[Host]
             um(n) == [i \in Ids |-> IF \E m \in 1 .. n - 1 : JoinOrder[m] = i
                                     THEN tm[i] ELSE 0]
  <1>1. Host \in Procs /\ tm \in FirstTeams
    BY IdFacts DEF Init
  <1>2. /\ \A i \in Ids \ Range(JoinOrder) : tm[i] = 0
        /\ \A n \in DOMAIN JoinOrder : tm[JoinOrder[n]] = NewTeam(um(n))
    BY <1>1 DEF FirstTeams
  <1>3. Known(Host) = Range(JoinOrder)
    BY <1>1, FirstSlots DEF Init, Known
  <1>4. JoinOrder \in Seq(Ids) /\ DOMAIN JoinOrder = 1 .. Len(JoinOrder) /\ Len(JoinOrder) \in Nat
    BY FirstSlots
  <1>5. \A n : \A i \in Ids : um(n)[i] # 0 => um(n)[i] = tm[i]
    OBVIOUS
  <1>6. \A n : \A m \in 1 .. n - 1 : JoinOrder[m] \in Ids =>
          um(n)[JoinOrder[m]] = tm[JoinOrder[m]]
    OBVIOUS
  <1> HIDE DEF um, tm
  <1>7. ASSUME NEW i \in Known(Host), tm[i] = 0 PROVE TeamsAreFull
    <2>1. PICK n \in DOMAIN JoinOrder : i = JoinOrder[n]
      BY <1>3 DEF Range
    <2>2. NewTeam(um(n)) = 0
      BY <1>2, <1>7, <2>1
    <2>3. 0 \notin Teams /\ Mode \in {"ffa", "ctf"}
      BY BoundsAssumption DEF Teams
    <2>4. Mode = "ffa" /\ Mode # "ctf"
      BY <2>2, <2>3, FlagTeam
    <2>5. \A t \in Teams : Members(um(n), t) # {}
      BY <2>2, <2>4, FreeTeam
    <2>6. \A t \in Teams : Members(tm, t) # {}
      BY <1>5, <2>3, <2>5 DEF Members
    <2>7. QED
      BY <2>4, <2>6 DEF TeamsAreFull, tm
  <1>8. OneMember
    <2> SUFFICES ASSUME Mode = "ffa", NEW i \in Ids, NEW j \in Ids, tm[i] = tm[j], tm[i] # 0
                 PROVE  i = j
      BY DEF OneMember, tm
    <2>1. ASSUME NEW m \in DOMAIN JoinOrder, NEW n \in DOMAIN JoinOrder, m < n,
                 tm[JoinOrder[m]] = tm[JoinOrder[n]], tm[JoinOrder[n]] # 0
          PROVE  FALSE
      <3> DEFINE t == NewTeam(um(n))
      <3>1. Mode # "ctf" /\ t = tm[JoinOrder[n]] /\ t # 0
        BY <1>2, <2>1
      <3>2. Members(um(n), t) = {}
        BY <3>1, FreeTeam
      <3>3. m \in 1 .. n - 1 /\ JoinOrder[m] \in Ids
        BY <1>4, <2>1
      <3>4. um(n)[JoinOrder[m]] = t
        BY <1>6, <2>1, <3>1, <3>3
      <3>5. QED
        BY <3>2, <3>3, <3>4 DEF Members
    <2>2. i \in Range(JoinOrder) /\ j \in Range(JoinOrder)
      BY <1>2
    <2>3. PICK m \in DOMAIN JoinOrder, n \in DOMAIN JoinOrder : i = JoinOrder[m] /\ j = JoinOrder[n]
      BY <2>2 DEF Range
    <2>4. m < n \/ n < m \/ m = n
      BY <1>4
    <2>5. QED
      BY <2>1, <2>3, <2>4
  <1>9. HostFirm
    BY <1>2, <1>3, <1>7, <1>8 DEF HostFirm, tm
  <1>10. ASSUME NEW c \in Clients PROVE At(c) = {<<>>} /\ Known(c) = {c}
    <2>1. c \in Procs /\ c # Host
      BY IdFacts DEF Procs
    <2>2. roster[c] = <<c>> /\ inbox[c] = <<>> /\ toClient[c] = <<>>
      BY <2>1 DEF Init
    <2>3. QED
      BY <2>2 DEF At, Known, Range
  <1>11. QED
    BY <1>9, <1>10 DEF FirmInv

\* The record under a client's loop comes from a snapshot.
LEMMA RecordIsSent ==
  ASSUME TypeOK, FirmInv, NEW c \in Clients, pc[c] = "apply"
  PROVE  Sent(Record(c))
  <1>1. next[c] \in DOMAIN inbox[c]
    BY DEF TypeOK, Procs
  <1>2. inbox[c] \in At(c)
    BY DEF At
  <1>3. QED
    BY <1>1, <1>2 DEF FirmInv, Record

LEMMA NextFirm ==
  ASSUME TypeOK, TypeOK', FirmInv, [Next]_vars
  PROVE  FirmInv' /\ TeamsFirm
  <1>1. HostFirm' /\ TeamsFirm
    BY HostFirmStep DEF FirmInv
  <1>2. ASSUME NEW r, Sent(r) PROVE Sent(r)'
    BY <1>1, <1>2 DEF Sent, TeamsFirm
  <1>3. ASSUME NEW c \in Clients, NEW i \in Known(c)' \ {c}
        PROVE  i \in Known(Host)' /\ team'[c][i] = team'[Host][i]
    <2>1. c \in Procs /\ c # Host /\ c \in Ids
      BY IdFacts DEF Procs
    <2>2. i \in Ids
      <3>1. roster'[c] \in Seq(Ids)
        BY <2>1 DEF TypeOK
      <3>2. QED
        BY <3>1 DEF Known, Range
    <2>3. CASE i \in Known(c) /\ team'[c][i] = team[c][i]
      BY <1>1, <2>3 DEF FirmInv, TeamsFirm
    <2>4. CASE pc[c] = "apply" /\ i = Record(c).id /\ team'[c][i] = Record(c).team
      <3>1. Sent(Record(c))
        BY <2>4, RecordIsSent
      <3>2. QED
        BY <1>1, <2>4, <3>1 DEF Sent, TeamsFirm
    <2>5. CASE roster'[c] = roster[c] /\ \A j \in Ids \ {c} : team'[c][j] = team[c][j]
      BY <2>2, <2>3, <2>5 DEF Known
    <2>6. CASE pc[c] = "apply" /\ Known(c)' = Known(c) \union {Record(c).id}
               /\ \A j \in Ids : team'[c][j] = IF j # Record(c).id THEN team[c][j] ELSE Record(c).team
      BY <2>2, <2>3, <2>4, <2>6
    <2>7. QED
      BY <2>1, <2>5, <2>6, TablesOf
  <1>4. ASSUME NEW c \in Clients, NEW s \in At(c)', NEW n \in DOMAIN s PROVE Sent(s[n])'
    <2>1. CASE s \in At(c)
      BY <1>2, <2>1 DEF FirmInv
    <2>2. CASE s = Snapshot
      <3>1. Sent(Snapshot[n])
        BY <2>2 DEF Sent, Snapshot, RecordOf, Known, Range
      <3>2. QED
        BY <1>2, <2>2, <3>1
    <2>3. CASE s = <<>>
      BY <2>3
    <2>4. QED
      BY <2>1, <2>2, <2>3, Deliveries
  <1>5. QED
    BY <1>1, <1>3, <1>4 DEF FirmInv

-----------------------------------------------------------------------------
(* Finite sets, and one step of a process.                                 *)

\* The members of a list are no more than its places.
LEMMA ListRange ==
  ASSUME NEW S, NEW s \in Seq(S)
  PROVE  /\ IsFiniteSet(Range(s)) /\ Cardinality(Range(s)) \in Nat
         /\ Cardinality(Range(s)) <= Len(s)
         /\ Once(s) => Cardinality(Range(s)) = Len(s)
  <1>1. Len(s) \in Nat /\ DOMAIN s = 1 .. Len(s)
    OBVIOUS
  <1>2. s \in Surjection(1 .. Len(s), Range(s))
    BY <1>1 DEF Surjection, Range
  <1>3. IsFiniteSet(1 .. Len(s)) /\ Cardinality(1 .. Len(s)) = Len(s)
    <2>1. 1 \in Int /\ Len(s) \in Int
      BY <1>1
    <2>2. /\ IsFiniteSet(1 .. Len(s))
          /\ Cardinality(1 .. Len(s)) = IF 1 > Len(s) THEN 0 ELSE Len(s) - 1 + 1
      BY <2>1, FS_Interval
    <2>3. QED
      BY <1>1, <2>2
  <1>4. /\ IsFiniteSet(Range(s)) /\ Cardinality(Range(s)) <= Len(s)
        /\ Cardinality(Range(s)) = Len(s) <=> s \in Injection(1 .. Len(s), Range(s))
    BY <1>2, <1>3, FS_Surjection
  <1>5. Cardinality(Range(s)) \in Nat
    BY <1>4, FS_CardinalityType
  <1>6. Once(s) => s \in Injection(1 .. Len(s), Range(s))
    BY <1>1, <1>2 DEF Once, Injection, IsInjective, Surjection
  <1>7. QED
    BY <1>4, <1>5, <1>6

LEMMA FinitePlayers == IsFiniteSet(Players) /\ Cardinality(Players) \in Nat
  <1>1. IsFiniteSet(Clients) /\ Bots \in Seq(Range(Bots))
    BY IdsAssumption
  <1>2. IsFiniteSet(Range(Bots))
    BY <1>1, ListRange
  <1>3. IsFiniteSet({Host})
    BY FS_Singleton
  <1>4. IsFiniteSet(Procs)
    BY <1>1, <1>3, FS_Union DEF Procs
  <1>5. IsFiniteSet(Players)
    BY <1>2, <1>4, FS_Union DEF Players
  <1>6. QED
    BY <1>5, FS_CardinalityType

-----------------------------------------------------------------------------
(* How clients join.                                                       *)

\* A step concerns the loop and the tables of one process only.
LEMMA OneProcess ==
  ASSUME TypeOK, [Next]_vars, NEW p \in Procs
  PROVE  \/ /\ pc'[p] = pc[p] /\ next'[p] = next[p] /\ inbox'[p] = inbox[p]
            /\ roster'[p] = roster[p] /\ team'[p] = team[p]
         \/ p = Host /\ HandleNetworkingHost
         \/ p \in Clients /\ (HandleNetworkingClient(p) \/ SyncTeams(p))
         \/ Step(p)
  <1> DEFINE Same == /\ pc'[p] = pc[p] /\ next'[p] = next[p] /\ inbox'[p] = inbox[p]
                     /\ roster'[p] = roster[p] /\ team'[p] = team[p]
  <1>1. /\ DOMAIN pc = Procs /\ DOMAIN next = Procs /\ DOMAIN inbox = Procs
        /\ DOMAIN roster = Procs /\ DOMAIN team = Procs
        /\ team \in [Procs -> [Ids -> 0 .. NumTeams]] /\ Procs \subseteq Ids
    BY IdFacts DEF TypeOK
  <1>2. CASE HandleNetworkingHost /\ p # Host
    <2>1. /\ \E stage : pc' = [pc EXCEPT ![Host] = stage]
          /\ inbox' = inbox \/ \E records : inbox' = [inbox EXCEPT ![Host] = records]
          /\ UNCHANGED <<roster, team, next>>
      BY <1>2 DEF HandleNetworkingHost, Goto
    <2>2. QED
      BY <1>1, <1>2, <2>1
  <1>3. ASSUME NEW c \in Clients, HandleNetworkingClient(c), p # c PROVE Same
    <2>1. /\ \E stage : pc' = [pc EXCEPT ![c] = stage]
          /\ inbox' = inbox \/ \E records : inbox' = [inbox EXCEPT ![c] = records]
          /\ UNCHANGED <<roster, team, next>>
      BY <1>3 DEF HandleNetworkingClient, Goto
    <2>2. QED
      BY <1>1, <1>3, <2>1
  <1>4. ASSUME NEW c \in Clients, SyncTeams(c), p # c PROVE Same
    <2>1. /\ \E stage : pc' = [pc EXCEPT ![c] = stage]
          /\ inbox' = [inbox EXCEPT ![c] = <<>>]
          /\ UNCHANGED <<roster, team, next>>
      BY <1>4 DEF SyncTeams, Goto
    <2>2. QED
      BY <1>1, <1>4, <2>1
  <1>5. ASSUME NEW q \in Procs, Step(q), p # q PROVE Same
    <2>1. ASSUME Advance(q) PROVE pc'[p] = pc[p] /\ next'[p] = next[p] /\ inbox'[p] = inbox[p]
      <3>1. /\ pc' = pc \/ \E stage : pc' = [pc EXCEPT ![q] = stage]
            /\ \E n : next' = [next EXCEPT ![q] = n]
            /\ inbox' = inbox \/ inbox' = [inbox EXCEPT ![q] = <<>>]
        <4>1. CASE next[q] < Len(inbox[q])
          BY <2>1, <4>1 DEF Advance
        <4>2. CASE ~(next[q] < Len(inbox[q])) /\ q = Host
          BY <2>1, <4>2 DEF Advance, Goto
        <4>3. CASE ~(next[q] < Len(inbox[q])) /\ q # Host
          BY <2>1, <4>3 DEF Advance, Goto
        <4>4. QED
          BY <4>1, <4>2, <4>3
      <3>2. QED
        BY <1>1, <1>5, <3>1
    <2>2. CASE ProcessDropped(q)
      BY <2>1, <2>2 DEF ProcessDropped
    <2>3. CASE ProcessOwn(q)
      <3>1. /\ Advance(q) /\ roster' = roster
            /\ team' = team \/ \E t : team' = [team EXCEPT ![q][q] = t]
        BY <2>3 DEF ProcessOwn
      <3>2. team'[p] = team[p]
        BY <1>1, <1>5, <3>1
      <3>3. QED
        BY <2>1, <3>1, <3>2
    <2>4. CASE ProcessCopy(q)
      <3> DEFINE i == Record(q).id
      <3>1. pc[q] = "apply" /\ Advance(q) /\ roster' = RosterWith(q, i)
            /\ team' = TeamAfter(q, Record(q))
        BY <2>4 DEF ProcessCopy
      <3>2. i \in Ids
        BY <3>1, RecordIsNetPlayer
      <3>3. \E t : team' = [team EXCEPT ![q][i] = t]
        BY <3>1 DEF TeamAfter
      <3> HIDE DEF i
      <3>4. team'[p] = team[p]
        BY <1>1, <1>5, <3>2, <3>3
      <3>5. roster'[p] = roster[p]
        BY <1>5, <3>1, <3>2, SlotGiven
      <3>6. QED
        BY <2>1, <3>1, <3>4, <3>5
    <2>5. CASE ProcessExits(q)
      BY <1>1, <1>5, <2>5 DEF ProcessExits, Goto
    <2>6. CASE Play(q)
      BY <2>6 DEF Play, DamagePlayer
    <2>7. CASE FinishFrame(q)
      <3>1. (\E stage : pc' = [pc EXCEPT ![q] = stage]) /\ UNCHANGED <<roster, team, inbox, next>>
        BY <2>7 DEF FinishFrame, Goto
      <3>2. QED
        BY <1>1, <1>5, <3>1
    <2>8. QED
      BY <1>5, <2>2, <2>3, <2>4, <2>5, <2>6, <2>7 DEF Step, ProcessNetPacket
  <1>6. CASE UNCHANGED vars
    BY <1>6
  <1> HIDE DEF Same
  <1>7. \/ Same
        \/ p = Host /\ HandleNetworkingHost
        \/ p \in Clients /\ (HandleNetworkingClient(p) \/ SyncTeams(p))
        \/ Step(p)
    BY <1>2, <1>3, <1>4, <1>5, <1>6 DEF Next, MatchOver, Same
  <1>8. QED
    BY <1>7 DEF Same

\* The loop over the records goes on to the next one, or ends after the last.
LEMMA AdvanceTo ==
  ASSUME TypeOK, NEW p \in Procs, pc[p] = "apply", Advance(p)
  PROVE  \/ /\ next[p] < Len(inbox[p]) /\ next'[p] = next[p] + 1
            /\ pc'[p] = "apply" /\ inbox'[p] = inbox[p]
         \/ /\ next[p] = Len(inbox[p]) /\ p = Host /\ pc'[p] = "play"
         \/ /\ next[p] = Len(inbox[p]) /\ p # Host /\ pc'[p] = "teams" /\ inbox'[p] = inbox[p]
  <1>1. /\ next[p] \in 1 .. Len(inbox[p]) /\ Len(inbox[p]) \in Nat
        /\ DOMAIN next = Procs /\ DOMAIN pc = Procs /\ DOMAIN inbox = Procs
    BY DEF TypeOK
  <1>2. CASE next[p] < Len(inbox[p])
    BY <1>1, <1>2 DEF Advance
  <1>3. CASE ~(next[p] < Len(inbox[p])) /\ p = Host
    BY <1>1, <1>3 DEF Advance, Goto
  <1>4. CASE ~(next[p] < Len(inbox[p])) /\ p # Host
    BY <1>1, <1>4 DEF Advance, Goto
  <1>5. QED
    BY <1>2, <1>3, <1>4

-----------------------------------------------------------------------------
(* The invariant: a client that has processed its first snapshot has a     *)
(* slot and its team, or has found that the server has no slot for it, or  *)
(* the server has lost its first datagrams.                                *)

\* A snapshot tells client c that it has a slot, or that there is none for it.
Answers(c, s) == (\E n \in DOMAIN s : s[n].id = c) \/ Len(s) = NumSlots

\* The server has a slot for an address, or no slot left, or has yet to process
\* a record of that client, or has lost its first ones, or is gone.
Joins(c) ==
  \/ c \in missed
  \/ c \in Known(Host)
  \/ pc[Host] = "exit_killer"
  \/ Len(roster[Host]) = NumSlots
  \/ pc[Host] = "apply" /\ \E n \in next[Host] .. Len(inbox[Host]) : inbox[Host][n].id = c

\* Client c has processed record r.
Done(c, r) ==
  /\ r.id \in Known(c) \/ Len(roster[c]) = NumSlots
  /\ r.id = c => team[c][c] = team[Host][c]

Seated(c) == c \in Known(Host) /\ team[c][c] = team[Host][c]

AddressesJoin == \A c \in addrs : Joins(c)
SnapshotsAnswer ==
  \A c \in Clients \ missed : \A s \in At(c) : s # <<>> => Answers(c, s)

\* The records of its buffer that client c has processed.
Processed(c) ==
  IF pc[c] = "apply" THEN 1 .. next[c] - 1
  ELSE IF pc[c] = "teams" THEN DOMAIN inbox[c] ELSE {}

LoopDone ==
  \A c \in Clients :
    /\ \A n \in Processed(c) : Done(c, inbox[c][n])
    /\ pc[c] = "teams" => inbox[c] # <<>>

PlayersSeated ==
  \A c \in Clients \ missed :
    pc[c] \in {"net", "play"} => Known(c) = {c} \/ Seated(c)

JoinInv ==
  /\ RelayInv /\ SlotInv /\ FirmInv
  /\ AddressesJoin /\ SnapshotsAnswer /\ LoopDone /\ PlayersSeated

LEMMA InitJoin == Init => JoinInv
  <1> SUFFICES ASSUME Init PROVE JoinInv
    OBVIOUS
  <1>1. RelayInv /\ SlotInv /\ FirmInv
    BY InitRelay, InitSlots, InitFirm
  <1>2. addrs = {} /\ \A p \in Procs : pc[p] = "net"
    BY DEF Init
  <1>3. ASSUME NEW c \in Clients PROVE At(c) = {<<>>} /\ Known(c) = {c} /\ c \in Procs
    <2>1. c \in Procs /\ c # Host
      BY IdFacts DEF Procs
    <2>2. roster[c] = <<c>> /\ inbox[c] = <<>> /\ toClient[c] = <<>>
      BY <2>1 DEF Init
    <2>3. QED
      BY <2>1, <2>2 DEF At, Known, Range
  <1>4. QED
    BY <1>1, <1>2, <1>3
    DEF JoinInv, AddressesJoin, SnapshotsAnswer, LoopDone, Processed, PlayersSeated

\* A slot of the server is never lost, and a full table stays full.
LEMMA SeatStays ==
  ASSUME TypeOK, SlotInv, TeamsFirm, [Next]_vars, NEW c
  PROVE  /\ c \in Known(Host) => c \in Known(Host)'
         /\ Len(roster[Host]) = NumSlots => Len(roster'[Host]) = NumSlots
  <1>1. Host \in Procs /\ NumSlots \in Nat
    BY IdFacts, BoundsAssumption
  <1>2. QED
    BY <1>1, NewSlots DEF TeamsFirm

\* What the server loses it does not find again.
LEMMA MissedGrows ==
  ASSUME [Next]_vars
  PROVE  missed \subseteq missed'
  BY DEF Next, Step, MatchOver, HandleNetworkingHost, HandleNetworkingClient, SyncTeams,
         ProcessNetPacket, ProcessDropped, ProcessOwn, ProcessCopy, ProcessExits, Play,
         DamagePlayer, FinishFrame, vars, network

\* Of a batch the server finds a record of each sender, but for the overwritten.
LEMMA FirstOrLast ==
  ASSUME NEW batch \in Seq(NetPlayer), NEW records \in NetPlayersOf(batch),
         NEW n \in DOMAIN batch, batch[n].id \notin Overwritten(batch)
  PROVE  \E m \in 1 .. Len(records) : records[m].id = batch[n].id
  <1>1. Len(batch) \in Nat /\ DOMAIN batch = 1 .. Len(batch)
    OBVIOUS
  <1>2. batch[n].id \in {r.id : r \in Range(batch)}
    BY DEF Range
  <1>3. PICK m \in DOMAIN batch \cap {1, Len(batch)} : batch[n].id = batch[m].id
    BY <1>2 DEF Overwritten
  <1>4. CASE Len(batch) <= 2
    <2>1. records = batch
      BY <1>4 DEF NetPlayersOf
    <2>2. QED
      BY <1>1, <2>1
  <1>5. CASE Len(batch) > 2
    <2>1. Len(records) = Len(batch) /\ records[1] = batch[1] /\ records[2] = batch[Len(batch)]
      BY <1>5, NetPlayersShape
    <2>2. records[1].id = batch[n].id \/ records[2].id = batch[n].id
      BY <1>3, <2>1
    <2>3. 1 \in 1 .. Len(records) /\ 2 \in 1 .. Len(records)
      BY <1>1, <1>5, <2>1
    <2>4. QED
      BY <2>2, <2>3
  <1>6. QED
    BY <1>1, <1>4, <1>5

LEMMA NextAddresses ==
  ASSUME JoinInv, TypeOK', TeamsFirm, [Next]_vars
  PROVE  AddressesJoin'
  <1>1. TypeOK /\ SlotInv /\ AddressesJoin /\ RelayInv /\ missed \subseteq missed'
    BY MissedGrows DEF JoinInv, RelayInv, KillInv
  <1>2. /\ Host \in Procs /\ NumSlots \in Nat /\ Host \notin Clients /\ addrs \subseteq Clients
        /\ DOMAIN inbox = Procs /\ DOMAIN pc = Procs /\ toHost \in Seq(NetPlayer)
        /\ \A n \in DOMAIN toHost : toHost[n].id \in Clients
    BY <1>1, IdFacts, BoundsAssumption DEF TypeOK
  <1>3. ASSUME NEW c, c \in missed \/ c \in Known(Host) \/ Len(roster[Host]) = NumSlots
        PROVE  Joins(c)'
    BY <1>1, <1>3, SeatStays DEF Joins
  <1>4. ASSUME HandleNetworkingHost, NEW c \in addrs' PROVE Joins(c)'
    <2>1. pc[Host] = "net" /\ next' = next /\ addrs' = addrs \union {r.id : r \in Range(toHost)}
      BY <1>4 DEF HandleNetworkingHost
    <2>2. CASE c \in addrs
      BY <1>1, <1>3, <2>1, <2>2 DEF AddressesJoin, Joins
    <2>3. CASE c \notin addrs /\ c \in Known(Host) \union Overwritten(toHost)
      <3>1. c \in Known(Host) \/ c \in missed'
        BY <1>4, <2>3 DEF HandleNetworkingHost
      <3>2. QED
        BY <1>3, <3>1 DEF Joins
    <2>4. CASE c \notin addrs /\ c \notin Known(Host) \union Overwritten(toHost)
      <3>1. PICK n \in DOMAIN toHost : toHost[n].id = c
        BY <2>1, <2>4 DEF Range
      <3>2. toHost # <<>>
        BY <1>2
      <3>3. PICK records \in NetPlayersOf(toHost) : inbox' = [inbox EXCEPT ![Host] = records]
        BY <1>4, <3>2 DEF HandleNetworkingHost
      <3>4. inbox'[Host] = records
        BY <1>2, <3>3
      <3>5. PICK m \in 1 .. Len(records) : records[m].id = c
        BY <1>2, <2>4, <3>1, FirstOrLast
      <3>6. pc'[Host] = "apply"
        BY <1>2, <1>4, <3>2 DEF HandleNetworkingHost, Goto
      <3>7. next'[Host] = 1
        <4>1. pc[Host] \in Running \ {"apply"}
          BY <2>1 DEF Running
        <4>2. QED
          BY <1>1, <1>2, <2>1, <4>1 DEF TypeOK
      <3>8. m \in next'[Host] .. Len(inbox'[Host]) /\ inbox'[Host][m].id = c
        BY <3>4, <3>5, <3>7
      <3>9. QED
        BY <3>6, <3>8 DEF Joins
    <2>5. QED
      BY <2>2, <2>3, <2>4
  <1>5. ASSUME NEW c \in addrs, pc[Host] = "apply",
               NEW n \in next[Host] .. Len(inbox[Host]), inbox[Host][n].id = c,
               Step(Host)
        PROVE  Joins(c)'
    <2> DEFINE r == Record(Host)
    <2>1. /\ r.id \in Ids /\ next[Host] \in 1 .. Len(inbox[Host]) /\ Len(inbox[Host]) \in Nat
          /\ roster[Host] \in Seq(Ids) /\ c # Host
      <3>1. r.id \in Ids
        BY <1>1, <1>2, <1>5, RecordIsNetPlayer
      <3>2. next[Host] \in 1 .. Len(inbox[Host]) /\ inbox[Host] \in Seq(NetPlayer)
            /\ roster[Host] \in Seq(Ids)
        BY <1>1, <1>2, <1>5 DEF TypeOK
      <3>3. QED
        BY <1>2, <3>1, <3>2
    <2>2. n # next[Host] => next[Host] < Len(inbox[Host]) /\ n \in next[Host] + 1 .. Len(inbox[Host])
      BY <1>5, <2>1
    <2>3. n = next[Host] => r.id = c
      BY <1>5 DEF Record
    <2>4. ASSUME n # next[Host], Advance(Host) PROVE Joins(c)'
      <3>1. pc'[Host] = "apply" /\ next'[Host] = next[Host] + 1 /\ inbox'[Host] = inbox[Host]
        BY <1>1, <1>2, <1>5, <2>1, <2>2, <2>4, AdvanceTo
      <3>2. QED
        BY <1>5, <2>2, <2>4, <3>1 DEF Joins
    <2> HIDE DEF r
    <2>5. CASE ProcessDropped(Host)
      <3>1. ~(Len(roster[Host]) < NumSlots)
        BY <2>5 DEF ProcessDropped, HasSlot
      <3>2. Len(roster[Host]) <= NumSlots /\ Len(roster[Host]) \in Nat
        BY <1>1, <1>2, <2>1 DEF SlotInv
      <3>3. QED
        BY <1>2, <1>3, <3>1, <3>2
    <2>6. CASE ProcessOwn(Host)
      <3>1. r.id = Host /\ Advance(Host)
        BY <2>6 DEF ProcessOwn, r
      <3>2. QED
        BY <2>1, <2>3, <2>4, <3>1
    <2>7. CASE ProcessCopy(Host)
      <3>1. Advance(Host) /\ roster' = RosterWith(Host, r.id)
        BY <2>7 DEF ProcessCopy, r
      <3>2. r.id \in Known(Host)'
        BY <1>1, <1>2, <2>1, <3>1, SlotGiven
      <3>3. n = next[Host] => Joins(c)'
        BY <2>3, <3>2 DEF Joins
      <3>4. QED
        BY <2>4, <3>1, <3>3
    <2>8. CASE ProcessExits(Host)
      <3>1. pc'[Host] = "exit_killer"
        BY <1>2, <2>8 DEF ProcessExits, Goto
      <3>2. QED
        BY <3>1 DEF Joins
    <2>9. ~Play(Host) /\ ~FinishFrame(Host)
      BY <1>5 DEF Play, DamagePlayer, FinishFrame
    <2>10. QED
      BY <1>5, <2>5, <2>6, <2>7, <2>8, <2>9 DEF Step, ProcessNetPacket
  <1>6. ASSUME ~HandleNetworkingHost, NEW c \in addrs PROVE Joins(c)'
    <2>1. CASE c \in missed \/ c \in Known(Host) \/ Len(roster[Host]) = NumSlots
      BY <1>3, <2>1
    <2>2. CASE ~(c \in missed \/ c \in Known(Host) \/ Len(roster[Host]) = NumSlots)
      <3>1. \/ pc[Host] = "exit_killer"
            \/ /\ pc[Host] = "apply"
               /\ \E n \in next[Host] .. Len(inbox[Host]) : inbox[Host][n].id = c
        BY <1>1, <2>2 DEF AddressesJoin, Joins
      <3>2. CASE pc'[Host] = pc[Host] /\ next'[Host] = next[Host] /\ inbox'[Host] = inbox[Host]
        BY <3>1, <3>2 DEF Joins
      <3>3. CASE Step(Host)
        <4>1. pc[Host] # "exit_killer"
          BY <3>3 DEF Step, ProcessNetPacket, ProcessDropped, ProcessOwn, ProcessCopy,
                      ProcessExits, Play, DamagePlayer, FinishFrame
        <4>2. QED
          BY <1>5, <3>1, <3>3, <4>1
      <3>4. QED
        BY <1>1, <1>2, <1>6, <3>2, <3>3, OneProcess
    <2>3. QED
      BY <2>1, <2>2
  <1>7. HandleNetworkingHost \/ addrs' = addrs
    BY DEF Next, Step, MatchOver, HandleNetworkingClient, SyncTeams, ProcessNetPacket,
           ProcessDropped, ProcessOwn, ProcessCopy, ProcessExits, Play, DamagePlayer, FinishFrame
  <1>8. QED
    BY <1>4, <1>6, <1>7 DEF AddressesJoin

LEMMA NextAnswers ==
  ASSUME JoinInv, [Next]_vars
  PROVE  SnapshotsAnswer'
  <1>1. TypeOK /\ AddressesJoin /\ SnapshotsAnswer /\ Host \in Procs /\ missed \subseteq missed'
    BY IdFacts, MissedGrows DEF JoinInv, RelayInv, KillInv
  <1>2. ASSUME NEW c \in addrs \ missed, pc[Host] = "net" PROVE Answers(c, Snapshot)
    <2>1. c \in Known(Host) \/ Len(roster[Host]) = NumSlots
      BY <1>1, <1>2 DEF AddressesJoin, Joins
    <2>2. CASE c \in Known(Host)
      BY <2>2 DEF Answers, Snapshot, RecordOf, Known, Range
    <2>3. CASE Len(roster[Host]) = NumSlots
      <3>1. roster[Host] \in Seq(Ids)
        BY <1>1 DEF TypeOK
      <3>2. Len(Snapshot) = Len(roster[Host])
        BY <3>1 DEF Snapshot
      <3>3. QED
        BY <2>3, <3>2 DEF Answers
    <2>4. QED
      BY <2>1, <2>2, <2>3
  <1>3. ASSUME NEW c \in Clients \ missed', NEW s \in At(c)', s # <<>> PROVE Answers(c, s)
    BY <1>1, <1>2, <1>3, Deliveries DEF SnapshotsAnswer
  <1>4. QED
    BY <1>3 DEF SnapshotsAnswer, Answers

\* What a client has processed stays so.
LEMMA DoneStays ==
  ASSUME TypeOK, SlotInv, TeamsFirm, [Next]_vars, NEW c \in Clients, NEW r,
         Sent(r), r.id \in Ids, Done(c, r), Known(c) \subseteq Known(c)',
         r.id = c => team'[c][c] = team[c][c] \/ team'[c][c] = team[Host][c]
  PROVE  Done(c, r)'
  <1>1. c \in Procs /\ NumSlots \in Nat
    BY BoundsAssumption DEF Procs
  <1>2. Len(roster[c]) = NumSlots => Len(roster'[c]) = NumSlots
    BY <1>1, NewSlots
  <1>3. r.id = c => team'[c][c] = team'[Host][c]
    BY DEF Done, Sent, TeamsFirm
  <1>4. QED
    BY <1>2, <1>3 DEF Done

\* A client has processed the record that it leaves behind.
LEMMA RecordDone ==
  ASSUME JoinInv, TeamsFirm, [Next]_vars, NEW c \in Clients, pc[c] = "apply",
         ProcessDropped(c) \/ ProcessOwn(c) \/ ProcessCopy(c), NEW r, r = Record(c)
  PROVE  /\ Done(c, r)' /\ Known(c) \subseteq Known(c)'
         /\ team'[c][c] = team[c][c] \/ team'[c][c] = team[Host][c]
  <1>1. TypeOK /\ SlotInv /\ FirmInv /\ OwnSlots
    BY DEF JoinInv, RelayInv, KillInv
  <1>2. c \in Procs /\ c # Host /\ c \in Ids /\ NumSlots \in Nat
    BY IdFacts, BoundsAssumption DEF Procs
  <1>3. roster[c] \in Seq(Ids) /\ team \in [Procs -> [Ids -> 0 .. NumTeams]]
    BY <1>1, <1>2 DEF TypeOK
  <1>4. /\ c \in Known(c) /\ Len(roster[c]) \in Nat /\ Len(roster[c]) <= NumSlots
        /\ r.id \in Ids /\ Sent(r)
    BY <1>1, <1>2, <1>3, RecordIsNetPlayer, RecordIsSent DEF OwnSlots, SlotInv
  <1>5. CASE ProcessDropped(c)
    <2>1. roster' = roster /\ team' = team /\ r.id \notin Known(c) /\ ~(Len(roster[c]) < NumSlots)
      BY <1>5 DEF ProcessDropped, HasSlot
    <2>2. Len(roster'[c]) = NumSlots /\ r.id # c
      BY <1>2, <1>4, <2>1
    <2>3. QED
      BY <2>1, <2>2 DEF Done, Known
  <1>6. CASE ProcessOwn(c)
    <2>1. roster' = roster /\ r.id = c /\ team' = [team EXCEPT ![c][c] = r.team]
      BY <1>2, <1>6 DEF ProcessOwn
    <2>2. team'[c][c] = r.team
      BY <1>2, <1>3, <2>1
    <2>3. r.team = team[Host][c] /\ team'[Host][c] = team[Host][c]
      BY <1>4, <2>1 DEF Sent, TeamsFirm
    <2>4. QED
      BY <1>4, <2>1, <2>2, <2>3 DEF Done, Known
  <1>7. CASE ProcessCopy(c)
    <2>1. r.id # c /\ roster' = RosterWith(c, r.id) /\ team' = TeamAfter(c, r)
      BY <1>7 DEF ProcessCopy
    <2>2. Known(c)' = Known(c) \union {r.id}
      BY <1>1, <1>2, <1>4, <2>1, SlotGiven
    <2>3. team' = [team EXCEPT ![c][r.id] = r.team]
      BY <1>2, <2>1 DEF TeamAfter
    <2>4. team'[c][c] = team[c][c]
      BY <1>2, <1>3, <1>4, <2>1, <2>3
    <2>5. QED
      BY <2>1, <2>2, <2>4 DEF Done
  <1>8. QED
    BY <1>5, <1>6, <1>7

\* A record that a client has processed it had processed before, or it processed
\* it in this step.
LEMMA NextProcessed ==
  ASSUME TypeOK, [Next]_vars, NEW c \in Clients, NEW n \in Processed(c)'
  PROVE  /\ inbox'[c] = inbox[c] /\ n \in DOMAIN inbox[c]
         /\ \/ n \in Processed(c) /\ roster'[c] = roster[c] /\ team'[c] = team[c]
            \/ /\ pc[c] = "apply" /\ n \in Processed(c) \union {next[c]}
               /\ ProcessDropped(c) \/ ProcessOwn(c) \/ ProcessCopy(c)
  <1>1. /\ c \in Procs /\ c # Host /\ inbox[c] \in Seq(NetPlayer)
        /\ next[c] \in Nat \ {0} /\ DOMAIN pc = Procs
        /\ DOMAIN inbox[c] = 1 .. Len(inbox[c]) /\ Len(inbox[c]) \in Nat
        /\ pc[c] = "apply" => next[c] \in 1 .. Len(inbox[c])
    <2>1. c \in Procs /\ c # Host
      BY IdFacts DEF Procs
    <2>2. /\ inbox[c] \in Seq(NetPlayer) /\ next[c] \in Nat \ {0} /\ DOMAIN pc = Procs
          /\ pc[c] = "apply" => next[c] \in 1 .. Len(inbox[c])
      BY <2>1 DEF TypeOK
    <2>3. QED
      BY <2>1, <2>2
  <1>2. CASE /\ pc'[c] = pc[c] /\ next'[c] = next[c] /\ inbox'[c] = inbox[c]
             /\ roster'[c] = roster[c] /\ team'[c] = team[c]
    <2>1. n \in Processed(c)
      BY <1>2 DEF Processed
    <2>2. n \in DOMAIN inbox[c]
      BY <1>1, <2>1 DEF Processed
    <2>3. QED
      BY <1>2, <2>1, <2>2
  <1>3. CASE HandleNetworkingClient(c)
    <2>1. pc[c] = "net" /\ next' = next /\ (pc'[c] = "play" \/ pc'[c] = "apply")
      BY <1>1, <1>3 DEF HandleNetworkingClient, Goto
    <2>2. next[c] = 1
      <3>1. pc[c] \in Running \ {"apply"}
        BY <2>1 DEF Running
      <3>2. QED
        BY <1>1, <3>1 DEF TypeOK
    <2>3. Processed(c)' = {}
      BY <2>1, <2>2 DEF Processed
    <2>4. QED
      BY <2>3
  <1>4. CASE pc'[c] \notin {"apply", "teams"}
    BY <1>4 DEF Processed
  <1>5. CASE SyncTeams(c)
    <2>1. pc'[c] \notin {"apply", "teams"}
      BY <1>1, <1>5 DEF SyncTeams, Goto
    <2>2. QED
      BY <1>4, <2>1
  <1>6. CASE ProcessDropped(c) \/ ProcessOwn(c) \/ ProcessCopy(c)
    <2>1. pc[c] = "apply" /\ Advance(c)
      BY <1>6 DEF ProcessDropped, ProcessOwn, ProcessCopy
    <2>2. CASE /\ next[c] < Len(inbox[c]) /\ next'[c] = next[c] + 1
               /\ pc'[c] = "apply" /\ inbox'[c] = inbox[c]
      <3>1. n \in 1 .. next'[c] - 1
        BY <2>2 DEF Processed
      <3>2. n \in 1 .. next[c] - 1 \/ n = next[c]
        BY <1>1, <2>2, <3>1
      <3>3. n \in Processed(c) \union {next[c]}
        BY <2>1, <3>2 DEF Processed
      <3>4. n \in DOMAIN inbox[c]
        <4>1. next[c] \in 1 .. Len(inbox[c])
          BY <1>1, <2>1
        <4>2. QED
          BY <1>1, <3>2, <4>1
      <3>5. QED
        BY <1>6, <2>1, <2>2, <3>3, <3>4
    <2>3. CASE next[c] = Len(inbox[c]) /\ pc'[c] = "teams" /\ inbox'[c] = inbox[c]
      <3>1. n \in 1 .. Len(inbox[c])
        BY <1>1, <2>3 DEF Processed
      <3>2. n \in 1 .. next[c] - 1 \/ n = next[c]
        BY <1>1, <2>3, <3>1
      <3>3. QED
        BY <1>1, <1>6, <2>1, <2>3, <3>2 DEF Processed
    <2>4. QED
      BY <1>1, <2>1, <2>2, <2>3, AdvanceTo
  <1>7. CASE ProcessExits(c)
    <2>1. pc'[c] = "exit_killer"
      BY <1>1, <1>7 DEF ProcessExits, Goto
    <2>2. QED
      BY <1>4, <2>1
  <1>8. CASE Play(c) \/ FinishFrame(c)
    <2>1. pc'[c] \notin {"apply", "teams"}
      BY <1>1, <1>8 DEF Play, DamagePlayer, FinishFrame, Goto
    <2>2. QED
      BY <1>4, <2>1
  <1>9. QED
    BY <1>1, <1>2, <1>3, <1>5, <1>6, <1>7, <1>8, OneProcess DEF Step, ProcessNetPacket

LEMMA NextLoop ==
  ASSUME JoinInv, TypeOK', TeamsFirm, [Next]_vars
  PROVE  LoopDone'
  <1> SUFFICES ASSUME NEW c \in Clients
               PROVE  /\ \A n \in Processed(c)' : Done(c, inbox[c][n])'
                      /\ pc'[c] = "teams" => inbox'[c] # <<>>
    BY DEF LoopDone
  <1>1. TypeOK /\ SlotInv /\ FirmInv /\ LoopDone
    BY DEF JoinInv, RelayInv, KillInv
  <1>2. c \in Procs /\ c # Host /\ inbox[c] \in Seq(NetPlayer) /\ DOMAIN pc = Procs
    BY <1>1, IdFacts DEF TypeOK, Procs
  <1>3. ASSUME NEW n \in DOMAIN inbox[c], NEW r, r = inbox[c][n]
        PROVE  Sent(r) /\ r.id \in Ids
    <2>1. inbox[c] \in At(c) /\ r \in NetPlayer
      BY <1>2, <1>3, ElementIn DEF At
    <2>2. QED
      BY <1>1, <1>3, <2>1 DEF FirmInv, NetPlayer
  <1>4. ASSUME NEW n \in Processed(c)', NEW r, r = inbox[c][n] PROVE Done(c, r)'
    <2>1. n \in DOMAIN inbox[c]
      BY <1>1, NextProcessed
    <2>2. Sent(r) /\ r.id \in Ids
      BY <1>3, <1>4, <2>1
    <2>3. CASE n \in Processed(c) /\ roster'[c] = roster[c] /\ team'[c] = team[c]
      <3>1. Done(c, r) /\ Known(c)' = Known(c) /\ team'[c][c] = team[c][c]
        BY <1>1, <1>4, <2>3 DEF LoopDone, Known
      <3>2. QED
        BY <1>1, <2>2, <3>1, DoneStays
    <2>4. CASE /\ pc[c] = "apply" /\ n \in Processed(c) \union {next[c]}
               /\ ProcessDropped(c) \/ ProcessOwn(c) \/ ProcessCopy(c)
      <3>1. PICK q : q = Record(c)
        OBVIOUS
      <3>2. /\ Done(c, q)' /\ Known(c) \subseteq Known(c)'
            /\ team'[c][c] = team[c][c] \/ team'[c][c] = team[Host][c]
        BY <2>4, <3>1, RecordDone
      <3>3. CASE n = next[c]
        <4>1. r = q
          BY <1>4, <3>1, <3>3 DEF Record
        <4>2. QED
          BY <3>2, <4>1
      <3>4. CASE n \in Processed(c)
        <4>1. Done(c, r)
          BY <1>1, <1>4, <3>4 DEF LoopDone
        <4>2. QED
          BY <1>1, <2>2, <3>2, <4>1, DoneStays
      <3>5. QED
        BY <2>4, <3>3, <3>4
    <2>5. QED
      BY <1>1, <2>3, <2>4, NextProcessed
  <1>5. ASSUME NEW n \in Processed(c)' PROVE Done(c, inbox[c][n])'
    <2>1. PICK r : r = inbox[c][n]
      OBVIOUS
    <2>2. Done(c, r)' /\ inbox'[c][n] = r
      BY <1>1, <1>4, <2>1, NextProcessed
    <2>3. QED
      BY <2>2 DEF Done
  <1>6. ASSUME pc'[c] = "teams" PROVE inbox'[c] # <<>>
    <2>1. CASE pc[c] = "teams" /\ inbox'[c] = inbox[c]
      BY <1>1, <2>1 DEF LoopDone
    <2>2. CASE pc[c] = "apply" /\ Advance(c)
      <3>1. inbox'[c] = inbox[c]
        BY <1>1, <1>2, <1>6, <2>2, AdvanceTo
      <3>2. next[c] \in 1 .. Len(inbox[c])
        BY <1>1, <1>2, <2>2 DEF TypeOK
      <3>3. inbox[c] # <<>>
        BY <1>2, <3>2
      <3>4. QED
        BY <3>1, <3>3
    <2>3. ~HandleNetworkingClient(c)
      BY <1>2, <1>6 DEF HandleNetworkingClient, Goto
    <2>4. ~SyncTeams(c)
      BY <1>2, <1>6 DEF SyncTeams, Goto
    <2>5. Step(c) => pc[c] = "apply" /\ Advance(c)
      BY <1>2, <1>6 DEF Step, ProcessNetPacket, ProcessDropped, ProcessOwn, ProcessCopy,
                        ProcessExits, Play, DamagePlayer, FinishFrame, Goto
    <2>6. QED
      BY <1>1, <1>2, <1>6, <2>1, <2>2, <2>3, <2>4, <2>5, OneProcess
  <1>7. QED
    BY <1>5, <1>6

\* A client whose own table is full knows everybody that a full snapshot shows,
\* and then the snapshot shows it, too.
LEMMA FullTableShowsAll ==
  ASSUME TypeOK, SlotInv, OwnSlots, NEW c \in Clients, NEW s \in At(c), s \in Seq(NetPlayer),
         Len(s) = NumSlots, \A n \in DOMAIN s : s[n].id \in Known(c)
  PROVE  \E n \in DOMAIN s : s[n].id = c
  <1> SUFFICES ASSUME \A n \in DOMAIN s : s[n].id # c PROVE FALSE
    OBVIOUS
  <1> DEFINE ids == [n \in 1 .. Len(s) |-> s[n].id]
  <1>1. c \in Procs /\ NumSlots \in Nat /\ DOMAIN s = 1 .. Len(s)
    BY BoundsAssumption DEF Procs
  <1>2. roster[c] \in Seq(Ids) /\ Len(roster[c]) <= NumSlots /\ c \in Known(c)
    BY <1>1 DEF TypeOK, SlotInv, OwnSlots
  <1>3. \A n \in 1 .. Len(s) : s[n].id \in Known(c) \ {c}
    BY <1>1
  <1>4. ids \in Seq(Known(c) \ {c}) /\ Len(ids) = NumSlots
    BY <1>1, <1>3
  <1>5. Once(ids)
    BY <1>1 DEF SlotInv, IdsOnce, Once
  <1>6. Range(ids) \subseteq Known(c) \ {c}
    BY <1>1, <1>3 DEF Range
  <1> HIDE DEF ids
  <1>7. Cardinality(Range(ids)) = NumSlots
    BY <1>4, <1>5, ListRange
  <1>8. IsFiniteSet(Known(c)) /\ Cardinality(Known(c)) <= Len(roster[c])
        /\ Cardinality(Known(c)) \in Nat
    BY <1>2, ListRange DEF Known
  <1>9. IsFiniteSet(Known(c) \ {c}) /\ Cardinality(Known(c) \ {c}) = Cardinality(Known(c)) - 1
    BY <1>2, <1>8, FS_RemoveElement
  <1>10. Cardinality(Range(ids)) <= Cardinality(Known(c) \ {c})
    BY <1>6, <1>9, FS_Subset
  <1>11. Len(roster[c]) \in Nat
    BY <1>2
  <1>12. QED
    BY <1>1, <1>2, <1>7, <1>8, <1>9, <1>10, <1>11

\* A client that goes on after a snapshot has a slot and a team at the server.
LEMMA SyncSeats ==
  ASSUME JoinInv, NEW c \in Clients \ missed, SyncTeams(c), pc'[c] = "play"
  PROVE  Seated(c)
  <1>1. /\ TypeOK /\ SlotInv /\ FirmInv /\ OwnSlots /\ SnapshotsAnswer /\ LoopDone
        /\ c \in Procs
    BY DEF JoinInv, RelayInv, KillInv, Procs
  <1>2. pc[c] = "teams" /\ inbox[c] \in At(c) /\ DOMAIN pc = Procs /\ inbox[c] \in Seq(NetPlayer)
    BY <1>1 DEF SyncTeams, At, TypeOK
  <1>3. \A n \in DOMAIN inbox[c] : inbox[c][n].id \in Known(c)
    <2>1. \A r \in Range(inbox[c]) : Placed(c, r)
      BY <1>1, <1>2 DEF SyncTeams, Goto
    <2>2. QED
      BY <2>1 DEF Placed, Range
  <1>4. inbox[c] # <<>> /\ \A n \in DOMAIN inbox[c] : Done(c, inbox[c][n])
    BY <1>1, <1>2 DEF LoopDone, Processed
  <1>5. Answers(c, inbox[c])
    BY <1>1, <1>2, <1>4 DEF SnapshotsAnswer
  <1>6. \E n \in DOMAIN inbox[c] : inbox[c][n].id = c
    <2>1. CASE Len(inbox[c]) = NumSlots
      BY <1>1, <1>2, <1>3, <2>1, FullTableShowsAll
    <2>2. QED
      BY <1>5, <2>1 DEF Answers
  <1>7. PICK n \in DOMAIN inbox[c] : inbox[c][n].id = c
    BY <1>6
  <1>8. Sent(inbox[c][n]) /\ Done(c, inbox[c][n])
    BY <1>1, <1>2, <1>4 DEF FirmInv
  <1>9. QED
    BY <1>7, <1>8 DEF Sent, Done, Seated

LEMMA NextSeated ==
  ASSUME JoinInv, TeamsFirm, [Next]_vars
  PROVE  PlayersSeated'
  <1>1. TypeOK /\ PlayersSeated /\ missed \subseteq missed'
    BY MissedGrows DEF JoinInv, RelayInv, KillInv
  <1>2. ASSUME NEW c \in Clients \ missed', pc'[c] \in {"net", "play"}
        PROVE  Known(c)' = {c} \/ Seated(c)'
    <2>1. c \in Procs /\ c # Host /\ c \in Ids /\ DOMAIN pc = Procs
      BY <1>1, IdFacts DEF TypeOK, Procs
    <2>2. ASSUME roster'[c] = roster[c], team'[c] = team[c], Seated(c) PROVE Seated(c)'
      BY <2>2 DEF Seated, TeamsFirm
    <2>3. ASSUME roster'[c] = roster[c], team'[c] = team[c], pc[c] \in {"net", "play"}
          PROVE  Known(c)' = {c} \/ Seated(c)'
      <3>1. Known(c) = {c} \/ Seated(c)
        BY <1>1, <1>2, <2>3 DEF PlayersSeated
      <3>2. QED
        BY <2>2, <2>3, <3>1 DEF Known
    <2>4. CASE HandleNetworkingClient(c)
      <3>1. pc[c] = "net" /\ roster' = roster /\ team' = team
        BY <2>4 DEF HandleNetworkingClient
      <3>2. QED
        BY <2>3, <3>1
    <2>5. CASE SyncTeams(c)
      <3>1. pc'[c] = "play" /\ roster' = roster /\ team' = team
        BY <1>2, <2>1, <2>5 DEF SyncTeams, Goto
      <3>2. QED
        BY <1>1, <1>2, <2>2, <2>5, <3>1, SyncSeats
    <2>6. CASE Step(c)
      <3>1. Advance(c) /\ pc[c] = "apply" => pc'[c] \in {"apply", "teams"}
        BY <1>1, <2>1, AdvanceTo
      <3>2. ~ProcessNetPacket(c)
        BY <1>2, <2>1, <3>1 DEF ProcessNetPacket, ProcessDropped, ProcessOwn, ProcessCopy,
                                ProcessExits, Goto
      <3>3. CASE Play(c) \/ FinishFrame(c)
        <4>1. pc[c] = "play" /\ roster' = roster /\ team' = team
          BY <3>3 DEF Play, DamagePlayer, FinishFrame
        <4>2. QED
          BY <2>3, <4>1
      <3>4. QED
        BY <2>6, <3>2, <3>3 DEF Step
    <2>7. QED
      BY <1>1, <1>2, <2>1, <2>3, <2>4, <2>5, <2>6, OneProcess
  <1>3. QED
    BY <1>2 DEF PlayersSeated

LEMMA NextJoin ==
  ASSUME JoinInv, [Next]_vars
  PROVE  JoinInv' /\ TypeOK' /\ TeamsFirm
  <1>1. TypeOK /\ SlotInv /\ FirmInv /\ RelayInv
    BY DEF JoinInv, RelayInv, KillInv
  <1>2. TypeOK'
    BY <1>1, NextType
  <1>3. RelayInv' /\ SlotInv' /\ FirmInv' /\ TeamsFirm
    BY <1>1, <1>2, NextRelay, NextSlotInv, NextFirm
  <1>4. AddressesJoin' /\ SnapshotsAnswer' /\ LoopDone' /\ PlayersSeated'
    BY <1>2, <1>3, NextAddresses, NextAnswers, NextLoop, NextSeated
  <1>5. QED
    BY <1>2, <1>3, <1>4 DEF JoinInv

\* A client that the server has no slot for never goes on after its first snapshot,
\* unless the server has overwritten its first datagrams (handle_networking).
THEOREM NobodySpectates == Spec => []NoSpectators
  <1>1. JoinInv => NoSpectators
    BY DEF JoinInv, PlayersSeated, Seated, NoSpectators
  <1>2. JoinInv /\ [Next]_vars => JoinInv'
    BY NextJoin
  <1>3. QED
    BY <1>1, <1>2, InitJoin, PTL DEF Spec

-----------------------------------------------------------------------------
(* Killers, victims and seats.                                             *)

\* Process p counts the kill of v's death d for k: it is the kill of a player of
\* its own, or one that the owner of v has counted before.
Counts(p, k, v, d) ==
  /\ k # v
  /\ kills' = [kills EXCEPT ![p][k] = Append(kills[p][k], [victim |-> v, death |-> d])]
  /\ \/ /\ d = deaths[p][v] + 1
        /\ \E damage \in 1 .. MaxHealth : DamagePlayer(p, v, k, damage)
     \/ /\ ProcessCopy(p) /\ v = Record(p).id /\ d = Record(p).deaths
        /\ [victim |-> v, death |-> d] \in Range(kills[Owner(v)][k])

LEMMA KillStep ==
  ASSUME KillInv, [Next]_vars
  PROVE  \/ kills' = kills
         \/ \E p \in Procs, k \in Ids, v \in Players, d \in Nat : Counts(p, k, v, d)
  <1>1. TypeOK /\ InboxesCredited
    BY CreditParts DEF KillInv
  <1>2. ASSUME NEW p \in Procs, NEW v \in Ids, NEW k \in Ids, NEW damage \in 1 .. MaxHealth,
               DamagePlayer(p, v, k, damage), kills' # kills
        PROVE  /\ k # v /\ v \in Players /\ deaths[p][v] + 1 \in Nat
               /\ kills' = [kills EXCEPT ![p][k] =
                              Append(kills[p][k], [victim |-> v, death |-> deaths[p][v] + 1])]
    <2>1. /\ v \in Players
          /\ \E died \in BOOLEAN :
                kills' = IF died THEN KillsAfter(p, v, k, deaths[p][v] + 1) ELSE kills
      BY <1>2 DEF DamagePlayer, Owned
    <2>2. deaths[p][v] \in Nat
      BY <1>1 DEF TypeOK
    <2>3. QED
      BY <1>2, <2>1, <2>2 DEF KillsAfter
  <1>3. ASSUME NEW p \in Procs, ProcessCopy(p), kills' # kills
        PROVE  LET v == Record(p).id
                   k == Record(p).lastHurt
                   d == Record(p).deaths
               IN  /\ k # v /\ v \in Players /\ k \in Ids /\ d \in Nat
                   /\ kills' = [kills EXCEPT ![p][k] =
                                  Append(kills[p][k], [victim |-> v, death |-> d])]
                   /\ [victim |-> v, death |-> d] \in Range(kills[Owner(v)][k])
    <2> DEFINE r == Record(p)
    <2>1. /\ pc[p] = "apply" /\ SeenDying(p, r) /\ KillerFound(r.id, r.lastHurt, Known(p))
          /\ kills' = KillsAfter(p, r.id, r.lastHurt, r.deaths)
      BY <1>3 DEF ProcessCopy, KillerId
    <2>2. r.id \in Ids /\ r.deaths \in Nat
      BY <1>1, <2>1, RecordIsNetPlayer
    <2>3. CreditedRecord(kills, r)
      BY <1>1, <2>1, RecordIsCredited
    <2>4. r.health = 0
      BY <2>1 DEF SeenDying
    <2> HIDE DEF r
    <2>5. /\ r.lastHurt # r.id
          /\ kills' = [kills EXCEPT ![p][r.lastHurt] =
                         Append(kills[p][r.lastHurt], [victim |-> r.id, death |-> r.deaths])]
      BY <1>3, <2>1 DEF KillsAfter
    <2>6. r.lastHurt \in Known(p)
      BY <2>1, <2>5 DEF KillerFound
    <2>7. r.lastHurt \in Ids /\ r.lastHurt # None
      BY <1>1, <2>6, KnownIds, IdsAssumption
    <2>8. /\ r.id \in Players
          /\ [victim |-> r.id, death |-> r.deaths] \in Range(kills[Owner(r.id)][r.lastHurt])
      BY <2>2, <2>3, <2>4, <2>5, <2>7 DEF CreditedRecord, DeathIsCredited, Ids
    <2>9. QED
      BY <2>2, <2>5, <2>7, <2>8 DEF r
  <1>4. \/ kills' = kills
        \/ \E p \in Procs : ProcessCopy(p)
        \/ \E p \in Procs : \E v, k \in Ids, damage \in 1 .. MaxHealth : DamagePlayer(p, v, k, damage)
    BY DEF Next, Step, MatchOver, HandleNetworkingHost, HandleNetworkingClient, SyncTeams,
           ProcessNetPacket, ProcessDropped, ProcessOwn, ProcessExits, Play, FinishFrame
  <1>5. QED
    BY <1>2, <1>3, <1>4 DEF Counts

\* Killers and victims have slots and different teams at the server.
KillersFirm ==
  \A p \in Procs, k \in Ids : \A e \in Range(kills[p][k]) :
    e.victim \notin missed =>
      /\ k \in Known(Host) /\ e.victim \in Known(Host)
      /\ team[Host][k] # team[Host][e.victim]

\* Whoever damages his own player has it and the shooter in the server's teams.
LEMMA FriendlyFireOff ==
  ASSUME JoinInv, NEW p \in Procs, NEW v \in Ids \ missed, NEW k \in Ids, k # v,
         NEW damage, DamagePlayer(p, v, k, damage)
  PROVE  k \in Known(Host) /\ v \in Known(Host) /\ team[Host][k] # team[Host][v]
  <1>1. FirmInv /\ PlayersSeated
    BY DEF JoinInv
  <1>2. /\ pc[p] = "play" /\ v \in Owned(p) /\ v \in Known(p) /\ k \in Known(p)
        /\ team[p][k] # team[p][v]
    BY DEF DamagePlayer, CanHurt
  <1>3. CASE p = Host
    BY <1>2, <1>3
  <1>4. CASE p # Host
    <2>1. p \in Clients /\ v = p
      BY <1>2, <1>4 DEF Procs, Owned, Owner
    <2>2. k \in Known(Host) /\ team[p][k] = team[Host][k]
      BY <1>1, <1>2, <2>1 DEF FirmInv
    <2>3. Seated(p)
      BY <1>1, <1>2, <2>1 DEF PlayersSeated
    <2>4. QED
      BY <1>2, <2>1, <2>2, <2>3 DEF Seated
  <1>5. QED
    BY <1>3, <1>4

LEMMA NextKillersFirm ==
  ASSUME JoinInv, KillersFirm, TeamsFirm, [Next]_vars
  PROVE  KillersFirm'
  <1>1. KillInv /\ TypeOK /\ missed \subseteq missed'
    BY MissedGrows DEF JoinInv, RelayInv, KillInv
  <1>2. ASSUME NEW k \in Known(Host), NEW v \in Known(Host), team[Host][k] # team[Host][v]
        PROVE  k \in Known(Host)' /\ v \in Known(Host)' /\ team'[Host][k] # team'[Host][v]
    BY <1>2 DEF TeamsFirm
  <1>3. CASE kills' = kills
    BY <1>1, <1>2, <1>3 DEF KillersFirm
  <1>4. ASSUME NEW p \in Procs, NEW k \in Ids, NEW v \in Players, NEW d \in Nat,
               Counts(p, k, v, d)
        PROVE  KillersFirm'
    <2> DEFINE e == [victim |-> v, death |-> d]
    <2>1. v \in Ids /\ Owner(v) \in Procs /\ e \in PlayerKill /\ e.victim = v
      BY IdFacts DEF PlayerKill
    <2>2. ASSUME v \notin missed
          PROVE  k \in Known(Host) /\ v \in Known(Host) /\ team[Host][k] # team[Host][v]
      <3>1. CASE \E damage \in 1 .. MaxHealth : DamagePlayer(p, v, k, damage)
        BY <1>4, <2>1, <2>2, <3>1, FriendlyFireOff DEF Counts
      <3>2. CASE e \in Range(kills[Owner(v)][k])
        BY <2>1, <2>2, <3>2 DEF KillersFirm
      <3>3. QED
        BY <1>4, <3>1, <3>2 DEF Counts
    <2>3. /\ kills \in [Procs -> [Ids -> Seq(PlayerKill)]]
          /\ kills' = [kills EXCEPT ![p][k] = Append(kills[p][k], e)]
      BY <1>1, <1>4 DEF TypeOK, Counts
    <2> HIDE DEF e
    <2>4. Range(Append(kills[p][k], e)) = Range(kills[p][k]) \union {e}
      BY <2>1, <2>3, AppendRange
    <2>5. \A q \in Procs, l \in Ids : \A f \in Range(kills'[q][l]) :
            f \in Range(kills[q][l]) \/ (l = k /\ f = e)
      <3> SUFFICES ASSUME NEW q \in Procs, NEW l \in Ids, NEW f \in Range(kills'[q][l])
                   PROVE  f \in Range(kills[q][l]) \/ (l = k /\ f = e)
        OBVIOUS
      <3>1. \/ kills'[q][l] = kills[q][l]
            \/ q = p /\ l = k /\ kills'[q][l] = Append(kills[p][k], e)
        BY <2>3
      <3>2. QED
        BY <2>4, <3>1
    <2>6. QED
      BY <1>1, <1>2, <2>1, <2>2, <2>5 DEF KillersFirm
  <1>5. QED
    BY <1>1, <1>3, <1>4, KillStep

\* Nobody is killed by a member of his own team, though each victim's owner judges
\* by its own table (update_projectiles), but for the clients whose first datagrams
\* the server has overwritten.
THEOREM TeamsDoNotKill == Spec => []NoFriendlyKills
  <1>1. KillersFirm => NoFriendlyKills
    BY DEF KillersFirm, NoFriendlyKills
  <1>2. Init => JoinInv /\ KillersFirm
    <2>1. Init => \A p \in Procs, k \in Ids : kills[p][k] = <<>>
      BY DEF Init
    <2>2. QED
      BY <2>1, InitJoin DEF KillersFirm, Range
  <1>3. JoinInv /\ KillersFirm /\ [Next]_vars => (JoinInv /\ KillersFirm)'
    BY NextJoin, NextKillersFirm
  <1>4. QED
    BY <1>1, <1>2, <1>3, PTL DEF Spec

-----------------------------------------------------------------------------
(* Room for everybody.                                                     *)

\* Everybody who may play, and the phantom, has a slot and, in a free-for-all, a
\* team of his own.
Room ==
  /\ Cardinality(Ids) <= NumSlots
  /\ Mode = "ffa" => Cardinality(Ids) <= NumTeams

SeatsInv == JoinInv /\ NoTeamExit

LEMMA FiniteIds == IsFiniteSet(Ids) /\ Cardinality(Ids) \in Nat
  <1>1. IsFiniteSet(Players)
    BY FinitePlayers
  <1>2. IsFiniteSet(Players \union {Phantom})
    BY <1>1, FS_AddElement
  <1>3. QED
    BY <1>2, FS_CardinalityType DEF Ids

\* With a team for everybody nobody whom the server knows is without one.
LEMMA EverybodyHasTeam ==
  ASSUME Room, TypeOK, FirmInv, NEW i \in Known(Host)
  PROVE  team[Host][i] \in Teams
  <1>1. HostFirm /\ team[Host][i] \in 0 .. NumTeams /\ i \in Ids /\ Host \in Procs
        /\ NumTeams \in Nat /\ NumTeams # 0
    <2>1. HostFirm /\ Host \in Procs /\ i \in Ids /\ NumTeams \in Nat \ {0}
      BY IdFacts, KnownIds, BoundsAssumption DEF FirmInv
    <2>2. QED
      BY <2>1 DEF TypeOK
  <1>2. ASSUME team[Host][i] = 0 PROVE FALSE
    <2>1. Mode = "ffa" /\ \A t \in Teams : Members(team[Host], t) # {}
      BY <1>1, <1>2 DEF HostFirm, TeamsAreFull
    <2> DEFINE f == [t \in Teams |-> CHOOSE j \in Ids : team[Host][j] = t]
    <2>2. \A t \in Teams : \E j \in Ids : team[Host][j] = t
      BY <2>1 DEF Members
    <2>3. \A t \in Teams : f[t] \in Ids /\ team[Host][f[t]] = t
      BY <2>2
    <2> HIDE DEF f
    <2>4. \A t \in Teams : t # 0
      BY DEF Teams
    <2>5. \A t \in Teams : f[t] \in Ids \ {i}
      BY <1>2, <2>3, <2>4
    <2>6. f \in Injection(Teams, Ids \ {i})
      <3>1. f \in [Teams -> Ids \ {i}]
        BY <2>5 DEF f
      <3>2. \A t, u \in Teams : f[t] = f[u] => t = u
        BY <2>3
      <3>3. QED
        BY <3>1, <3>2 DEF Injection, IsInjective
    <2>7. IsFiniteSet(Ids) /\ Cardinality(Ids) \in Nat
      BY FiniteIds
    <2>8. IsFiniteSet(Ids \ {i}) /\ Cardinality(Ids \ {i}) = Cardinality(Ids) - 1
      BY <1>1, <2>7, FS_RemoveElement
    <2>9. Cardinality(Teams) <= Cardinality(Ids \ {i})
      BY <2>6, <2>8, FS_Injection
    <2>10. Cardinality(Teams) = NumTeams
      <3>1. Cardinality(1 .. NumTeams) = IF 1 > NumTeams THEN 0 ELSE NumTeams - 1 + 1
        BY <1>1, FS_Interval
      <3>2. QED
        BY <1>1, <3>1 DEF Teams
    <2>11. QED
      BY <1>1, <2>1, <2>7, <2>8, <2>9, <2>10 DEF Room
  <1>3. QED
    BY <1>1, <1>2 DEF Teams

\* With a slot for everybody a client finds the player of each record.
LEMMA EverybodyHasSlot ==
  ASSUME Room, JoinInv, NEW c \in Clients,
         NEW i \in Known(Host), i \in Known(c) \/ Len(roster[c]) = NumSlots
  PROVE  i \in Known(c)
  <1>1. TypeOK /\ SlotInv /\ FirmInv
    BY DEF JoinInv, RelayInv, KillInv
  <1>2. c \in Procs /\ NumSlots \in Nat
    BY BoundsAssumption DEF Procs
  <1>3. roster[c] \in Seq(Ids) /\ Once(roster[c])
    BY <1>1, <1>2 DEF TypeOK, SlotInv
  <1>4. Known(c) \in SUBSET Ids
    BY <1>1, <1>2, KnownIds
  <1>5. IsFiniteSet(Ids) /\ Cardinality(Ids) \in Nat
    BY FiniteIds
  <1>6. CASE Len(roster[c]) = NumSlots
    <2>1. Cardinality(Known(c)) = NumSlots
      BY <1>3, <1>6, ListRange DEF Known
    <2>2. /\ Cardinality(Known(c)) <= Cardinality(Ids)
          /\ Cardinality(Ids) = Cardinality(Known(c)) => Ids = Known(c)
      BY <1>4, <1>5, FS_Subset
    <2>3. Ids = Known(c)
      BY <1>2, <1>5, <2>1, <2>2 DEF Room
    <2>4. i \in Ids
      BY <1>1, KnownIds, IdFacts
    <2>5. QED
      BY <2>3, <2>4
  <1>7. QED
    BY <1>6

LEMMA NextSeats ==
  ASSUME Room, SeatsInv, [Next]_vars
  PROVE  SeatsInv'
  <1>1. JoinInv' /\ JoinInv
    BY NextJoin DEF SeatsInv
  <1>2. TypeOK /\ FirmInv /\ LoopDone
    BY <1>1 DEF JoinInv, RelayInv, KillInv
  <1>3. ASSUME NEW c \in Clients PROVE pc'[c] # "exit_team"
    <2>1. c \in Procs /\ DOMAIN pc = Procs /\ pc[c] # "exit_team"
      BY <1>2 DEF TypeOK, SeatsInv, NoTeamExit, Procs
    <2>2. CASE SyncTeams(c)
      <3>1. pc[c] = "teams"
        BY <2>2 DEF SyncTeams
      <3>2. ASSUME NEW r \in Range(inbox[c]) PROVE Placed(c, r)
        <4>1. PICK n \in DOMAIN inbox[c] : r = inbox[c][n]
          BY DEF Range
        <4>2. Sent(r) /\ Done(c, r)
          BY <1>2, <3>1, <4>1 DEF FirmInv, At, LoopDone, Processed
        <4>3. r.id \in Known(c)
          BY <1>1, <4>2, EverybodyHasSlot DEF SeatsInv, Sent, Done
        <4>4. r.team \in Teams
          BY <1>2, <4>2, EverybodyHasTeam DEF SeatsInv, Sent
        <4>5. QED
          BY <4>3, <4>4 DEF Placed
      <3>3. pc' = [pc EXCEPT ![c] = "play"]
        BY <2>2, <3>2 DEF SyncTeams, Goto
      <3>4. QED
        BY <2>1, <3>3
    <2>3. CASE pc'[c] = pc[c]
      BY <2>1, <2>3
    <2>4. CASE HandleNetworkingClient(c)
      BY <2>1, <2>4 DEF HandleNetworkingClient, Goto
    <2>5. CASE Step(c)
      <3>1. CASE Advance(c) /\ pc[c] = "apply"
        BY <1>2, <2>1, <3>1, AdvanceTo
      <3>2. CASE ProcessExits(c)
        BY <2>1, <3>2 DEF ProcessExits, Goto
      <3>3. CASE Play(c) \/ FinishFrame(c)
        BY <2>1, <3>3 DEF Play, DamagePlayer, FinishFrame, Goto
      <3>4. QED
        BY <2>5, <3>1, <3>2, <3>3
        DEF Step, ProcessNetPacket, ProcessDropped, ProcessOwn, ProcessCopy
    <2>6. QED
      BY <1>2, <2>1, <2>2, <2>3, <2>4, <2>5, OneProcess, IdsAssumption
  <1>4. QED
    BY <1>1, <1>3 DEF SeatsInv, NoTeamExit

\* With a slot and, in a free-for-all, a team for everybody and the phantom, no
\* client exits in the synchronisation of teams (handle_networking), however many
\* datagrams the server finds waiting.
THEOREM NobodyExitsForTeams ==
  ASSUME Cardinality(Ids) <= NumSlots,
         Mode = "ffa" => Cardinality(Ids) <= NumTeams
  PROVE  Spec => []NoTeamExit
  <1>1. Room
    BY DEF Room
  <1>2. Init => SeatsInv
    <2> SUFFICES ASSUME Init PROVE SeatsInv
      OBVIOUS
    <2>1. JoinInv
      BY InitJoin
    <2>2. NoTeamExit
      BY DEF Init, NoTeamExit, Procs
    <2>3. QED
      BY <2>1, <2>2 DEF SeatsInv
  <1>3. SeatsInv /\ [Next]_vars => SeatsInv'
    BY <1>1, NextSeats
  <1>4. SeatsInv => NoTeamExit
    BY DEF SeatsInv
  <1>5. QED
    BY <1>2, <1>3, <1>4, PTL DEF Spec
=============================================================================
