----------------------- MODULE ReplicationOrderProofs -----------------------
(***************************************************************************)
(* No copy of a player goes back in his life or runs ahead of it, and so   *)
(* no process counts a death twice: the counts of all processes implement  *)
(* the abstract scoreboard, and a free-for-all is won by real kills.       *)
(*                                                                         *)
(* A player's life is a line of states: dead of death d, alive after it,   *)
(* dead of death d + 1. Their numbers are AGES. A server's table copies    *)
(* its clients' players, and a client copies everybody from the server.    *)
(* The invariant says that along each of these ways the ages are in order: *)
(* the copy, then the records of the buffer that are still to be processed,*)
(* then those of the socket in the order of their arrival, then the table  *)
(* they come from.                                                         *)
(***************************************************************************)
EXTENDS ReplicationProofs

USE DEF vars, tables, network

-----------------------------------------------------------------------------
(* The order of a player's states.                                         *)

\* The age of a state of a player: a death and a return each add one.
Age(d, h) == 2 * d + IF h > 0 THEN 1 ELSE 0

RecordAge(r) == Age(r.deaths, r.health)

AgeTables == [Procs -> [Players -> Nat]]
Ages == [p \in Procs |-> [i \in Players |-> Age(deaths[p][i], health[p][i])]]

LEMMA AgeOrder ==
  ASSUME NEW d1 \in Nat, NEW h1 \in Nat, NEW d2 \in Nat, NEW h2 \in Nat
  PROVE  /\ Age(d1, h1) \in Nat
         /\ NotLater(d1, h1, d2, h2) <=> Age(d1, h1) <= Age(d2, h2)
         /\ Age(d1, h1) <= Age(d2, h2) => d1 <= d2
         /\ Age(d1, h1) <= Age(d2, h2) /\ h1 > 0 /\ h2 = 0 => d1 < d2
  BY DEF Age, NotLater

\* The players p has copies of, and the process whose table it copies them from.
Others(p) == Players \ Owned(p)
Source(p, i) == IF p = Host THEN i ELSE Host

LEMMA SourceFacts ==
  ASSUME NEW p \in Procs, NEW i \in Others(p)
  PROVE  /\ i \in Players /\ i \in Ids /\ i # p /\ Owner(i) # p
         /\ Source(p, i) \in Procs /\ Source(p, i) # p
  BY IdFacts DEF Others, Owned, Source, Owner, Procs

\* The ages of p's copies and of their sources when record r is under way to p.
Between(a, p, r) ==
  r.id \in Others(p) =>
    a[p][r.id] <= RecordAge(r) /\ RecordAge(r) <= a[Source(p, r.id)][r.id]

\* Two records of one player, r before s.
InOrder(p, r, s) == r.id \in Others(p) /\ r.id = s.id => RecordAge(r) <= RecordAge(s)

CopiesInOrder(a) == \A p \in Procs : \A i \in Others(p) : a[p][i] <= a[Source(p, i)][i]

\* The records ns of p's buffer that are still to be processed.
BufferInOrder(a, p, box, ns) ==
  \A m \in ns :
    /\ Between(a, p, box[m])
    /\ \A n \in ns : m <= n => InOrder(p, box[m], box[n])

\* The host's socket, and what is left of its buffer before it.
HostInOrder(a, box, ns, q) ==
  \A n \in DOMAIN q :
    /\ Between(a, Host, q[n])
    /\ \A m \in DOMAIN q : m <= n => InOrder(Host, q[m], q[n])
    /\ \A m \in ns : InOrder(Host, box[m], q[n])

\* A client's socket. The records of one datagram are of the same moment.
ClientInOrder(a, c, box, ns, q) ==
  \A m \in DOMAIN q : \A n \in DOMAIN q[m] :
    /\ Between(a, c, q[m][n])
    /\ \A k \in DOMAIN q : \A l \in DOMAIN q[k] : k <= m => InOrder(c, q[k][l], q[m][n])
    /\ \A l \in ns : InOrder(c, box[l], q[m][n])

LEMMA RecordAgeType ==
  ASSUME NEW r \in NetPlayer PROVE r.id \in Ids /\ RecordAge(r) \in Nat
  <1>1. r.id \in Ids /\ r.deaths \in Nat /\ r.health \in 0 .. MaxHealth
    BY DEF NetPlayer
  <1>2. r.health \in Nat
    BY <1>1, BoundsAssumption
  <1>3. QED
    BY <1>1, <1>2, AgeOrder DEF RecordAge

LEMMA AgesType ==
  ASSUME TypeOK
  PROVE  /\ Ages \in AgeTables
         /\ \A p \in Procs, i \in Players : Ages[p][i] = Age(deaths[p][i], health[p][i])
         /\ \A p \in Procs, i \in Players : deaths[p][i] \in Nat /\ health[p][i] \in Nat
  <1>1. \A p \in Procs, i \in Players : deaths[p][i] \in Nat /\ health[p][i] \in Nat
    BY BoundsAssumption, IdFacts DEF TypeOK
  <1>2. \A p \in Procs, i \in Players : Age(deaths[p][i], health[p][i]) \in Nat
    BY <1>1, AgeOrder
  <1>3. QED
    BY <1>1, <1>2 DEF Ages, AgeTables

AgesTyped ==
  /\ Ages \in AgeTables
  /\ \A p \in Procs, i \in Players : Ages[p][i] = Age(deaths[p][i], health[p][i])
  /\ \A p \in Procs, i \in Players : deaths[p][i] \in Nat /\ health[p][i] \in Nat

LEMMA AgesAreTyped == TypeOK => AgesTyped
  BY AgesType DEF AgesTyped

LEMMA NextAgesType ==
  ASSUME TypeOK'
  PROVE  /\ Ages' \in AgeTables
         /\ \A p \in Procs, i \in Players : Ages'[p][i] = Age(deaths'[p][i], health'[p][i])
         /\ \A p \in Procs, i \in Players : deaths'[p][i] \in Nat /\ health'[p][i] \in Nat
  <1>1. AgesTyped'
    BY AgesAreTyped, PTL
  <1>2. QED
    BY <1>1 DEF AgesTyped, AgeTables, Age

-----------------------------------------------------------------------------
(* What a step may do to the tables without disturbing a record s.         *)

Moves(a, b, p, s) ==
  \A i \in Others(p) :
    /\ a[Source(p, i)][i] <= b[Source(p, i)][i]
    /\ b[p][i] = a[p][i] \/ (i = s.id => b[p][i] <= RecordAge(s))

LEMMA BetweenMoves ==
  ASSUME NEW a \in AgeTables, NEW b \in AgeTables, NEW p \in Procs, NEW s \in NetPlayer,
         Between(a, p, s), Moves(a, b, p, s)
  PROVE  Between(b, p, s)
  <1> SUFFICES ASSUME s.id \in Others(p)
               PROVE  b[p][s.id] <= RecordAge(s) /\ RecordAge(s) <= b[Source(p, s.id)][s.id]
    BY DEF Between
  <1> DEFINE i == s.id
  <1>1. i \in Players /\ Source(p, i) \in Procs
    BY SourceFacts
  <1>2. /\ a[p][i] \in Nat /\ b[p][i] \in Nat
        /\ a[Source(p, i)][i] \in Nat /\ b[Source(p, i)][i] \in Nat
    BY <1>1 DEF AgeTables
  <1>3. RecordAge(s) \in Nat
    BY RecordAgeType
  <1>4. a[p][i] <= RecordAge(s) /\ RecordAge(s) <= a[Source(p, i)][i]
    BY DEF Between
  <1>5. /\ a[Source(p, i)][i] <= b[Source(p, i)][i]
        /\ b[p][i] = a[p][i] \/ b[p][i] <= RecordAge(s)
    BY DEF Moves
  <1> HIDE DEF i
  <1>6. b[p][i] <= RecordAge(s) /\ RecordAge(s) <= b[Source(p, i)][i]
    BY <1>2, <1>3, <1>4, <1>5
  <1>7. QED
    BY <1>6 DEF i

LEMMA BufferMoves ==
  ASSUME NEW a \in AgeTables, NEW b \in AgeTables, NEW p \in Procs,
         NEW box \in Seq(NetPlayer), NEW ns \in SUBSET DOMAIN box, NEW ms \in SUBSET ns,
         BufferInOrder(a, p, box, ns), \A m \in ms : Moves(a, b, p, box[m])
  PROVE  BufferInOrder(b, p, box, ms)
  <1>1. \A m \in ms : box[m] \in NetPlayer
    BY ElementIn
  <1>2. \A m \in ms : Between(b, p, box[m])
    BY <1>1, BetweenMoves DEF BufferInOrder
  <1>3. QED
    BY <1>2 DEF BufferInOrder

LEMMA HostMoves ==
  ASSUME NEW a \in AgeTables, NEW b \in AgeTables,
         NEW box, NEW ns, NEW ms \in SUBSET ns, NEW q \in Seq(NetPlayer),
         HostInOrder(a, box, ns, q), \A n \in DOMAIN q : Moves(a, b, Host, q[n])
  PROVE  HostInOrder(b, box, ms, q)
  <1>1. \A n \in DOMAIN q : q[n] \in NetPlayer
    BY ElementIn
  <1>2. \A n \in DOMAIN q : Between(b, Host, q[n])
    BY <1>1, IdFacts, BetweenMoves DEF HostInOrder
  <1>3. QED
    BY <1>2 DEF HostInOrder

LEMMA ClientMoves ==
  ASSUME NEW a \in AgeTables, NEW b \in AgeTables, NEW c \in Clients,
         NEW box, NEW ns, NEW ms \in SUBSET ns, NEW q \in Seq(Seq(NetPlayer) \ {<<>>}),
         ClientInOrder(a, c, box, ns, q),
         \A m \in DOMAIN q : \A n \in DOMAIN q[m] : Moves(a, b, c, q[m][n])
  PROVE  ClientInOrder(b, c, box, ms, q)
  <1>1. \A m \in DOMAIN q : \A n \in DOMAIN q[m] : q[m][n] \in NetPlayer
    BY ElementIn
  <1>2. c \in Procs
    BY DEF Procs
  <1>3. \A m \in DOMAIN q : \A n \in DOMAIN q[m] : Between(b, c, q[m][n])
    BY <1>1, <1>2, BetweenMoves DEF ClientInOrder
  <1>4. QED
    BY <1>3 DEF ClientInOrder

-----------------------------------------------------------------------------
(* The invariant.                                                          *)

Pending(p) == IF pc[p] = "apply" THEN next[p] .. Len(inbox[p]) ELSE {}

\* The host's buffer holds records of clients, or of nobody.
HostBuffer == \A n \in DOMAIN inbox[Host] : inbox[Host][n].id \in Clients \union {Phantom}

OrderParts ==
  /\ CopiesInOrder(Ages)
  /\ \A p \in Procs : BufferInOrder(Ages, p, inbox[p], Pending(p))
  /\ HostInOrder(Ages, inbox[Host], Pending(Host), toHost)
  /\ \A c \in Clients : ClientInOrder(Ages, c, inbox[c], Pending(c), toClient[c])
  /\ HostBuffer

LEMMA PendingIndices ==
  ASSUME TypeOK, NEW p \in Procs
  PROVE  Pending(p) \in SUBSET DOMAIN inbox[p] /\ inbox[p] \in Seq(NetPlayer)
  BY DEF TypeOK, Pending

LEMMA InitOrder == Init => OrderParts
  <1> SUFFICES ASSUME Init PROVE OrderParts
    OBVIOUS
  <1>1. TypeOK
    BY InitType
  <1>2. CopiesInOrder(Ages)
    <2> SUFFICES ASSUME NEW p \in Procs, NEW i \in Others(p)
                 PROVE  Ages[p][i] <= Ages[Source(p, i)][i]
      BY DEF CopiesInOrder
    <2>1. i \in Players /\ i \in Ids /\ Source(p, i) \in Procs /\ i \notin Owned(p)
      BY SourceFacts DEF Others
    <2>2. health[p][i] = 0 /\ deaths[p][i] = 0
      BY <2>1 DEF Init
    <2>3. Ages[p][i] = 0 /\ Ages[Source(p, i)][i] \in Nat
      <3>1. Ages[p][i] = Age(0, 0)
        BY <1>1, <2>1, <2>2, AgesType
      <3>2. Ages[Source(p, i)][i] \in Nat
        BY <1>1, <2>1, AgesType DEF AgeTables
      <3>3. QED
        BY <3>1, <3>2 DEF Age
    <2>4. QED
      BY <2>3
  <1>3. \A p \in Procs : Pending(p) = {} /\ inbox[p] = <<>>
    BY DEF Init, Pending
  <1>4. toHost = <<>> /\ \A c \in Clients : toClient[c] = <<>>
    BY DEF Init
  <1>5. \A p \in Procs : BufferInOrder(Ages, p, inbox[p], Pending(p))
    BY <1>3 DEF BufferInOrder
  <1>6. HostInOrder(Ages, inbox[Host], Pending(Host), toHost)
    BY <1>4 DEF HostInOrder
  <1>7. \A c \in Clients : ClientInOrder(Ages, c, inbox[c], Pending(c), toClient[c])
    BY <1>4 DEF ClientInOrder
  <1>8. HostBuffer
    BY <1>3, IdFacts DEF HostBuffer
  <1>9. QED
    BY <1>2, <1>5, <1>6, <1>7, <1>8 DEF OrderParts

\* A step that neither sends nor receives, and moves the tables past no record
\* that is still under way.
LEMMA MovesKeepOrder ==
  ASSUME TypeOK, TypeOK', OrderParts, CopiesInOrder(Ages)', HostBuffer',
         toHost' = toHost, toClient' = toClient,
         \A p \in Procs : /\ Pending(p)' \subseteq Pending(p)
                          /\ Pending(p)' = {} \/ inbox'[p] = inbox[p],
         \A p \in Procs : \A m \in Pending(p)' : Moves(Ages, Ages', p, inbox[p][m]),
         \A n \in DOMAIN toHost : Moves(Ages, Ages', Host, toHost[n]),
         \A c \in Clients : \A m \in DOMAIN toClient[c] : \A n \in DOMAIN toClient[c][m] :
            Moves(Ages, Ages', c, toClient[c][m][n])
  PROVE  OrderParts'
  <1>1. Ages \in AgeTables /\ Ages' \in AgeTables
    BY AgesType, NextAgesType
  <1>2. ASSUME NEW p \in Procs PROVE BufferInOrder(Ages', p, inbox'[p], Pending(p)')
    <2>1. BufferInOrder(Ages', p, inbox[p], Pending(p)')
      <3>1. Pending(p) \in SUBSET DOMAIN inbox[p] /\ inbox[p] \in Seq(NetPlayer)
        BY PendingIndices
      <3>2. BufferInOrder(Ages, p, inbox[p], Pending(p))
        BY DEF OrderParts
      <3>3. QED
        BY <1>1, <3>1, <3>2, BufferMoves
    <2>2. CASE Pending(p)' = {}
      BY <2>2 DEF BufferInOrder
    <2>3. CASE inbox'[p] = inbox[p]
      BY <2>1, <2>3
    <2>4. QED
      BY <2>2, <2>3
  <1>3. HostInOrder(Ages', inbox'[Host], Pending(Host)', toHost')
    <2>1. toHost \in Seq(NetPlayer) /\ Host \in Procs
      BY IdFacts DEF TypeOK
    <2>2. HostInOrder(Ages, inbox[Host], Pending(Host), toHost)
      BY DEF OrderParts
    <2>3. HostInOrder(Ages', inbox[Host], Pending(Host)', toHost)
      BY <1>1, <2>1, <2>2, HostMoves
    <2>4. CASE Pending(Host)' = {}
      BY <2>3, <2>4 DEF HostInOrder
    <2>5. CASE inbox'[Host] = inbox[Host]
      BY <2>3, <2>5
    <2>6. QED
      BY <2>1, <2>4, <2>5
  <1>4. ASSUME NEW c \in Clients
        PROVE  ClientInOrder(Ages', c, inbox'[c], Pending(c)', toClient'[c])
    <2>1. toClient[c] \in Seq(Seq(NetPlayer) \ {<<>>}) /\ c \in Procs
      BY DEF TypeOK, Procs
    <2>2. ClientInOrder(Ages, c, inbox[c], Pending(c), toClient[c])
      BY DEF OrderParts
    <2>3. ClientInOrder(Ages', c, inbox[c], Pending(c)', toClient[c])
      BY <1>1, <2>1, <2>2, ClientMoves
    <2>4. CASE Pending(c)' = {}
      BY <2>3, <2>4 DEF ClientInOrder
    <2>5. CASE inbox'[c] = inbox[c]
      BY <2>3, <2>5
    <2>6. QED
      BY <2>1, <2>4, <2>5
  <1>5. QED
    BY <1>2, <1>3, <1>4 DEF OrderParts

\* The loop over the records leaves those behind that it has processed.
LEMMA AdvancePending ==
  ASSUME TypeOK, NEW p \in Procs, pc[p] = "apply", Advance(p)
  PROVE  /\ next[p] \in Pending(p)
         /\ \A m \in Pending(p)' : next[p] <= m /\ m # next[p]
         /\ \A q \in Procs : /\ Pending(q)' \subseteq Pending(q)
                             /\ Pending(q)' = {} \/ inbox'[q] = inbox[q]
  <1>1. /\ next[p] \in Nat /\ Len(inbox[p]) \in Nat /\ next[p] \in 1 .. Len(inbox[p])
        /\ DOMAIN next = Procs /\ DOMAIN pc = Procs /\ DOMAIN inbox = Procs
    BY DEF TypeOK
  <1>2. next[p] \in Pending(p)
    BY <1>1 DEF Pending
  <1>3. CASE next[p] < Len(inbox[p])
    <2>1. next' = [next EXCEPT ![p] = next[p] + 1] /\ pc' = pc /\ inbox' = inbox
      BY <1>3 DEF Advance
    <2>2. \A q \in Procs : next'[q] = IF q = p THEN next[p] + 1 ELSE next[q]
      BY <1>1, <2>1
    <2>3. Pending(p)' = next[p] + 1 .. Len(inbox[p])
      BY <2>1, <2>2 DEF Pending
    <2>4. \A q \in Procs \ {p} : Pending(q)' = Pending(q)
      BY <2>1, <2>2 DEF Pending
    <2>5. Pending(p) = next[p] .. Len(inbox[p])
      BY DEF Pending
    <2>6. /\ \A m \in Pending(p)' : next[p] <= m /\ m # next[p]
          /\ Pending(p)' \subseteq Pending(p)
      BY <1>1, <2>3, <2>5
    <2>7. QED
      BY <1>2, <2>1, <2>4, <2>6
  <1>4. CASE ~(next[p] < Len(inbox[p]))
    <2>1. /\ next' = [next EXCEPT ![p] = 1]
          /\ inbox' = [inbox EXCEPT ![p] = <<>>] \/ inbox' = inbox
          /\ pc' = [pc EXCEPT ![p] = IF p = Host THEN "play" ELSE "teams"]
      BY <1>4 DEF Advance, Goto
    <2>2. pc'[p] # "apply" /\ \A q \in Procs \ {p} : pc'[q] = pc[q]
      BY <1>1, <2>1
    <2>3. \A q \in Procs \ {p} : next'[q] = next[q] /\ inbox'[q] = inbox[q]
      BY <1>1, <2>1
    <2>4. Pending(p)' = {}
      BY <2>2 DEF Pending
    <2>5. \A q \in Procs \ {p} : Pending(q)' = Pending(q)
      BY <2>2, <2>3 DEF Pending
    <2>6. QED
      BY <1>2, <2>3, <2>4, <2>5
  <1>5. QED
    BY <1>3, <1>4

LEMMA HostBufferStays ==
  ASSUME HostBuffer, inbox'[Host] = inbox[Host] \/ inbox'[Host] = <<>>
  PROVE  HostBuffer'
  BY DEF HostBuffer

\* The ages of p's own players grow, and no others change.
OwnAgesGrow(p) ==
  /\ \A i \in Players \ Owned(p) : Ages'[p][i] = Ages[p][i]
  /\ \A i \in Owned(p) : Ages[p][i] <= Ages'[p][i]
  /\ \A q \in Procs \ {p} : Ages'[q] = Ages[q]

\* Own players may die and come back, whatever is under way.
LEMMA OwnAgesKeepOrder ==
  ASSUME TypeOK, TypeOK', OrderParts, HostBuffer', NEW p \in Procs, OwnAgesGrow(p),
         toHost' = toHost, toClient' = toClient,
         \A q \in Procs : /\ Pending(q)' \subseteq Pending(q)
                          /\ Pending(q)' = {} \/ inbox'[q] = inbox[q]
  PROVE  OrderParts'
  <1>1. \A q \in Procs : \A i \in Others(q) : Ages'[q][i] = Ages[q][i]
    BY DEF OwnAgesGrow, Others
  <1>2. \A q \in Procs, i \in Players : Ages[q][i] <= Ages'[q][i]
    <2>1. \A q \in Procs, i \in Players : Ages[q][i] \in Nat
      BY AgesType DEF AgeTables
    <2>2. QED
      BY <2>1 DEF OwnAgesGrow
  <1>3. \A q \in Procs : \A i \in Others(q) : Ages[Source(q, i)][i] <= Ages'[Source(q, i)][i]
    BY <1>2, SourceFacts
  <1>4. \A q \in Procs : \A s : Moves(Ages, Ages', q, s)
    BY <1>1, <1>3 DEF Moves
  <1>5. CopiesInOrder(Ages)'
    <2> SUFFICES ASSUME NEW q \in Procs, NEW i \in Others(q)
                 PROVE  Ages'[q][i] <= Ages'[Source(q, i)][i]
      BY DEF CopiesInOrder
    <2>1. Ages[q][i] <= Ages[Source(q, i)][i]
      BY DEF OrderParts, CopiesInOrder
    <2>2. Source(q, i) \in Procs /\ i \in Players
      BY SourceFacts
    <2>3. Ages \in AgeTables /\ Ages' \in AgeTables
      BY AgesType, NextAgesType
    <2>4. /\ Ages[q][i] \in Nat /\ Ages[Source(q, i)][i] \in Nat
          /\ Ages'[q][i] \in Nat /\ Ages'[Source(q, i)][i] \in Nat
      BY <2>2, <2>3 DEF AgeTables
    <2>5. QED
      BY <1>1, <1>3, <2>1, <2>4
  <1>6. Host \in Procs /\ Clients \subseteq Procs
    BY DEF Procs
  <1>7. QED
    BY <1>4, <1>5, <1>6, MovesKeepOrder

\* A step that leaves all ages alone.
LEMMA AgesUnchanged ==
  ASSUME TypeOK, health' = health, deaths' = deaths
  PROVE  Ages' = Ages /\ \A p \in Procs : OwnAgesGrow(p)
  <1>1. Ages' = Ages
    BY DEF Ages
  <1>2. \A p \in Procs, i \in Players : Ages[p][i] \in Nat
    BY AgesType DEF AgeTables
  <1>3. \A p \in Procs, i \in Players : Ages[p][i] <= Ages'[p][i]
    BY <1>1, <1>2
  <1>4. \A p \in Procs : Owned(p) \subseteq Players
    BY DEF Owned
  <1>5. QED
    BY <1>1, <1>3, <1>4 DEF OwnAgesGrow

LEMMA DamageAges ==
  ASSUME TypeOK, TypeOK', NEW p \in Procs, NEW v \in Ids, NEW k \in Ids,
         NEW damage \in 1 .. MaxHealth, DamagePlayer(p, v, k, damage)
  PROVE  OwnAgesGrow(p) /\ \A q \in Procs, i \in Players : deaths[q][i] <= deaths'[q][i]
  <1> DEFINE left == IF damage >= health[p][v] THEN 0 ELSE health[p][v] - damage
             death == IF left = 0 THEN deaths[p][v] + 1 ELSE deaths[p][v]
  <1>1. /\ v \in Owned(p) /\ v \in Players
        /\ health[p][v] > 0
        /\ health' = [health EXCEPT ![p][v] = left]
        /\ deaths' = [deaths EXCEPT ![p][v] = death]
    BY DEF DamagePlayer, Owned
  <1>2. health[p][v] \in Nat /\ deaths[p][v] \in Nat /\ damage \in Nat /\ damage > 0
    BY <1>1, AgesType, BoundsAssumption
  <1>3. Age(deaths[p][v], health[p][v]) <= Age(death, left) /\ deaths[p][v] <= death
    BY <1>1, <1>2 DEF Age
  <1> HIDE DEF left, death
  <1>4. /\ \A q \in Procs, i \in Players : Ages[q][i] = Age(deaths[q][i], health[q][i])
        /\ \A q \in Procs, i \in Players : Ages[q][i] \in Nat /\ deaths[q][i] \in Nat
        /\ \A q \in Procs, i \in Players : Ages'[q][i] = Age(deaths'[q][i], health'[q][i])
    BY AgesType, NextAgesType DEF AgeTables
  <1>5. /\ \A q \in Procs, i \in Players :
              ~(q = p /\ i = v) => deaths'[q][i] = deaths[q][i] /\ health'[q][i] = health[q][i]
        /\ deaths'[p][v] = death /\ health'[p][v] = left
    <2>1. /\ health \in [Procs -> [Ids -> 0 .. MaxHealth]]
          /\ deaths \in [Procs -> [Ids -> Nat]]
          /\ v \in Ids /\ Players \subseteq Ids
      BY IdFacts DEF TypeOK
    <2>2. \A q \in Procs, i \in Ids :
            /\ health'[q][i] = IF q = p /\ i = v THEN left ELSE health[q][i]
            /\ deaths'[q][i] = IF q = p /\ i = v THEN death ELSE deaths[q][i]
      BY <1>1, <2>1
    <2>3. QED
      BY <2>1, <2>2
  <1>6. \A q \in Procs, i \in Players : ~(q = p /\ i = v) => Ages'[q][i] = Ages[q][i]
    BY <1>4, <1>5
  <1>7. Ages[p][v] <= Ages'[p][v]
    BY <1>1, <1>3, <1>4, <1>5
  <1>8. \A q \in Procs \ {p} : Ages'[q] = Ages[q]
    BY <1>1 DEF Ages, TypeOK
  <1>9. \A i \in Owned(p) : i \in Players
    BY DEF Owned
  <1>10. OwnAgesGrow(p)
    BY <1>1, <1>4, <1>6, <1>7, <1>8, <1>9 DEF OwnAgesGrow
  <1>11. \A q \in Procs, i \in Players : deaths[q][i] <= deaths'[q][i]
    BY <1>3, <1>4, <1>5
  <1>12. QED
    BY <1>10, <1>11

LEMMA FinishAges ==
  ASSUME TypeOK, TypeOK', NEW p \in Procs, FinishFrame(p)
  PROVE  OwnAgesGrow(p)
  <1>1. /\ health' = [health EXCEPT ![p] = [i \in Ids |-> IF i \in DueAt(p) THEN MaxHealth
                                                          ELSE health[p][i]]]
        /\ deaths' = deaths
    BY DEF FinishFrame
  <1>2. \A i \in DueAt(p) : i \in Owned(p) /\ i \in Players /\ health[p][i] = 0
    BY DEF DueAt, DeadAt, Owned
  <1>3. /\ \A i \in Players : health'[p][i] = IF i \in DueAt(p) THEN MaxHealth ELSE health[p][i]
        /\ \A q \in Procs \ {p} : health'[q] = health[q]
    BY <1>1, IdFacts DEF TypeOK
  <1>4. \A q \in Procs \ {p} : Ages'[q] = Ages[q]
    BY <1>1, <1>3 DEF Ages
  <1>5. /\ \A i \in Players : Ages[p][i] = Age(deaths[p][i], health[p][i])
        /\ \A i \in Players : Ages[p][i] \in Nat /\ deaths[p][i] \in Nat
        /\ \A i \in Players : Ages'[p][i] = Age(deaths[p][i], health'[p][i])
    BY <1>1, AgesType, NextAgesType DEF AgeTables
  <1>6. ASSUME NEW i \in DueAt(p) PROVE Ages[p][i] <= Ages'[p][i]
    <2>1. Ages[p][i] = Age(deaths[p][i], 0) /\ Ages'[p][i] = Age(deaths[p][i], MaxHealth)
      BY <1>2, <1>3, <1>5
    <2>2. deaths[p][i] \in Nat
      BY <1>2, <1>5
    <2>3. MaxHealth \in Nat /\ MaxHealth > 0
      BY BoundsAssumption
    <2>4. QED
      BY <2>1, <2>2, <2>3 DEF Age
  <1>7. \A i \in Players : i \notin DueAt(p) => Ages'[p][i] = Ages[p][i]
    BY <1>3, <1>5
  <1>8. \A i \in Owned(p) : i \in Players
    BY DEF Owned
  <1>9. QED
    BY <1>2, <1>4, <1>5, <1>6, <1>7, <1>8 DEF OwnAgesGrow

\* Nobody's age goes down, in any table.
AgesGrow == \A p \in Procs, i \in Players : Ages[p][i] <= Ages'[p][i]

LEMMA OwnGrowth ==
  ASSUME TypeOK, NEW p \in Procs, OwnAgesGrow(p) PROVE AgesGrow
  <1>1. \A q \in Procs, i \in Players : Ages[q][i] \in Nat
    BY AgesType DEF AgeTables
  <1>2. QED
    BY <1>1 DEF OwnAgesGrow, AgesGrow

\* Only copies are overwritten.
LEMMA CopyIsOther ==
  ASSUME TypeOK, HostBuffer, NEW p \in Procs, pc[p] = "apply", Record(p).id # p
  PROVE  Record(p).id \notin Owned(p)
  <1>1. next[p] \in DOMAIN inbox[p]
    BY DEF TypeOK
  <1>2. CASE p = Host
    <2>1. Record(p).id \in Clients \union {Phantom}
      BY <1>1, <1>2 DEF HostBuffer, Record
    <2>2. QED
      BY <1>2, <2>1, IdsAssumption DEF Owned, Owner
  <1>3. CASE p # Host
    BY <1>3 DEF Owned, Owner
  <1>4. QED
    BY <1>2, <1>3

LEMMA CopyAges ==
  ASSUME TypeOK, TypeOK', OrderParts, NEW p \in Procs, ProcessCopy(p)
  PROVE  /\ AgesGrow
         /\ CopiesInOrder(Ages)'
         /\ \A q \in Procs : \A s : q # p \/ InOrder(p, Record(p), s) => Moves(Ages, Ages', q, s)
  <1> DEFINE r == Record(p)
  <1>1. /\ pc[p] = "apply" /\ r.id # p /\ Advance(p)
        /\ health' = [health EXCEPT ![p][r.id] = r.health]
        /\ deaths' = [deaths EXCEPT ![p][r.id] = r.deaths]
    BY DEF ProcessCopy
  <1>2. r \in NetPlayer /\ r.id \in Ids /\ RecordAge(r) \in Nat
    BY <1>1, RecordIsNetPlayer, RecordAgeType
  <1>3. r.id \notin Owned(p)
    BY <1>1, CopyIsOther DEF OrderParts
  <1>4. Between(Ages, p, r)
    <2>1. next[p] \in Pending(p)
      BY <1>1, AdvancePending
    <2>2. QED
      BY <2>1 DEF OrderParts, BufferInOrder, Record
  <1>5. \A q \in Procs, i \in Players :
          Ages'[q][i] = IF q = p /\ i = r.id THEN RecordAge(r) ELSE Ages[q][i]
    <2>1. /\ health \in [Procs -> [Ids -> 0 .. MaxHealth]]
          /\ deaths \in [Procs -> [Ids -> Nat]]
          /\ Players \subseteq Ids
      BY IdFacts DEF TypeOK
    <2> HIDE DEF r
    <2>2. \A q \in Procs, i \in Ids :
            /\ health'[q][i] = IF q = p /\ i = r.id THEN r.health ELSE health[q][i]
            /\ deaths'[q][i] = IF q = p /\ i = r.id THEN r.deaths ELSE deaths[q][i]
      BY <1>1, <1>2, <2>1
    <2>3. \A q \in Procs, i \in Players :
            /\ Ages[q][i] = Age(deaths[q][i], health[q][i])
            /\ Ages'[q][i] = Age(deaths'[q][i], health'[q][i])
      BY AgesType, NextAgesType
    <2>4. QED
      BY <2>1, <2>2, <2>3 DEF RecordAge
  <1> HIDE DEF r
  <1>6. \A q \in Procs, i \in Players : Ages[q][i] \in Nat
    BY AgesType DEF AgeTables
  <1>7. AgesGrow
    <2> SUFFICES ASSUME NEW q \in Procs, NEW i \in Players PROVE Ages[q][i] <= Ages'[q][i]
      BY DEF AgesGrow
    <2>1. CASE q = p /\ i = r.id
      <3>1. r.id \in Others(p)
        BY <1>3, <2>1 DEF Others
      <3>2. QED
        BY <1>4, <1>5, <2>1, <3>1 DEF Between
    <2>2. CASE ~(q = p /\ i = r.id)
      BY <1>5, <1>6, <2>2
    <2>3. QED
      BY <2>1, <2>2
  <1>8. \A q \in Procs : \A i \in Others(q) : Ages[Source(q, i)][i] <= Ages'[Source(q, i)][i]
    BY <1>7, SourceFacts DEF AgesGrow
  <1>9. CopiesInOrder(Ages)'
    <2> SUFFICES ASSUME NEW q \in Procs, NEW i \in Others(q)
                 PROVE  Ages'[q][i] <= Ages'[Source(q, i)][i]
      BY DEF CopiesInOrder
    <2> DEFINE o == Source(q, i)
    <2>1. o \in Procs /\ i \in Players
      BY SourceFacts
    <2>2. /\ Ages[q][i] \in Nat /\ Ages[o][i] \in Nat
          /\ Ages'[q][i] \in Nat /\ Ages'[o][i] \in Nat
      BY <2>1, <1>2, <1>5, <1>6
    <2>3. Ages'[q][i] <= Ages[o][i]
      <3>1. CASE q = p /\ i = r.id
        BY <1>4, <1>5, <2>1, <3>1 DEF Between
      <3>2. CASE ~(q = p /\ i = r.id)
        <4>1. Ages'[q][i] = Ages[q][i]
          BY <1>5, <2>1, <3>2
        <4>2. QED
          BY <4>1 DEF OrderParts, CopiesInOrder
      <3>3. QED
        BY <3>1, <3>2
    <2>4. Ages[o][i] <= Ages'[o][i]
      BY <1>8
    <2> HIDE DEF o
    <2>5. QED
      BY <2>2, <2>3, <2>4 DEF o
  <1>10. ASSUME NEW q \in Procs, NEW s, q # p \/ InOrder(p, r, s), NEW i \in Others(q)
         PROVE  Ages'[q][i] = Ages[q][i] \/ (i = s.id => Ages'[q][i] <= RecordAge(s))
    <2>1. i \in Players
      BY SourceFacts
    <2>2. CASE q = p /\ i = r.id
      <3>1. Ages'[q][i] = RecordAge(r)
        BY <1>5, <2>1, <2>2
      <3>2. i = s.id => RecordAge(r) <= RecordAge(s)
        BY <1>10, <2>2 DEF InOrder
      <3>3. QED
        BY <3>1, <3>2
    <2>3. CASE ~(q = p /\ i = r.id)
      BY <1>5, <2>1, <2>3
    <2>4. QED
      BY <2>2, <2>3
  <1>11. \A q \in Procs : \A s : q # p \/ InOrder(p, r, s) => Moves(Ages, Ages', q, s)
    BY <1>8, <1>10 DEF Moves
  <1>12. QED
    BY <1>7, <1>9, <1>11 DEF r

LEMMA CopyOrder ==
  ASSUME TypeOK, TypeOK', OrderParts, NEW p \in Procs, ProcessCopy(p)
  PROVE  OrderParts' /\ AgesGrow
  <1>1. /\ pc[p] = "apply" /\ Advance(p) /\ toHost' = toHost /\ toClient' = toClient
    BY DEF ProcessCopy
  <1>2. /\ next[p] \in Pending(p)
        /\ \A m \in Pending(p)' : next[p] <= m
        /\ \A q \in Procs : /\ Pending(q)' \subseteq Pending(q)
                            /\ Pending(q)' = {} \/ inbox'[q] = inbox[q]
    BY <1>1, AdvancePending
  <1>3. /\ AgesGrow
        /\ CopiesInOrder(Ages)'
        /\ \A q \in Procs : \A s : q # p \/ InOrder(p, Record(p), s) => Moves(Ages, Ages', q, s)
    BY CopyAges
  <1>4. \A m \in Pending(p)' : InOrder(p, Record(p), inbox[p][m])
    BY <1>2 DEF OrderParts, BufferInOrder, Record
  <1>5. p = Host => \A n \in DOMAIN toHost : InOrder(p, Record(p), toHost[n])
    BY <1>2 DEF OrderParts, HostInOrder, Record
  <1>6. p \in Clients => \A m \in DOMAIN toClient[p] : \A n \in DOMAIN toClient[p][m] :
                            InOrder(p, Record(p), toClient[p][m][n])
    BY <1>2 DEF OrderParts, ClientInOrder, Record
  <1>7. HostBuffer'
    <2>1. inbox'[Host] = inbox[Host] \/ inbox'[Host] = <<>>
      BY <1>1, IdFacts, AdvanceInbox
    <2>2. QED
      BY <2>1, HostBufferStays DEF OrderParts
  <1>8. \A q \in Procs : \A m \in Pending(q)' : Moves(Ages, Ages', q, inbox[q][m])
    BY <1>3, <1>4
  <1>9. \A n \in DOMAIN toHost : Moves(Ages, Ages', Host, toHost[n])
    BY <1>3, <1>5, IdFacts
  <1>10. \A c \in Clients : \A m \in DOMAIN toClient[c] : \A n \in DOMAIN toClient[c][m] :
            Moves(Ages, Ages', c, toClient[c][m][n])
    BY <1>3, <1>6, IdFacts DEF Procs
  <1>11. OrderParts'
    BY <1>1, <1>2, <1>3, <1>7, <1>8, <1>9, <1>10, MovesKeepOrder
  <1>12. QED
    BY <1>3, <1>11

\* The steps that hurt and revive nobody, and send and receive nothing.
LEMMA QuietOrder ==
  ASSUME TypeOK, TypeOK', OrderParts, health' = health, deaths' = deaths,
         toHost' = toHost, toClient' = toClient,
         inbox'[Host] = inbox[Host] \/ inbox'[Host] = <<>>,
         \A q \in Procs : /\ Pending(q)' \subseteq Pending(q)
                          /\ Pending(q)' = {} \/ inbox'[q] = inbox[q]
  PROVE  OrderParts' /\ AgesGrow
  <1>1. OwnAgesGrow(Host) /\ Host \in Procs
    BY IdFacts, AgesUnchanged
  <1>2. HostBuffer'
    BY HostBufferStays DEF OrderParts
  <1>3. OrderParts'
    BY <1>1, <1>2, OwnAgesKeepOrder
  <1>4. AgesGrow
    BY <1>1, OwnGrowth
  <1>5. QED
    BY <1>3, <1>4

-----------------------------------------------------------------------------
(* The steps of the network.                                               *)

\* A record that is sent now is as old as the player it shows.
Fresh(p, s) == s.id \in Others(p) => RecordAge(s) = Ages[Source(p, s.id)][s.id]

LEMMA FreshInOrder ==
  ASSUME TypeOK, OrderParts, NEW p \in Procs, NEW s \in NetPlayer, Fresh(p, s)
  PROVE  /\ Between(Ages, p, s)
         /\ \A r : Between(Ages, p, r) => InOrder(p, r, s)
         /\ InOrder(p, s, s)
  <1>1. RecordAge(s) \in Nat
    BY RecordAgeType
  <1>2. Between(Ages, p, s)
    BY <1>1 DEF Fresh, Between, OrderParts, CopiesInOrder
  <1>3. \A r : Between(Ages, p, r) => InOrder(p, r, s)
    BY DEF Fresh, Between, InOrder
  <1>4. InOrder(p, s, s)
    BY <1>1 DEF InOrder
  <1>5. QED
    BY <1>2, <1>3, <1>4

LEMMA OwnRecordAge ==
  ASSUME TypeOK, NEW p \in Procs, NEW i \in Players
  PROVE  RecordAge(RecordOf(p, i)) = Ages[p][i] /\ RecordOf(p, i).id = i
  BY AgesType DEF RecordAge, RecordOf

LEMMA SnapshotFresh ==
  ASSUME TypeOK, NEW c \in Clients, NEW n \in DOMAIN Snapshot
  PROVE  /\ Snapshot[n] \in NetPlayer
         /\ Fresh(c, Snapshot[n])
         /\ \A m \in DOMAIN Snapshot : InOrder(c, Snapshot[m], Snapshot[n])
  <1>1. \A m \in DOMAIN Snapshot : Snapshot[m] = RecordOf(Host, roster[Host][m])
    BY DEF Snapshot
  <1>2. \A i : RecordOf(Host, i).id = i
    BY DEF RecordOf
  <1>3. Snapshot[n] \in NetPlayer
    BY SnapshotType, ElementIn
  <1>4. c \in Procs /\ Host \in Procs /\ c # Host
    BY IdFacts DEF Procs
  <1>5. Fresh(c, Snapshot[n])
    <2> SUFFICES ASSUME Snapshot[n].id \in Others(c)
                 PROVE  RecordAge(Snapshot[n]) = Ages[Host][Snapshot[n].id]
      BY <1>4 DEF Fresh, Source
    <2>1. Snapshot[n].id \in Players
      BY DEF Others
    <2>2. QED
      BY <1>1, <1>2, <1>4, <2>1, OwnRecordAge
  <1>6. \A m \in DOMAIN Snapshot : Snapshot[m].id = Snapshot[n].id => Snapshot[m] = Snapshot[n]
    BY <1>1, <1>2
  <1>7. RecordAge(Snapshot[n]) \in Nat
    BY <1>3, RecordAgeType
  <1>8. \A m \in DOMAIN Snapshot : InOrder(c, Snapshot[m], Snapshot[n])
    <2> SUFFICES ASSUME NEW m \in DOMAIN Snapshot, Snapshot[m].id = Snapshot[n].id
                 PROVE  RecordAge(Snapshot[m]) <= RecordAge(Snapshot[n])
      BY DEF InOrder
    <2>1. Snapshot[m] = Snapshot[n]
      BY <1>6
    <2>2. QED
      BY <1>7, <2>1
  <1>9. QED
    BY <1>3, <1>5, <1>8

\* What the server finds in its buffer: datagrams in the order of their
\* arrival, and garbage.
LEMMA NetPlayersOrder ==
  ASSUME NEW batch \in Seq(NetPlayer), NEW records \in NetPlayersOf(batch),
         NEW m \in DOMAIN records, NEW n \in DOMAIN records, m <= n
  PROVE  \/ records[m] \in Garbage \/ records[n] \in Garbage
         \/ \E k, l \in DOMAIN batch : k <= l /\ records[m] = batch[k] /\ records[n] = batch[l]
  <1>1. CASE Len(batch) <= 2
    <2>1. records = batch
      BY <1>1 DEF NetPlayersOf
    <2>2. QED
      BY <2>1
  <1>2. CASE Len(batch) > 2
    <2>1. /\ Len(records) = Len(batch) /\ DOMAIN records = 1 .. Len(batch)
          /\ records[1] = batch[1] /\ records[2] = batch[Len(batch)]
          /\ \A x \in 3 .. Len(batch) : records[x] \in Garbage
      BY <1>2, NetPlayersShape
    <2>2. 1 \in DOMAIN batch /\ Len(batch) \in DOMAIN batch /\ Len(batch) \in Nat
      BY <1>2
    <2>3. CASE n > 2
      BY <2>1, <2>2, <2>3
    <2>4. CASE n <= 2
      <3>1. (m = 1 /\ n = 1) \/ (m = 1 /\ n = 2) \/ (m = 2 /\ n = 2)
        BY <2>1, <2>2, <2>4
      <3>2. 1 <= Len(batch) /\ 1 <= 1 /\ Len(batch) <= Len(batch)
        BY <2>2
      <3>3. QED
        BY <2>1, <2>2, <3>1, <3>2
    <2>5. QED
      BY <2>1, <2>2, <2>3, <2>4
  <1>3. QED
    BY <1>1, <1>2

\* A client whose socket and buffer stay as they are.
LEMMA ClientSame ==
  ASSUME OrderParts, NEW c \in Clients, Ages' = Ages, inbox'[c] = inbox[c],
         Pending(c)' = Pending(c), toClient'[c] = toClient[c]
  PROVE  ClientInOrder(Ages', c, inbox'[c], Pending(c)', toClient'[c])
  BY DEF OrderParts

\* A snapshot behind what a client has in its socket and its buffer.
LEMMA SnapshotInOrder ==
  ASSUME TypeOK, OrderParts, NEW c \in Clients
  PROVE  ClientInOrder(Ages, c, inbox[c], Pending(c), Append(toClient[c], Snapshot))
  <1> DEFINE q == toClient[c]
             r == Append(q, Snapshot)
  <1>1. c \in Procs /\ q \in Seq(Seq(NetPlayer) \ {<<>>})
    BY DEF TypeOK, Procs
  <1>2. Snapshot \in Seq(NetPlayer) \ {<<>>}
    BY SnapshotType
  <1>3. /\ DOMAIN q = 1 .. Len(q) /\ Len(q) \in Nat
        /\ DOMAIN r = 1 .. Len(q) + 1
        /\ \A m \in DOMAIN q : r[m] = q[m]
        /\ r[Len(q) + 1] = Snapshot
    BY <1>1, <1>2
  <1>4. ClientInOrder(Ages, c, inbox[c], Pending(c), q) /\ BufferInOrder(Ages, c, inbox[c], Pending(c))
    BY <1>1 DEF OrderParts
  <1>5. \A n \in DOMAIN Snapshot :
          /\ Between(Ages, c, Snapshot[n])
          /\ \A s : Between(Ages, c, s) => InOrder(c, s, Snapshot[n])
          /\ \A m \in DOMAIN Snapshot : InOrder(c, Snapshot[m], Snapshot[n])
    BY <1>1, SnapshotFresh, FreshInOrder
  <1>6. /\ \A m \in DOMAIN q : \A n \in DOMAIN q[m] : Between(Ages, c, q[m][n])
        /\ \A m \in Pending(c) : Between(Ages, c, inbox[c][m])
    BY <1>4 DEF ClientInOrder, BufferInOrder
  <1> HIDE DEF q, r
  <1>7. ASSUME NEW m \in DOMAIN r, NEW n \in DOMAIN r[m]
        PROVE  /\ Between(Ages, c, r[m][n])
               /\ \A k \in DOMAIN r : \A l \in DOMAIN r[k] : k <= m => InOrder(c, r[k][l], r[m][n])
               /\ \A l \in Pending(c) : InOrder(c, inbox[c][l], r[m][n])
    <2>1. CASE m \in DOMAIN q
      <3>1. r[m] = q[m] /\ n \in DOMAIN q[m]
        BY <1>3, <2>1
      <3>2. \A k \in DOMAIN r : k <= m => k \in DOMAIN q /\ r[k] = q[k]
        BY <1>3, <2>1
      <3>3. QED
        BY <1>4, <2>1, <3>1, <3>2 DEF ClientInOrder
    <2>2. CASE m = Len(q) + 1
      <3>1. r[m] = Snapshot /\ n \in DOMAIN Snapshot
        BY <1>3, <2>2
      <3>2. \A k \in DOMAIN r : r[k] = Snapshot \/ (k \in DOMAIN q /\ r[k] = q[k])
        BY <1>3
      <3>3. \A k \in DOMAIN r : \A l \in DOMAIN r[k] : InOrder(c, r[k][l], r[m][n])
        BY <1>5, <1>6, <3>1, <3>2
      <3>4. QED
        BY <1>5, <1>6, <3>1, <3>3
    <2>3. QED
      BY <1>3, <2>1, <2>2
  <1>8. QED
    BY <1>7 DEF ClientInOrder, r, q

LEMMA HostNetOrder ==
  ASSUME TypeOK, TypeOK', OrderParts, HandleNetworkingHost
  PROVE  OrderParts' /\ AgesGrow
  <1>1. /\ pc[Host] = "net" /\ health' = health /\ deaths' = deaths /\ next' = next
        /\ toHost' = <<>> /\ Host \in Procs
        /\ next[Host] = 1
    BY IdFacts DEF HandleNetworkingHost, TypeOK, Running
  <1>2. Ages' = Ages /\ AgesGrow
    BY <1>1, AgesUnchanged, OwnGrowth
  <1>3. \A p \in Procs \ {Host} : Pending(p)' = Pending(p) /\ inbox'[p] = inbox[p]
    <2>1. \A p \in Procs \ {Host} : pc'[p] = pc[p] /\ inbox'[p] = inbox[p]
      <3>1. DOMAIN pc = Procs /\ DOMAIN inbox = Procs
        BY DEF TypeOK
      <3>2. /\ \E stage : pc' = [pc EXCEPT ![Host] = stage]
            /\ inbox' = inbox \/ \E records : inbox' = [inbox EXCEPT ![Host] = records]
        BY DEF HandleNetworkingHost, Goto
      <3>3. QED
        BY <3>1, <3>2
    <2>2. QED
      BY <1>1, <2>1 DEF Pending
  <1>4. \A c \in Clients : c \in Procs \ {Host}
    BY IdFacts DEF Procs
  <1>5. CopiesInOrder(Ages)'
    BY <1>2 DEF OrderParts, CopiesInOrder
  <1>6. BufferInOrder(Ages, Host, inbox'[Host], Pending(Host)') /\ HostBuffer'
    <2>1. CASE toHost = <<>>
      <3>1. inbox' = inbox /\ pc'[Host] = "play"
        BY <1>1, <2>1 DEF HandleNetworkingHost, Goto, TypeOK
      <3>2. Pending(Host)' = {}
        BY <3>1 DEF Pending
      <3>3. HostBuffer'
        BY <3>1, HostBufferStays DEF OrderParts
      <3>4. QED
        BY <3>2, <3>3 DEF BufferInOrder
    <2>2. CASE toHost # <<>>
      <3>1. PICK records \in NetPlayersOf(toHost) : inbox' = [inbox EXCEPT ![Host] = records]
        BY <2>2 DEF HandleNetworkingHost
      <3>2. inbox'[Host] = records
        BY <1>1, <3>1 DEF TypeOK
      <3>3. toHost \in Seq(NetPlayer) /\ \A n \in DOMAIN toHost : toHost[n].id \in Clients
        BY DEF TypeOK
      <3>4. /\ records \in Seq(NetPlayer)
            /\ \A n \in DOMAIN records : records[n] \in Range(toHost) \/ records[n] \in Garbage
        BY <3>1, <3>3, NetPlayersType
      <3>5. \A s \in Garbage : s.id = Phantom /\ s.id \notin Others(Host)
        BY IdsAssumption DEF Garbage, Others
      <3>6. \A s \in Garbage : /\ Between(Ages, Host, s)
                               /\ \A r : InOrder(Host, r, s) /\ InOrder(Host, s, r)
        BY <3>5 DEF Between, InOrder
      <3>7. HostBuffer'
        BY <3>2, <3>3, <3>4, <3>5 DEF HostBuffer, Range
      <3>8. Pending(Host)' \subseteq DOMAIN records
        BY <1>1, <3>2, <3>4 DEF Pending
      <3>9. /\ \A n \in DOMAIN toHost : Between(Ages, Host, toHost[n])
            /\ \A k, l \in DOMAIN toHost : k <= l => InOrder(Host, toHost[k], toHost[l])
        BY DEF OrderParts, HostInOrder
      <3>10. \A n \in DOMAIN records : Between(Ages, Host, records[n])
        BY <3>4, <3>6, <3>9 DEF Range
      <3>11. \A m, n \in DOMAIN records : m <= n => InOrder(Host, records[m], records[n])
        BY <3>1, <3>3, <3>6, <3>9, NetPlayersOrder
      <3>12. QED
        BY <3>2, <3>7, <3>8, <3>10, <3>11 DEF BufferInOrder
    <2>3. QED
      BY <2>1, <2>2
  <1>7. \A p \in Procs : BufferInOrder(Ages', p, inbox'[p], Pending(p)')
    <2>1. \A p \in Procs \ {Host} : BufferInOrder(Ages, p, inbox'[p], Pending(p)')
      BY <1>3 DEF OrderParts
    <2>2. QED
      BY <1>2, <1>6, <2>1
  <1>8. HostInOrder(Ages', inbox'[Host], Pending(Host)', toHost')
    BY <1>1 DEF HostInOrder
  <1>9. ASSUME NEW c \in Clients
        PROVE  ClientInOrder(Ages', c, inbox'[c], Pending(c)', toClient'[c])
    <2>1. inbox'[c] = inbox[c] /\ Pending(c)' = Pending(c)
      BY <1>3, <1>4
    <2>2. toClient'[c] = toClient[c] \/ toClient'[c] = Append(toClient[c], Snapshot)
      BY DEF HandleNetworkingHost
    <2>3. CASE toClient'[c] = toClient[c]
      BY <1>2, <2>1, <2>3, ClientSame
    <2>4. CASE toClient'[c] = Append(toClient[c], Snapshot)
      BY <1>2, <2>1, <2>4, SnapshotInOrder
    <2>5. QED
      BY <2>2, <2>3, <2>4
  <1>10. QED
    BY <1>2, <1>5, <1>6, <1>7, <1>8, <1>9 DEF OrderParts

\* A client's own record behind what the server has in its socket and buffer.
LEMMA SentInOrder ==
  ASSUME TypeOK, OrderParts, NEW c \in Clients
  PROVE  HostInOrder(Ages, inbox[Host], Pending(Host), Append(toHost, RecordOf(c, c)))
  <1> DEFINE s == RecordOf(c, c)
             r == Append(toHost, s)
  <1>1. /\ c \in Procs /\ c \in Players /\ c \in Ids /\ Host \in Procs
        /\ c \in Others(Host) /\ Source(Host, c) = c
    BY IdFacts, IdsAssumption DEF Procs, Players, Ids, Others, Owned, Owner, Source
  <1>2. s \in NetPlayer /\ s.id = c /\ RecordAge(s) = Ages[c][c]
    BY <1>1, RecordType, OwnRecordAge
  <1>3. Fresh(Host, s)
    BY <1>1, <1>2 DEF Fresh
  <1> HIDE DEF s
  <1>4. /\ Between(Ages, Host, s) /\ InOrder(Host, s, s)
        /\ \A t : Between(Ages, Host, t) => InOrder(Host, t, s)
    BY <1>1, <1>2, <1>3, FreshInOrder
  <1>5. /\ DOMAIN toHost = 1 .. Len(toHost) /\ Len(toHost) \in Nat
        /\ DOMAIN r = 1 .. Len(toHost) + 1
        /\ \A m \in DOMAIN toHost : r[m] = toHost[m]
        /\ r[Len(toHost) + 1] = s
    <2>1. toHost \in Seq(NetPlayer)
      BY DEF TypeOK
    <2>2. QED
      BY <1>2, <2>1
  <1>6. HostInOrder(Ages, inbox[Host], Pending(Host), toHost)
        /\ BufferInOrder(Ages, Host, inbox[Host], Pending(Host))
    BY <1>1 DEF OrderParts
  <1>7. /\ \A m \in DOMAIN toHost : Between(Ages, Host, toHost[m])
        /\ \A m \in Pending(Host) : Between(Ages, Host, inbox[Host][m])
    BY <1>6 DEF HostInOrder, BufferInOrder
  <1> HIDE DEF r
  <1>8. ASSUME NEW n \in DOMAIN r
        PROVE  /\ Between(Ages, Host, r[n])
               /\ \A m \in DOMAIN r : m <= n => InOrder(Host, r[m], r[n])
               /\ \A m \in Pending(Host) : InOrder(Host, inbox[Host][m], r[n])
    <2>1. CASE n \in DOMAIN toHost
      <3>1. \A m \in DOMAIN r : m <= n => m \in DOMAIN toHost /\ r[m] = toHost[m]
        BY <1>5, <2>1
      <3>2. QED
        BY <1>5, <1>6, <2>1, <3>1 DEF HostInOrder
    <2>2. CASE n = Len(toHost) + 1
      <3>1. r[n] = s
        BY <1>5, <2>2
      <3>2. \A m \in DOMAIN r : r[m] = s \/ (m \in DOMAIN toHost /\ r[m] = toHost[m])
        BY <1>5
      <3>3. QED
        BY <1>4, <1>7, <3>1, <3>2
    <2>3. QED
      BY <1>5, <2>1, <2>2
  <1>9. QED
    BY <1>8 DEF HostInOrder, r, s

\* A client reads the first datagram of q and throws the second away.
LEMMA ReadInOrder ==
  ASSUME NEW c \in Clients, NEW a, NEW box, NEW ns, NEW q \in Seq(Seq(NetPlayer) \ {<<>>}),
         q # <<>>, ClientInOrder(a, c, box, ns, q)
  PROVE  /\ BufferInOrder(a, c, Head(q), DOMAIN Head(q))
         /\ ClientInOrder(a, c, Head(q), DOMAIN Head(q), SubSeq(q, 3, Len(q)))
  <1> DEFINE r == SubSeq(q, 3, Len(q))
  <1>1. /\ 1 \in DOMAIN q /\ Head(q) = q[1] /\ 1 <= 1
        /\ \A m \in DOMAIN r : m + 2 \in DOMAIN q /\ r[m] = q[m + 2] /\ 1 <= m + 2
        /\ \A k, m \in DOMAIN r : k <= m => k + 2 <= m + 2
    OBVIOUS
  <1> HIDE DEF r
  <1>2. BufferInOrder(a, c, Head(q), DOMAIN Head(q))
    BY <1>1 DEF BufferInOrder, ClientInOrder
  <1>3. \A m \in DOMAIN r : \A n \in DOMAIN r[m] :
          /\ Between(a, c, r[m][n])
          /\ \A k \in DOMAIN r : \A l \in DOMAIN r[k] : k <= m => InOrder(c, r[k][l], r[m][n])
          /\ \A l \in DOMAIN Head(q) : InOrder(c, Head(q)[l], r[m][n])
    BY <1>1 DEF ClientInOrder
  <1>4. QED
    BY <1>2, <1>3 DEF ClientInOrder, r

LEMMA ClientNetOrder ==
  ASSUME TypeOK, TypeOK', OrderParts, NEW c \in Clients, HandleNetworkingClient(c)
  PROVE  OrderParts' /\ AgesGrow
  <1> DEFINE q == toClient[c]
  <1>1. /\ pc[c] = "net" /\ health' = health /\ deaths' = deaths /\ next' = next
        /\ c \in Procs /\ Host \in Procs /\ c # Host /\ next[c] = 1
        /\ q \in Seq(Seq(NetPlayer) \ {<<>>})
    BY IdFacts DEF HandleNetworkingClient, TypeOK, Running, Procs
  <1>2. Ages' = Ages /\ AgesGrow
    BY <1>1, AgesUnchanged, OwnGrowth
  <1>3. CopiesInOrder(Ages)'
    BY <1>2 DEF OrderParts, CopiesInOrder
  <1>4. DOMAIN pc = Procs /\ DOMAIN inbox = Procs /\ DOMAIN toClient = Clients
    BY DEF TypeOK
  <1>5. \A p \in Procs \ {c} : Pending(p)' = Pending(p) /\ inbox'[p] = inbox[p]
    <2>1. \A p \in Procs \ {c} : pc'[p] = pc[p] /\ inbox'[p] = inbox[p]
      <3>1. /\ \E stage : pc' = [pc EXCEPT ![c] = stage]
            /\ inbox' = inbox \/ \E records : inbox' = [inbox EXCEPT ![c] = records]
        BY DEF HandleNetworkingClient, Goto
      <3>2. QED
        BY <1>4, <3>1
    <2>2. QED
      BY <1>1, <2>1 DEF Pending
  <1>6. /\ BufferInOrder(Ages, c, inbox'[c], Pending(c)')
        /\ ClientInOrder(Ages, c, inbox'[c], Pending(c)', toClient'[c])
    <2>1. ClientInOrder(Ages, c, inbox[c], Pending(c), q)
      BY DEF OrderParts
    <2>2. CASE q = <<>>
      <3>1. pc'[c] = "play" /\ toClient' = toClient
        BY <1>1, <1>4, <2>2 DEF HandleNetworkingClient, Goto
      <3>2. Pending(c)' = {}
        BY <3>1 DEF Pending
      <3>3. QED
        BY <2>2, <3>1, <3>2 DEF BufferInOrder, ClientInOrder
    <2>3. CASE q # <<>>
      <3>1. /\ inbox'[c] = Head(q) /\ pc'[c] = "apply"
            /\ toClient'[c] = SubSeq(q, 3, Len(q))
        BY <1>1, <1>4, <2>3 DEF HandleNetworkingClient, Goto
      <3>2. Head(q) \in Seq(NetPlayer)
        BY <1>1, <2>3
      <3>3. Pending(c)' = DOMAIN Head(q)
        BY <1>1, <3>1, <3>2 DEF Pending
      <3>4. QED
        BY <1>1, <2>1, <2>3, <3>1, <3>3, ReadInOrder
    <2>4. QED
      BY <2>2, <2>3
  <1>7. HostInOrder(Ages', inbox'[Host], Pending(Host)', toHost')
    <2>1. inbox'[Host] = inbox[Host] /\ Pending(Host)' = Pending(Host)
      BY <1>1, <1>5
    <2>2. toHost' = toHost \/ toHost' = Append(toHost, RecordOf(c, c))
      BY DEF HandleNetworkingClient
    <2>3. CASE toHost' = toHost
      BY <1>2, <2>1, <2>3 DEF OrderParts
    <2>4. CASE toHost' = Append(toHost, RecordOf(c, c))
      BY <1>2, <2>1, <2>4, SentInOrder
    <2>5. QED
      BY <2>2, <2>3, <2>4
  <1>8. HostBuffer'
    BY <1>1, <1>5, HostBufferStays DEF OrderParts
  <1>9. \A p \in Procs : BufferInOrder(Ages', p, inbox'[p], Pending(p)')
    <2>1. \A p \in Procs \ {c} : BufferInOrder(Ages, p, inbox'[p], Pending(p)')
      BY <1>5 DEF OrderParts
    <2>2. QED
      BY <1>2, <1>6, <2>1
  <1>10. ASSUME NEW d \in Clients
         PROVE  ClientInOrder(Ages', d, inbox'[d], Pending(d)', toClient'[d])
    <2>1. CASE d = c
      BY <1>2, <1>6, <2>1
    <2>2. CASE d # c
      <3>1. d \in Procs \ {c}
        BY <2>2 DEF Procs
      <3>2. toClient' = toClient \/ toClient' = [toClient EXCEPT ![c] = SubSeq(q, 3, Len(q))]
        BY DEF HandleNetworkingClient
      <3>3. toClient'[d] = toClient[d]
        BY <1>4, <2>2, <3>2
      <3>4. QED
        BY <1>2, <1>5, <3>1, <3>3, ClientSame
    <2>3. QED
      BY <2>1, <2>2
  <1>11. QED
    BY <1>2, <1>3, <1>7, <1>8, <1>9, <1>10 DEF OrderParts

-----------------------------------------------------------------------------
(* Every step.                                                             *)

LEMMA AdvanceOrder ==
  ASSUME TypeOK, TypeOK', OrderParts, NEW p \in Procs, pc[p] = "apply", Advance(p),
         health' = health, deaths' = deaths, toHost' = toHost, toClient' = toClient
  PROVE  OrderParts' /\ AgesGrow
  <1>1. inbox'[Host] = inbox[Host] \/ inbox'[Host] = <<>>
    BY IdFacts, AdvanceInbox
  <1>2. QED
    BY <1>1, AdvancePending, QuietOrder

\* A process that is not at its records before or after the step.
LEMMA NoPending ==
  ASSUME TypeOK, NEW p \in Procs, NEW stage, stage # "apply",
         pc' = [pc EXCEPT ![p] = stage],
         inbox' = inbox \/ inbox' = [inbox EXCEPT ![p] = <<>>], next' = next
  PROVE  \A q \in Procs : /\ Pending(q)' \subseteq Pending(q)
                          /\ Pending(q)' = {} \/ inbox'[q] = inbox[q]
  <1>1. DOMAIN pc = Procs /\ DOMAIN inbox = Procs
    BY DEF TypeOK
  <1>2. pc'[p] = stage /\ \A q \in Procs \ {p} : pc'[q] = pc[q] /\ inbox'[q] = inbox[q]
    BY <1>1
  <1>3. Pending(p)' = {}
    BY <1>2 DEF Pending
  <1>4. \A q \in Procs \ {p} : Pending(q)' = Pending(q) /\ inbox'[q] = inbox[q]
    BY <1>2 DEF Pending
  <1>5. QED
    BY <1>3, <1>4

LEMMA NextOrder ==
  ASSUME TypeOK, TypeOK', OrderParts, [Next]_vars
  PROVE  OrderParts' /\ AgesGrow
  <1>0. Host \in Procs /\ DOMAIN inbox = Procs
    BY IdFacts DEF TypeOK
  <1>1. CASE HandleNetworkingHost
    BY <1>1, HostNetOrder
  <1>2. ASSUME NEW c \in Clients, HandleNetworkingClient(c) PROVE OrderParts' /\ AgesGrow
    BY <1>2, ClientNetOrder
  <1>3. ASSUME NEW c \in Clients, SyncTeams(c) PROVE OrderParts' /\ AgesGrow
    <2>1. /\ UNCHANGED <<tables, network, next>> /\ inbox' = [inbox EXCEPT ![c] = <<>>]
          /\ \E stage \in {"play", "exit_team"} : pc' = [pc EXCEPT ![c] = stage]
      BY <1>3 DEF SyncTeams, Goto
    <2>2. c \in Procs
      BY DEF Procs
    <2>3. inbox'[Host] = inbox[Host] \/ inbox'[Host] = <<>>
      BY <1>0, <2>1
    <2>4. QED
      BY <2>1, <2>2, <2>3, NoPending, QuietOrder
  <1>4. ASSUME NEW p \in Procs, ProcessNetPacket(p) PROVE OrderParts' /\ AgesGrow
    <2>1. CASE ProcessDropped(p)
      BY <2>1, AdvanceOrder DEF ProcessDropped
    <2>2. CASE ProcessOwn(p)
      BY <2>2, AdvanceOrder DEF ProcessOwn
    <2>3. CASE ProcessCopy(p)
      BY <2>3, CopyOrder
    <2>4. CASE ProcessExits(p)
      <3>1. UNCHANGED <<tables, network, inbox, next>> /\ pc' = [pc EXCEPT ![p] = "exit_killer"]
        BY <2>4 DEF ProcessExits, Goto
      <3>2. QED
        BY <3>1, NoPending, QuietOrder
    <2>5. QED
      BY <1>4, <2>1, <2>2, <2>3, <2>4 DEF ProcessNetPacket
  <1>5. ASSUME NEW p \in Procs, NEW v \in Ids, NEW k \in Ids, NEW damage \in 1 .. MaxHealth,
               DamagePlayer(p, v, k, damage)
        PROVE  OrderParts' /\ AgesGrow
    <2>1. UNCHANGED <<pc, network, inbox, next>>
      BY <1>5 DEF DamagePlayer
    <2>2. \A q \in Procs : Pending(q)' = Pending(q)
      BY <2>1 DEF Pending
    <2>3. HostBuffer'
      BY <2>1, HostBufferStays DEF OrderParts
    <2>4. OwnAgesGrow(p)
      BY <1>5, DamageAges
    <2>5. QED
      BY <2>1, <2>2, <2>3, <2>4, OwnAgesKeepOrder, OwnGrowth
  <1>6. ASSUME NEW p \in Procs, FinishFrame(p) PROVE OrderParts' /\ AgesGrow
    <2>1. /\ UNCHANGED <<network, inbox, next>>
          /\ \E stage \in {"menu", "net"} : pc' = [pc EXCEPT ![p] = stage]
      BY <1>6 DEF FinishFrame, Goto
    <2>2. HostBuffer'
      BY <2>1, HostBufferStays DEF OrderParts
    <2>3. OwnAgesGrow(p)
      BY <1>6, FinishAges
    <2>4. QED
      BY <2>1, <2>2, <2>3, NoPending, OwnAgesKeepOrder, OwnGrowth
  <1>7. CASE UNCHANGED vars
    <2>1. \A q \in Procs : Pending(q)' = Pending(q)
      BY <1>7 DEF Pending
    <2>2. QED
      BY <1>7, <2>1, QuietOrder
  <1>8. QED
    BY <1>1, <1>2, <1>3, <1>4, <1>5, <1>6, <1>7 DEF Next, Step, Play, MatchOver

\* The order of a player's life is the order of his ages.
LEMMA AgesGoForward ==
  ASSUME TypeOK, TypeOK', AgesGrow
  PROVE  \A p \in Procs, i \in Players :
            /\ NotLater(deaths[p][i], health[p][i], deaths'[p][i], health'[p][i])
            /\ deaths[p][i] <= deaths'[p][i]
  <1> SUFFICES ASSUME NEW p \in Procs, NEW i \in Players
               PROVE  /\ NotLater(deaths[p][i], health[p][i], deaths'[p][i], health'[p][i])
                      /\ deaths[p][i] <= deaths'[p][i]
    OBVIOUS
  <1>1. /\ deaths[p][i] \in Nat /\ health[p][i] \in Nat
        /\ Ages[p][i] = Age(deaths[p][i], health[p][i])
        /\ deaths'[p][i] \in Nat /\ health'[p][i] \in Nat
        /\ Ages'[p][i] = Age(deaths'[p][i], health'[p][i])
    BY AgesType, NextAgesType
  <1>2. Age(deaths[p][i], health[p][i]) <= Age(deaths'[p][i], health'[p][i])
    BY <1>1 DEF AgesGrow
  <1>3. QED
    BY <1>1, <1>2, AgeOrder

LEMMA OrderOfCopies ==
  ASSUME TypeOK, OrderParts
  PROVE  CopiesNotAhead
  <1> SUFFICES ASSUME NEW p \in Procs, NEW i \in Known(p) \ {Phantom}
               PROVE  NotLater(deaths[p][i], health[p][i],
                               deaths[Owner(i)][i], health[Owner(i)][i])
    BY DEF CopiesNotAhead
  <1> DEFINE o == Owner(i)
  <1>1. i \in Ids /\ i \in Players /\ o \in Procs /\ Host \in Procs
    BY KnownIds, IdFacts DEF Ids
  <1>2. Ages[p][i] \in Nat /\ Ages[Host][i] \in Nat /\ Ages[o][i] \in Nat
    BY <1>1, AgesType DEF AgeTables
  <1>3. i \in Owned(p) => p = o
    BY DEF Owned
  <1>4. i \notin Owned(p) => Ages[p][i] <= Ages[Source(p, i)][i]
    BY <1>1 DEF OrderParts, CopiesInOrder, Others
  <1>5. i \notin Owned(Host) => Ages[Host][i] <= Ages[i][i] /\ o = i
    BY <1>1 DEF OrderParts, CopiesInOrder, Others, Source, Owned, Owner
  <1>6. i \in Owned(Host) => o = Host
    BY DEF Owned
  <1> HIDE DEF o
  <1>7. Ages[p][i] <= Ages[o][i]
    <2>1. CASE p = Host
      BY <1>2, <1>5, <1>6, <2>1
    <2>2. CASE p # Host /\ i \notin Owned(p)
      <3>1. Ages[p][i] <= Ages[Host][i]
        BY <1>4, <2>2 DEF Source
      <3>2. Ages[Host][i] <= Ages[o][i]
        BY <1>2, <1>5, <1>6
      <3>3. QED
        BY <1>2, <3>1, <3>2
    <2>3. CASE i \in Owned(p)
      BY <1>2, <1>3, <2>3
    <2>4. QED
      BY <2>1, <2>2, <2>3
  <1>8. /\ deaths[p][i] \in Nat /\ health[p][i] \in Nat
        /\ deaths[o][i] \in Nat /\ health[o][i] \in Nat
        /\ Ages[p][i] = Age(deaths[p][i], health[p][i])
        /\ Ages[o][i] = Age(deaths[o][i], health[o][i])
    BY <1>1, AgesType
  <1>9. Age(deaths[p][i], health[p][i]) <= Age(deaths[o][i], health[o][i])
    BY <1>7, <1>8
  <1>10. NotLater(deaths[p][i], health[p][i], deaths[o][i], health[o][i])
    BY <1>8, <1>9, AgeOrder
  <1>11. QED
    BY <1>10 DEF o

-----------------------------------------------------------------------------
(* Counting each death once.                                               *)

\* No kill is counted before the table shows the death.
KillsAged ==
  \A p \in Procs, k \in Ids : \A e \in Range(kills[p][k]) :
      e.victim \in Players /\ e.death <= deaths[p][e.victim]

CountInv == KillInv /\ OrderParts /\ KillsAged /\ NoDoubleKill

LEMMA SameCounts ==
  ASSUME TypeOK, TypeOK', AgesGrow, KillsAged, NoDoubleKill, kills' = kills
  PROVE  KillsAged' /\ NoDoubleKill'
  <1>1. ASSUME NEW p \in Procs, NEW k \in Ids, NEW e \in Range(kills[p][k])
        PROVE  e.victim \in Players /\ e.death <= deaths'[p][e.victim]
    <2>1. e.victim \in Players /\ e.death <= deaths[p][e.victim]
      BY DEF KillsAged
    <2>2. e \in PlayerKill
      <3>1. kills[p][k] \in Seq(PlayerKill)
        BY DEF TypeOK
      <3>2. QED
        BY <3>1 DEF Range
    <2>3. e.death \in Nat
      BY <2>2 DEF PlayerKill
    <2>4. deaths[p][e.victim] <= deaths'[p][e.victim]
      BY <2>1, AgesGoForward
    <2>5. deaths[p][e.victim] \in Nat /\ deaths'[p][e.victim] \in Nat
      BY <2>1, AgesType, NextAgesType
    <2>6. e.death <= deaths'[p][e.victim]
      BY <2>1, <2>3, <2>4, <2>5
    <2>7. QED
      BY <2>1, <2>6
  <1>2. KillsAged'
    BY <1>1 DEF KillsAged
  <1>3. NoDoubleKill'
    BY DEF NoDoubleKill
  <1>4. QED
    BY <1>2, <1>3

\* A kill is counted for a death that the table did not show before.
LEMMA OneNewKill ==
  ASSUME TypeOK, TypeOK', AgesGrow, KillsAged, NoDoubleKill, NEW p \in Procs, NEW k \in Ids,
         NEW v \in Players, NEW d \in Nat, deaths[p][v] < d, d <= deaths'[p][v],
         kills' = [kills EXCEPT ![p][k] = Append(kills[p][k], [victim |-> v, death |-> d])]
  PROVE  KillsAged' /\ NoDoubleKill'
  <1> DEFINE e == [victim |-> v, death |-> d]
  <1>1. e \in PlayerKill /\ e.victim = v /\ e.death = d
    BY IdFacts DEF PlayerKill
  <1>2. kills \in [Procs -> [Ids -> Seq(PlayerKill)]]
    BY DEF TypeOK
  <1>3. deaths[p][v] \in Nat
    BY AgesType
  <1>4. \A l \in Ids : \A n \in DOMAIN kills[p][l] : kills[p][l][n] # e
    <2> SUFFICES ASSUME NEW l \in Ids, NEW n \in DOMAIN kills[p][l], kills[p][l][n] = e
                 PROVE  FALSE
      OBVIOUS
    <2>1. e \in Range(kills[p][l])
      BY Zenon DEF Range
    <2>2. d <= deaths[p][v]
      BY <1>1, <2>1 DEF KillsAged
    <2>3. QED
      BY <1>3, <2>2
  <1> HIDE DEF e
  <1>5. \A q \in Procs, l \in Ids :
          kills'[q][l] = IF q = p /\ l = k THEN Append(kills[p][k], e) ELSE kills[q][l]
    BY <1>2 DEF e
  <1>6. /\ DOMAIN kills[p][k] = 1 .. Len(kills[p][k]) /\ Len(kills[p][k]) \in Nat
        /\ DOMAIN Append(kills[p][k], e) = 1 .. Len(kills[p][k]) + 1
        /\ \A n \in DOMAIN kills[p][k] : Append(kills[p][k], e)[n] = kills[p][k][n]
        /\ Append(kills[p][k], e)[Len(kills[p][k]) + 1] = e
    <2>1. kills[p][k] \in Seq(PlayerKill)
      BY <1>2
    <2>2. QED
      BY <1>1, <2>1
  <1>7. \A q \in Procs, l \in Ids : \A n \in DOMAIN kills'[q][l] :
          \/ n \in DOMAIN kills[q][l] /\ kills'[q][l][n] = kills[q][l][n]
          \/ q = p /\ l = k /\ n = Len(kills[p][k]) + 1 /\ kills'[q][l][n] = e
    <2> SUFFICES ASSUME NEW q \in Procs, NEW l \in Ids, NEW n \in DOMAIN kills'[q][l]
                 PROVE  \/ n \in DOMAIN kills[q][l] /\ kills'[q][l][n] = kills[q][l][n]
                        \/ q = p /\ l = k /\ n = Len(kills[p][k]) + 1 /\ kills'[q][l][n] = e
      OBVIOUS
    <2>1. CASE q = p /\ l = k
      <3>1. kills'[q][l] = Append(kills[p][k], e) /\ kills[q][l] = kills[p][k]
        BY <1>5, <2>1
      <3>2. n \in DOMAIN kills[p][k] \/ n = Len(kills[p][k]) + 1
        BY <1>6, <3>1
      <3>3. QED
        BY <1>6, <2>1, <3>1, <3>2
    <2>2. CASE ~(q = p /\ l = k)
      <3>1. kills'[q][l] = kills[q][l]
        BY <1>5, <2>2
      <3>2. QED
        BY <3>1
    <2>3. QED
      BY <2>1, <2>2
  <1>8. NoDoubleKill'
    <2> SUFFICES ASSUME NEW q \in Procs, NEW l1 \in Ids, NEW l2 \in Ids,
                        NEW m \in DOMAIN kills'[q][l1], NEW n \in DOMAIN kills'[q][l2],
                        kills'[q][l1][m] = kills'[q][l2][n]
                 PROVE  l1 = l2 /\ m = n
      BY DEF NoDoubleKill
    <2>1. CASE /\ m \in DOMAIN kills[q][l1] /\ kills'[q][l1][m] = kills[q][l1][m]
               /\ n \in DOMAIN kills[q][l2] /\ kills'[q][l2][n] = kills[q][l2][n]
      <3>1. kills[q][l1][m] = kills[q][l2][n]
        BY <2>1
      <3>2. QED
        BY <2>1, <3>1 DEF NoDoubleKill
    <2>2. CASE ~(/\ m \in DOMAIN kills[q][l1] /\ kills'[q][l1][m] = kills[q][l1][m]
                 /\ n \in DOMAIN kills[q][l2] /\ kills'[q][l2][n] = kills[q][l2][n])
      BY <1>4, <1>7, <2>2
    <2>3. QED
      BY <2>1, <2>2
  <1>9. ASSUME NEW q \in Procs, NEW l \in Ids, NEW f \in Range(kills'[q][l])
        PROVE  f.victim \in Players /\ f.death <= deaths'[q][f.victim]
    <2>1. PICK n \in DOMAIN kills'[q][l] : f = kills'[q][l][n]
      BY DEF Range
    <2>2. CASE q = p /\ f = e
      BY <1>1, <2>2
    <2>3. CASE n \in DOMAIN kills[q][l] /\ f = kills[q][l][n]
      <3>1. f \in Range(kills[q][l])
        BY <2>3, Zenon DEF Range
      <3>2. f.victim \in Players /\ f.death <= deaths[q][f.victim]
        BY <3>1 DEF KillsAged
      <3>3. f \in PlayerKill
        BY <1>2, <2>3, ElementIn
      <3>4. f.death \in Nat
        BY <3>3 DEF PlayerKill
      <3>5. /\ deaths[q][f.victim] <= deaths'[q][f.victim]
            /\ deaths[q][f.victim] \in Nat /\ deaths'[q][f.victim] \in Nat
        BY <3>2, AgesGoForward, AgesType, NextAgesType
      <3>6. f.death <= deaths'[q][f.victim]
        BY <3>2, <3>4, <3>5
      <3>7. QED
        BY <3>2, <3>6
    <2>4. QED
      BY <1>7, <2>1, <2>2, <2>3
  <1>10. KillsAged'
    BY <1>9 DEF KillsAged
  <1>11. QED
    BY <1>8, <1>10

LEMMA DamageCount ==
  ASSUME CountInv, TypeOK', AgesGrow, NEW p \in Procs, NEW v \in Ids, NEW k \in Ids,
         NEW damage \in 1 .. MaxHealth, DamagePlayer(p, v, k, damage)
  PROVE  KillsAged' /\ NoDoubleKill'
  <1> DEFINE died == (IF damage >= health[p][v] THEN 0 ELSE health[p][v] - damage) = 0
             death == deaths[p][v] + 1
  <1>1. /\ v \in Players
        /\ deaths' = [deaths EXCEPT ![p][v] = IF died THEN death ELSE deaths[p][v]]
        /\ kills' = IF died THEN KillsAfter(p, v, k, death) ELSE kills
    BY DEF DamagePlayer, Owned
  <1>2. TypeOK /\ KillsAged /\ NoDoubleKill
    BY DEF CountInv, KillInv
  <1>3. deaths[p][v] \in Nat
    BY <1>1, <1>2, AgesType
  <1>4. deaths[p][v] < death /\ death \in Nat
    BY <1>3
  <1>5. deaths'[p][v] = IF died THEN death ELSE deaths[p][v]
    BY <1>1, <1>2 DEF TypeOK
  <1>6. died => death <= deaths'[p][v]
    BY <1>4, <1>5
  <1> HIDE DEF death, died
  <1>7. CASE died /\ k # v
    <2>1. kills' = [kills EXCEPT ![p][k] = Append(kills[p][k], [victim |-> v, death |-> death])]
      BY <1>1, <1>7 DEF KillsAfter
    <2>2. QED
      BY <1>1, <1>2, <1>4, <1>6, <1>7, <2>1, OneNewKill
  <1>8. CASE ~(died /\ k # v)
    <2>1. kills' = kills
      BY <1>1, <1>8 DEF KillsAfter
    <2>2. QED
      BY <1>2, <2>1, SameCounts
  <1>9. QED
    BY <1>7, <1>8

LEMMA CopyCount ==
  ASSUME CountInv, TypeOK', AgesGrow, NEW p \in Procs, ProcessCopy(p)
  PROVE  KillsAged' /\ NoDoubleKill'
  <1> DEFINE r == Record(p)
             dies == SeenDying(p, r)
  <1>1. /\ pc[p] = "apply" /\ r.id # p /\ Advance(p)
        /\ dies => KillerFound(r.id, r.lastHurt, Known(p))
        /\ deaths' = [deaths EXCEPT ![p][r.id] = r.deaths]
        /\ kills' = IF dies THEN KillsAfter(p, r.id, r.lastHurt, r.deaths) ELSE kills
    BY DEF ProcessCopy, KillerId
  <1>2. TypeOK /\ OrderParts /\ KillsAged /\ NoDoubleKill /\ InboxesCredited
    BY CreditParts DEF CountInv, KillInv
  <1>3. r \in NetPlayer /\ r.id \in Ids /\ r.deaths \in Nat
    BY <1>1, <1>2, RecordIsNetPlayer
  <1>4. CreditedRecord(kills, r)
    BY <1>1, <1>2, RecordIsCredited
  <1>5. r.id \notin Owned(p)
    BY <1>1, <1>2, CopyIsOther DEF OrderParts
  <1>6. Between(Ages, p, r)
    <2>1. next[p] \in Pending(p)
      BY <1>1, <1>2, AdvancePending
    <2>2. QED
      BY <1>2, <2>1 DEF OrderParts, BufferInOrder, Record
  <1>7. dies => r.health = 0 /\ health[p][r.id] > 0
    BY DEF SeenDying
  <1> HIDE DEF r, dies
  <1>8. CASE dies /\ r.lastHurt # r.id
    <2>1. r.lastHurt \in Known(p)
      BY <1>1, <1>8 DEF KillerFound
    <2>2. r.lastHurt \in Ids /\ r.lastHurt # None
      BY <1>2, <2>1, KnownIds, IdsAssumption
    <2>3. r.id \in Players
      BY <1>3, <1>4, <1>7, <1>8, <2>2 DEF CreditedRecord, DeathIsCredited, Ids
    <2>4. Age(deaths[p][r.id], health[p][r.id]) <= Age(r.deaths, r.health)
      <3>1. r.id \in Others(p)
        BY <1>5, <2>3 DEF Others
      <3>2. Ages[p][r.id] = Age(deaths[p][r.id], health[p][r.id])
        BY <1>2, <2>3, AgesType
      <3>3. QED
        BY <1>6, <3>1, <3>2 DEF Between, RecordAge
    <2>5. deaths[p][r.id] \in Nat /\ health[p][r.id] \in Nat
      BY <1>2, <2>3, AgesType
    <2>6. deaths[p][r.id] < r.deaths
      <3>1. r.health = 0 /\ health[p][r.id] > 0
        BY <1>7, <1>8
      <3>2. QED
        BY <1>3, <2>4, <2>5, <3>1 DEF Age
    <2>7. deaths'[p][r.id] = r.deaths
      BY <1>1, <1>2, <1>3 DEF TypeOK
    <2>8. r.deaths <= deaths'[p][r.id]
      BY <1>3, <2>7
    <2>9. kills' = [kills EXCEPT ![p][r.lastHurt] =
                      Append(kills[p][r.lastHurt], [victim |-> r.id, death |-> r.deaths])]
      BY <1>1, <1>8 DEF KillsAfter
    <2>10. QED
      BY <1>2, <1>3, <2>2, <2>3, <2>6, <2>8, <2>9, OneNewKill
  <1>9. CASE ~(dies /\ r.lastHurt # r.id)
    <2>1. kills' = kills
      BY <1>1, <1>9 DEF KillsAfter
    <2>2. QED
      BY <1>2, <2>1, SameCounts
  <1>10. QED
    BY <1>8, <1>9

LEMMA InitCount == Init => CountInv
  <1> SUFFICES ASSUME Init PROVE CountInv
    OBVIOUS
  <1>1. KillInv /\ OrderParts
    BY InitKill, InitOrder
  <1>2. \A p \in Procs, k \in Ids : kills[p][k] = <<>>
    BY DEF Init
  <1>3. KillsAged /\ NoDoubleKill
    BY <1>2 DEF KillsAged, NoDoubleKill, Range
  <1>4. QED
    BY <1>1, <1>3 DEF CountInv

LEMMA NextCount ==
  ASSUME CountInv, [Next]_vars
  PROVE  CountInv' /\ AgesGrow
  <1>1. KillInv /\ TypeOK /\ OrderParts /\ KillsAged /\ NoDoubleKill
    BY DEF CountInv, KillInv
  <1>2. KillInv' /\ TypeOK'
    BY <1>1, NextKill, NextType
  <1>3. OrderParts' /\ AgesGrow
    BY <1>1, <1>2, NextOrder
  <1>4. KillsAged' /\ NoDoubleKill'
    <2>1. CASE kills' = kills
      BY <1>1, <1>2, <1>3, <2>1, SameCounts
    <2>2. ASSUME NEW p \in Procs, ProcessCopy(p) PROVE KillsAged' /\ NoDoubleKill'
      BY <1>2, <1>3, <2>2, CopyCount
    <2>3. ASSUME NEW p \in Procs, Play(p) PROVE KillsAged' /\ NoDoubleKill'
      BY <1>2, <1>3, <2>3, DamageCount DEF Play
    <2>4. CASE HandleNetworkingHost \/ \E c \in Clients : HandleNetworkingClient(c) \/ SyncTeams(c)
      BY <2>1, <2>4 DEF HandleNetworkingHost, HandleNetworkingClient, SyncTeams
    <2>5. ASSUME NEW p \in Procs,
                 ProcessDropped(p) \/ ProcessOwn(p) \/ ProcessExits(p) \/ FinishFrame(p)
          PROVE  KillsAged' /\ NoDoubleKill'
      BY <2>1, <2>5 DEF ProcessDropped, ProcessOwn, ProcessExits, FinishFrame
    <2>6. CASE UNCHANGED vars
      BY <2>1, <2>6
    <2>7. QED
      BY <2>2, <2>3, <2>4, <2>5, <2>6 DEF Next, Step, MatchOver, ProcessNetPacket
  <1>5. QED
    BY <1>2, <1>3, <1>4 DEF CountInv

-----------------------------------------------------------------------------
\* A copy never goes back to an earlier point of the player's life, whatever
\* the network loses and however late a datagram is read, as long as sockets keep the
\* order in which they were sent to (process_net_packets).
THEOREM CopiesGoForward == Spec => CopiesNeverGoBack
  <1>1. CountInv /\ [Next]_vars =>
          [\A p \in Procs : \A i \in Players \ Owned(p) :
              NotLater(deaths[p][i], health[p][i], deaths'[p][i], health'[p][i])]_vars
    <2> SUFFICES ASSUME CountInv, [Next]_vars
                 PROVE  \A p \in Procs : \A i \in Players \ Owned(p) :
                           NotLater(deaths[p][i], health[p][i], deaths'[p][i], health'[p][i])
      OBVIOUS
    <2>1. TypeOK /\ TypeOK' /\ AgesGrow
      BY NextCount DEF CountInv, KillInv
    <2>2. QED
      BY <2>1, AgesGoForward
  <1>2. QED
    BY <1>1, InitCount, NextCount, PTL DEF Spec, CopiesNeverGoBack

\* No copy is ahead of the player it shows (process_net_packets).
THEOREM CopiesBehind == Spec => []CopiesNotAhead
  <1>1. CountInv => CopiesNotAhead
    BY OrderOfCopies DEF CountInv, KillInv
  <1>2. QED
    BY <1>1, InitCount, NextCount, PTL DEF Spec

\* No process counts a death twice, if datagrams are lost or late but in order
\* (process_net_packets, damage_player).
THEOREM KillsCountedOnce == Spec => []NoDoubleKill
  <1>1. CountInv => NoDoubleKill
    BY DEF CountInv
  <1>2. QED
    BY <1>1, InitCount, NextCount, PTL DEF Spec

-----------------------------------------------------------------------------
(* Sums over finite sets.                                                  *)

\* The member that a sum takes from a set next, and the sums g of f over the
\* subsets of S.
Pick(s) == CHOOSE x \in s : TRUE

Sums(f, S, g) ==
  g = [s \in SUBSET S |-> IF s = {} THEN 0 ELSE f[Pick(s)] + g[s \ {Pick(s)}]]

LEMMA PickedOne ==
  ASSUME NEW S, IsFiniteSet(S), NEW s \in SUBSET S, s # {}
  PROVE  /\ Pick(s) \in s /\ s \ {Pick(s)} \in SUBSET S
         /\ Cardinality(s) \in Nat \ {0}
         /\ Cardinality(s \ {Pick(s)}) = Cardinality(s) - 1
  <1>1. Pick(s) \in s
    BY DEF Pick
  <1>2. IsFiniteSet(s)
    BY FS_Subset
  <1>3. Cardinality(s) \in Nat /\ Cardinality(s) # 0
    BY <1>2, FS_CardinalityType, FS_EmptySet
  <1>4. Cardinality(s \ {Pick(s)}) = Cardinality(s) - 1
    BY <1>1, <1>2, FS_RemoveElement
  <1>5. QED
    BY <1>1, <1>3, <1>4

\* Sums over the subsets of a finite set exist: those over more members are made
\* from those over fewer.
LEMMA SumExists ==
  ASSUME NEW S, IsFiniteSet(S), NEW f
  PROVE  \E g : Sums(f, S, g)
  <1> DEFINE Small(n) == {s \in SUBSET S : Cardinality(s) <= n}
             Upto(n, g) == g = [s \in Small(n) |->
                                  IF s = {} THEN 0 ELSE f[Pick(s)] + g[s \ {Pick(s)}]]
             bad == {n \in Nat : ~ \E g : Upto(n, g)}
  <1>1. \A s \in SUBSET S : Cardinality(s) \in Nat /\ Cardinality(s) <= Cardinality(S)
    <2> SUFFICES ASSUME NEW s \in SUBSET S
                 PROVE  Cardinality(s) \in Nat /\ Cardinality(s) <= Cardinality(S)
      OBVIOUS
    <2>1. IsFiniteSet(s) /\ Cardinality(s) <= Cardinality(S)
      BY FS_Subset
    <2>2. QED
      BY <2>1, FS_CardinalityType
  <1>2. \E g : Upto(0, g)
    <2>1. \A s \in Small(0) : s = {}
      <3>1. ASSUME NEW s \in Small(0) PROVE s = {}
        <4>1. IsFiniteSet(s) /\ Cardinality(s) = 0
          BY <1>1, FS_Subset
        <4>2. QED
          BY <4>1, FS_EmptySet
      <3>2. QED
        BY <3>1
    <2>2. Upto(0, [s \in Small(0) |-> 0])
      BY <2>1
    <2>3. QED
      BY <2>2
  <1>3. ASSUME NEW n \in Nat, NEW g, Upto(n, g) PROVE \E h : Upto(n + 1, h)
    <2> DEFINE h == [s \in Small(n + 1) |->
                       IF s = {} THEN 0 ELSE f[Pick(s)] + g[s \ {Pick(s)}]]
    <2>1. \A s \in Small(n) : s \in Small(n + 1) /\ h[s] = g[s]
      <3>1. ASSUME NEW s \in Small(n) PROVE s \in Small(n + 1) /\ h[s] = g[s]
        <4>1. s \in Small(n + 1)
          BY <1>1
        <4>2. g[s] = IF s = {} THEN 0 ELSE f[Pick(s)] + g[s \ {Pick(s)}]
          BY <1>3
        <4>3. QED
          BY <4>1, <4>2
      <3>2. QED
        BY <3>1
    <2>2. ASSUME NEW s \in Small(n + 1), s # {} PROVE h[s \ {Pick(s)}] = g[s \ {Pick(s)}]
      <3>1. s \ {Pick(s)} \in SUBSET S /\ Cardinality(s \ {Pick(s)}) = Cardinality(s) - 1
        BY <2>2, PickedOne
      <3>2. Cardinality(s) \in Nat /\ Cardinality(s) <= n + 1
        BY <1>1
      <3>3. s \ {Pick(s)} \in Small(n)
        BY <3>1, <3>2
      <3>4. QED
        BY <2>1, <3>3
    <2>3. \A s \in Small(n + 1) :
            h[s] = IF s = {} THEN 0 ELSE f[Pick(s)] + h[s \ {Pick(s)}]
      BY <2>2
    <2>4. h = [s \in Small(n + 1) |-> h[s]]
      OBVIOUS
    <2> HIDE DEF h
    <2>5. Upto(n + 1, h)
      BY <2>3, <2>4
    <2>6. QED
      BY <2>5
  <1> HIDE DEF Upto
  <1>4. bad = {}
    <2> SUFFICES ASSUME bad # {} PROVE FALSE
      OBVIOUS
    <2>1. PICK n \in bad : \A m \in bad : n <= m
      BY LeastNatural
    <2>2. n \in Nat /\ n # 0
      BY <1>2
    <2>3. n - 1 \in Nat /\ n - 1 \notin bad /\ (n - 1) + 1 = n
      BY <2>1, <2>2
    <2>4. PICK g : Upto(n - 1, g)
      BY <2>3
    <2>5. \E h : Upto((n - 1) + 1, h)
      BY <1>3, <2>3, <2>4
    <2>6. QED
      BY <2>1, <2>3, <2>5
  <1>5. Cardinality(S) \in Nat
    BY FS_CardinalityType
  <1>6. PICK g : Upto(Cardinality(S), g)
    BY <1>4, <1>5
  <1>7. Small(Cardinality(S)) = SUBSET S
    BY <1>1
  <1>8. QED
    BY <1>6, <1>7 DEF Upto, Sums

\* A sum of naturals is a natural, and at least each of them.
LEMMA SumBounds ==
  ASSUME NEW S, IsFiniteSet(S), NEW f \in [S -> Nat], NEW g, Sums(f, S, g)
  PROVE  g[S] \in Nat /\ \A x \in S : f[x] <= g[S]
  <1> DEFINE Good(s) == g[s] \in Nat /\ \A x \in s : f[x] <= g[s]
             bad == {n \in Nat : \E s \in SUBSET S : Cardinality(s) = n /\ ~Good(s)}
  <1>1. \A s \in SUBSET S : g[s] = IF s = {} THEN 0 ELSE f[Pick(s)] + g[s \ {Pick(s)}]
    BY DEF Sums
  <1>2. bad = {}
    <2> SUFFICES ASSUME bad # {} PROVE FALSE
      OBVIOUS
    <2>1. PICK n \in bad : \A m \in bad : n <= m
      BY LeastNatural
    <2>2. PICK s \in SUBSET S : Cardinality(s) = n /\ ~Good(s)
      BY <2>1
    <2>3. s # {}
      BY <1>1, <2>2
    <2> DEFINE x == Pick(s)
               u == s \ {x}
    <2>4. /\ x \in s /\ u \in SUBSET S
          /\ n \in Nat /\ n # 0 /\ Cardinality(u) = n - 1
      BY <2>2, <2>3, PickedOne
    <2>5. g[s] = f[x] + g[u]
      BY <1>1, <2>3
    <2>6. \A y \in s : y = x \/ y \in u
      OBVIOUS
    <2> HIDE DEF x, u
    <2>7. Good(u)
      <3>1. n - 1 \in Nat /\ ~(n <= n - 1)
        BY <2>4
      <3>2. n - 1 \notin bad
        BY <2>1, <3>1
      <3>3. QED
        BY <2>4, <3>1, <3>2
    <2>8. f[x] \in Nat /\ g[u] \in Nat
      BY <2>4, <2>7
    <2>9. g[s] \in Nat /\ f[x] <= g[s] /\ g[u] <= g[s]
      BY <2>5, <2>8
    <2>10. ASSUME NEW y \in u PROVE f[y] <= g[s]
      <3>1. f[y] \in Nat /\ f[y] <= g[u]
        BY <2>4, <2>7
      <3>2. QED
        BY <2>8, <2>9, <3>1
    <2>11. QED
      BY <2>2, <2>6, <2>9, <2>10
  <1>3. Cardinality(S) \in Nat /\ Cardinality(S) \notin bad /\ S \in SUBSET S
    BY <1>2, FS_CardinalityType
  <1> HIDE DEF Good
  <1>4. Good(S)
    BY <1>3
  <1>5. QED
    BY <1>4 DEF Good

-----------------------------------------------------------------------------
(* The sums of the model.                                                  *)

\* The sums of DeathsSoFar and of Score.
IsDeathSum(g) ==
  g = [s \in SUBSET Players |->
         IF s = {} THEN 0 ELSE deaths[Owner(Pick(s))][Pick(s)] + g[s \ {Pick(s)}]]

TeamOf(p, t) == {i \in Known(p) : team[p][i] = t}

IsScoreSum(p, t, g) ==
  g = [s \in SUBSET TeamOf(p, t) |->
         IF s = {} THEN 0 ELSE Len(kills[p][Pick(s)]) + g[s \ {Pick(s)}]]

\* No player has died more often than all of them.
LEMMA DeathsCounted ==
  ASSUME TypeOK
  PROVE  DeathsSoFar \in Nat /\ \A i \in Players : deaths[Owner(i)][i] <= DeathsSoFar
  <1> DEFINE f == [i \in Players |-> deaths[Owner(i)][i]]
             h == CHOOSE g : IsDeathSum(g)
  <1>1. IsFiniteSet(Players)
    BY FinitePlayers
  <1>2. f \in [Players -> Nat]
    <2>1. \A i \in Players : i \in Ids /\ Owner(i) \in Procs
      BY IdFacts
    <2>2. QED
      BY <2>1 DEF TypeOK
  <1>3. \A s \in SUBSET Players : s # {} => f[Pick(s)] = deaths[Owner(Pick(s))][Pick(s)]
    BY <1>1, PickedOne
  <1>4. \A g : IsDeathSum(g) <=> Sums(f, Players, g)
    <2> SUFFICES ASSUME NEW g PROVE IsDeathSum(g) <=> Sums(f, Players, g)
      OBVIOUS
    <2> HIDE DEF f
    <2>1. [s \in SUBSET Players |->
             IF s = {} THEN 0 ELSE deaths[Owner(Pick(s))][Pick(s)] + g[s \ {Pick(s)}]]
          = [s \in SUBSET Players |-> IF s = {} THEN 0 ELSE f[Pick(s)] + g[s \ {Pick(s)}]]
      BY <1>3
    <2>2. QED
      BY <2>1 DEF IsDeathSum, Sums
  <1>5. \E g : IsDeathSum(g)
    BY <1>1, <1>4, SumExists
  <1>6. IsDeathSum(h)
    BY <1>5, Zenon
  <1>7. DeathsSoFar = h[Players]
    BY DEF DeathsSoFar, MapThenSumSet, MapThenFoldSet, IsDeathSum, Pick
  <1> HIDE DEF h
  <1>8. Sums(f, Players, h)
    BY <1>4, <1>6
  <1>9. h[Players] \in Nat /\ \A i \in Players : f[i] <= h[Players]
    BY <1>1, <1>2, <1>8, SumBounds
  <1>10. QED
    BY <1>7, <1>9

\* A team of one scores what its player has killed, an empty team nothing.
LEMMA SingleScore ==
  ASSUME TypeOK, NEW p \in Procs, NEW t, \A i, j \in TeamOf(p, t) : i = j
  PROVE  Score(p, t) = 0 \/ \E k \in TeamOf(p, t) : Score(p, t) = Len(kills[p][k])
  <1> DEFINE S == TeamOf(p, t)
             f == [i \in S |-> Len(kills[p][i])]
             h == CHOOSE g : IsScoreSum(p, t, g)
  <1>1. IsFiniteSet(S)
    <2>1. roster[p] \in Seq(Ids)
      BY DEF TypeOK
    <2>2. IsFiniteSet(Known(p))
      BY <2>1, ListRange DEF Known
    <2>3. QED
      BY <2>2, FS_Subset DEF TeamOf
  <1>2. \A s \in SUBSET S : s # {} => f[Pick(s)] = Len(kills[p][Pick(s)])
    BY <1>1, PickedOne
  <1>3. \A g : IsScoreSum(p, t, g) <=> Sums(f, S, g)
    <2> SUFFICES ASSUME NEW g PROVE IsScoreSum(p, t, g) <=> Sums(f, S, g)
      OBVIOUS
    <2> HIDE DEF f
    <2>1. [s \in SUBSET S |-> IF s = {} THEN 0 ELSE Len(kills[p][Pick(s)]) + g[s \ {Pick(s)}]]
          = [s \in SUBSET S |-> IF s = {} THEN 0 ELSE f[Pick(s)] + g[s \ {Pick(s)}]]
      BY <1>2
    <2>2. QED
      BY <2>1 DEF IsScoreSum, Sums
  <1>4. \E g : IsScoreSum(p, t, g)
    BY <1>1, <1>3, SumExists
  <1>5. IsScoreSum(p, t, h)
    BY <1>4, Zenon
  <1>6. Score(p, t) = h[S]
    BY DEF Score, MapThenSumSet, MapThenFoldSet, IsScoreSum, Pick, TeamOf
  <1> HIDE DEF h
  <1>7. \A s \in SUBSET S : h[s] = IF s = {} THEN 0 ELSE Len(kills[p][Pick(s)]) + h[s \ {Pick(s)}]
    BY <1>5 DEF IsScoreSum
  <1>8. CASE S = {}
    BY <1>6, <1>7, <1>8
  <1>9. CASE S # {}
    <2> DEFINE k == Pick(S)
    <2>1. k \in S
      BY <1>1, <1>9, PickedOne
    <2>2. S \ {k} = {}
      BY <2>1
    <2>3. h[S] = Len(kills[p][k]) + h[S \ {k}] /\ h[{}] = 0
      BY <1>7, <1>9
    <2> HIDE DEF k
    <2>4. Len(kills[p][k]) \in Nat
      <3>1. k \in Ids
        BY <2>1, KnownIds DEF TeamOf
      <3>2. kills[p][k] \in Seq(PlayerKill)
        BY <3>1 DEF TypeOK
      <3>3. QED
        BY <3>2
    <2>5. h[S] = Len(kills[p][k])
      <3>1. h[S \ {k}] = 0
        BY <2>2, <2>3, Zenon
      <3>2. h[S] = Len(kills[p][k]) + 0
        BY <2>3, <3>1, Zenon
      <3>3. QED
        BY <2>4, <3>2
    <2>6. QED
      BY <1>6, <2>1, <2>5
  <1>10. QED
    BY <1>8, <1>9

\* The kills that happened are finitely many, and none is forgotten.
LEMMA RealKillsFinite ==
  ASSUME TypeOK, NEW k \in Ids
  PROVE  IsFiniteSet(RealKills(k)) /\ Cardinality(RealKills(k)) \in Nat
  <1> DEFINE Own(o) == {e \in Range(kills[o][k]) : Owner(e.victim) = o}
  <1>1. ASSUME NEW o \in Procs PROVE IsFiniteSet(Range(kills[o][k]))
    <2>1. kills[o][k] \in Seq(PlayerKill)
      BY DEF TypeOK
    <2>2. QED
      BY <2>1, ListRange
  <1>2. \A o \in Procs : IsFiniteSet(Own(o))
    BY <1>1, FS_Subset
  <1> HIDE DEF Own
  <1>3. IsFiniteSet({Own(o) : o \in Procs})
    <2>1. IsFiniteSet(Procs)
      BY FinitePlayers, IdFacts, FS_Subset
    <2> DEFINE f == [o \in Procs |-> Own(o)]
    <2>2. f \in Surjection(Procs, {Own(o) : o \in Procs})
      BY DEF Surjection
    <2>3. QED
      BY <2>1, <2>2, FS_Surjection
  <1>4. RealKills(k) = UNION {Own(o) : o \in Procs}
    BY DEF RealKills, Own
  <1>5. IsFiniteSet(RealKills(k))
    BY <1>2, <1>3, <1>4, FS_UNION
  <1>6. QED
    BY <1>5, FS_CardinalityType

FiniteKills == \A k \in Ids : IsFiniteSet(RealKills(k))

LEMMA KillsAreFinite == TypeOK => FiniteKills
  BY RealKillsFinite DEF FiniteKills

LEMMA KillsNeverForgotten ==
  ASSUME KillInv, [Next]_vars
  PROVE  KillsGrow
  <1>1. TypeOK
    BY DEF KillInv
  <1>2. ASSUME NEW p \in Procs, NEW k \in Ids, NEW v \in Players, NEW d \in Nat,
               kills' = [kills EXCEPT ![p][k] = Append(kills[p][k], [victim |-> v, death |-> d])]
        PROVE  KillsGrow
    <2> DEFINE e == [victim |-> v, death |-> d]
    <2>1. e \in PlayerKill /\ kills \in [Procs -> [Ids -> Seq(PlayerKill)]]
      BY <1>1, IdFacts DEF PlayerKill, TypeOK
    <2>2. kills' = [kills EXCEPT ![p][k] = Append(kills[p][k], e)]
      BY <1>2
    <2> HIDE DEF e
    <2>3. Range(Append(kills[p][k], e)) = Range(kills[p][k]) \union {e}
      BY <2>1, AppendRange
    <2>4. \A q \in Procs, l \in Ids :
            \/ kills'[q][l] = kills[q][l]
            \/ q = p /\ l = k /\ kills'[q][l] = Append(kills[p][k], e)
      BY <2>1, <2>2
    <2>5. QED
      BY <2>3, <2>4 DEF KillsGrow
  <1>3. CASE kills' = kills
    BY <1>3 DEF KillsGrow
  <1>4. CASE kills' # kills
    <2>1. PICK p \in Procs, k \in Ids, v \in Players, d \in Nat : Counts(p, k, v, d)
      BY <1>4, KillStep
    <2>2. QED
      BY <1>2, <2>1 DEF Counts
  <1>5. QED
    BY <1>3, <1>4

LEMMA RealKillsGrow ==
  ASSUME TypeOK', KillsGrow, NEW k \in Ids
  PROVE  Cardinality(RealKills(k)) <= Cardinality(RealKills(k)')
  <1>1. RealKills(k) \in SUBSET RealKills(k)'
    BY DEF RealKills, KillsGrow
  <1>2. IsFiniteSet(RealKills(k)')
    <2>1. FiniteKills'
      BY KillsAreFinite, PTL
    <2>2. QED
      BY <2>1 DEF FiniteKills
  <1>3. QED
    BY <1>1, <1>2, FS_Subset

\* A count is at most the number of kills that happened.
LEMMA CountsAreReal ==
  ASSUME TypeOK, KillsAreDeaths, NoDoubleKill, NEW p \in Procs, NEW k \in Ids
  PROVE  Len(kills[p][k]) <= Cardinality(RealKills(k))
  <1>1. kills[p][k] \in Seq(PlayerKill)
    BY DEF TypeOK
  <1>2. Once(kills[p][k])
    BY DEF NoDoubleKill, Once
  <1>3. Cardinality(Range(kills[p][k])) = Len(kills[p][k])
    BY <1>1, <1>2, ListRange
  <1>4. ASSUME NEW e \in Range(kills[p][k]) PROVE e \in RealKills(k)
    <2>1. e \in PlayerKill
      BY <1>1 DEF Range
    <2>2. Owner(e.victim) \in Procs /\ e \in Range(kills[Owner(e.victim)][k])
      BY <2>1, IdFacts DEF PlayerKill, KillsAreDeaths
    <2>3. QED
      BY <2>2 DEF RealKills
  <1>5. Cardinality(Range(kills[p][k])) <= Cardinality(RealKills(k))
    BY <1>4, RealKillsFinite, FS_Subset
  <1>6. QED
    BY <1>3, <1>5

-----------------------------------------------------------------------------
(* Who leaves a won match saw real kills.                                  *)

\* A process that sees a free-for-all won sees the real kills of one player.
LEMMA WonIsReal ==
  ASSUME CountInv, TeamAgreement, HostFirm, Mode = "ffa", NEW p \in Procs, Won(p)
  PROVE  \E k \in Ids : Cardinality(RealKills(k)) >= WinScore
  <1>1. TypeOK /\ KillsAreDeaths /\ NoDoubleKill /\ WinScore \in Nat /\ WinScore # 0
    BY BoundsAssumption DEF CountInv, KillInv
  <1>2. PICK t \in Teams : Score(p, t) >= WinScore
    BY DEF Won
  <1>3. ASSUME NEW i \in TeamOf(p, t), NEW j \in TeamOf(p, t) PROVE i = j
    <2>1. i \in Ids /\ j \in Ids /\ team[p][i] = t /\ team[p][j] = t /\ t # 0
      BY <1>1, KnownIds DEF TeamOf, Teams
    <2>2. team[Host][i] = t /\ team[Host][j] = t
      BY <2>1 DEF TeamAgreement, Procs
    <2>3. QED
      BY <2>1, <2>2 DEF HostFirm, OneMember
  <1>4. Score(p, t) # 0
    BY <1>1, <1>2
  <1>5. PICK k \in TeamOf(p, t) : Score(p, t) = Len(kills[p][k])
    BY <1>1, <1>3, <1>4, SingleScore
  <1>6. k \in Ids
    BY <1>1, KnownIds DEF TeamOf
  <1>7. Len(kills[p][k]) <= Cardinality(RealKills(k)) /\ Cardinality(RealKills(k)) \in Nat
    BY <1>1, <1>6, CountsAreReal, RealKillsFinite
  <1>8. Len(kills[p][k]) \in Nat
    <2>1. kills[p][k] \in Seq(PlayerKill)
      BY <1>1, <1>6 DEF TypeOK
    <2>2. QED
      BY <2>1
  <1>9. Cardinality(RealKills(k)) >= WinScore
    BY <1>1, <1>2, <1>5, <1>7, <1>8
  <1>10. QED
    BY <1>6, <1>9

VictoryInv == CountInv /\ TeamInv /\ HostFirm /\ VictoryIsReal

LEMMA NextVictory ==
  ASSUME VictoryInv, [Next]_vars
  PROVE  VictoryInv'
  <1>1. CountInv /\ KillInv /\ TypeOK /\ TeamInv /\ TeamAgreement /\ HostFirm /\ VictoryIsReal
    BY DEF VictoryInv, CountInv, KillInv, TeamInv
  <1>2. TypeOK' /\ CountInv' /\ TeamInv' /\ HostFirm'
    BY <1>1, NextType, NextCount, NextTeamInv, HostFirmStep
  <1>3. KillsGrow
    BY <1>1, KillsNeverForgotten
  <1>4. ASSUME NEW k \in Ids, Cardinality(RealKills(k)) >= WinScore
        PROVE  Cardinality(RealKills(k)') >= WinScore
    <2>1. Cardinality(RealKills(k)) <= Cardinality(RealKills(k)')
      BY <1>2, <1>3, RealKillsGrow
    <2>2. FiniteKills'
      BY <1>2, KillsAreFinite, PTL
    <2>3. Cardinality(RealKills(k)) \in Nat /\ Cardinality(RealKills(k)') \in Nat
      BY <1>1, <2>2, RealKillsFinite, FS_CardinalityType DEF FiniteKills
    <2>4. QED
      BY <1>4, <2>1, <2>3, BoundsAssumption
  <1>5. ASSUME Mode = "ffa", NEW p \in Procs, pc'[p] = "menu"
        PROVE  \E k \in Ids : Cardinality(RealKills(k)') >= WinScore
    <2>1. CASE pc[p] = "menu"
      BY <1>1, <1>4, <1>5, <2>1 DEF VictoryIsReal
    <2>2. CASE FinishFrame(p) /\ pc[p] # "menu"
      <3>1. Won(p)
        BY <1>1, <1>5, <2>2 DEF FinishFrame, Goto, TypeOK
      <3>2. QED
        BY <1>1, <1>4, <1>5, <3>1, WonIsReal
    <2>3. pc'[p] = pc[p] \/ FinishFrame(p)
      <3>1. p = Host /\ HandleNetworkingHost => pc'[p] # "menu"
        BY <1>1 DEF HandleNetworkingHost, Goto, TypeOK
      <3>2. HandleNetworkingClient(p) => pc'[p] # "menu"
        BY <1>1 DEF HandleNetworkingClient, Goto, TypeOK
      <3>3. SyncTeams(p) => pc'[p] # "menu"
        BY <1>1 DEF SyncTeams, Goto, TypeOK
      <3>4. ASSUME ProcessNetPacket(p) PROVE pc'[p] # "menu"
        <4>1. CASE ProcessExits(p)
          BY <1>1, <4>1 DEF ProcessExits, Goto, TypeOK
        <4>2. CASE pc[p] = "apply" /\ Advance(p)
          BY <1>1, <4>2, AdvanceTo
        <4>3. QED
          BY <3>4, <4>1, <4>2 DEF ProcessNetPacket, ProcessDropped, ProcessOwn, ProcessCopy
      <3>5. Play(p) => pc' = pc
        BY DEF Play, DamagePlayer
      <3>6. QED
        BY <1>1, <1>5, <3>1, <3>2, <3>3, <3>4, <3>5, OneProcess DEF Step
    <2>4. QED
      BY <1>5, <2>1, <2>2, <2>3
  <1>6. VictoryIsReal'
    BY <1>5 DEF VictoryIsReal
  <1>7. QED
    BY <1>2, <1>6 DEF VictoryInv

\* A process that leaves a free-for-all for the main menu leaves it because one
\* player really made enough kills, however many of them it learnt of and when
\* (calculate_scores).
THEOREM VictoriesReal == Spec => []VictoryIsReal
  <1>1. Init => VictoryInv
    <2> SUFFICES ASSUME Init PROVE VictoryInv
      OBVIOUS
    <2>1. VictoryIsReal
      BY DEF Init, VictoryIsReal
    <2>2. QED
      BY <2>1, InitCount, InitTeam, InitFirm DEF VictoryInv, FirmInv
  <1>2. VictoryInv /\ [Next]_vars => VictoryInv'
    BY NextVictory
  <1>3. VictoryInv => VictoryIsReal
    BY DEF VictoryInv
  <1>4. QED
    BY <1>1, <1>2, <1>3, PTL DEF Spec

-----------------------------------------------------------------------------
(* The scoreboard that the counts of all processes implement.              *)

\* What the scoreboard shows of the kills.
SeenKills(p) == UNION {{ScoreboardKill(k, e) : e \in Range(kills[p][k])} : k \in Ids}

HappenedKills == UNION {{ScoreboardKill(k, e) : e \in RealKills(k)} : k \in Ids}

SeenBoard == [p \in Procs |-> SeenKills(p)]

ScoreOf(p) == [k \in Ids |-> Len(kills[p][k])]

ScoreBoard == [p \in Procs |-> ScoreOf(p)]

LEMMA BoardMembers ==
  /\ \A p, s : s \in SeenKills(p) <=> \E k \in Ids : \E e \in Range(kills[p][k]) : s = ScoreboardKill(k, e)
  /\ \A s : s \in HappenedKills <=>
        \E k \in Ids, p \in Procs : \E e \in Range(kills[p][k]) :
            Owner(e.victim) = p /\ s = ScoreboardKill(k, e)
  <1>1. ASSUME NEW p, NEW s
        PROVE  s \in SeenKills(p) <=> \E k \in Ids : \E e \in Range(kills[p][k]) : s = ScoreboardKill(k, e)
    BY DEF SeenKills
  <1>2. ASSUME NEW k, NEW e
        PROVE  e \in RealKills(k) <=> \E p \in Procs : e \in Range(kills[p][k]) /\ Owner(e.victim) = p
    BY DEF RealKills
  <1>3. ASSUME NEW s
        PROVE  s \in HappenedKills <=> \E k \in Ids : \E e \in RealKills(k) : s = ScoreboardKill(k, e)
    BY DEF HappenedKills
  <1>4. QED
    BY <1>1, <1>2, <1>3

\* The scoreboard gets the kill s of k at p, which happens at o.
BoardAdds(p, k, s, o) ==
  /\ SeenBoard' = [SeenBoard EXCEPT ![p] = @ \union {s}]
  /\ ScoreBoard' = [ScoreBoard EXCEPT ![p][k] = @ + 1]
  /\ HappenedKills' = IF p = o THEN HappenedKills \union {s} ELSE HappenedKills

\* The tables after one more kill, v's death d by k at p.
LEMMA BoardCounts ==
  ASSUME TypeOK, NEW p \in Procs, NEW k \in Ids, NEW v \in Players, NEW d \in Nat,
         kills' = [kills EXCEPT ![p][k] = Append(kills[p][k], [victim |-> v, death |-> d])],
         NEW s, s = [killer |-> k, victim |-> v, death |-> d]
  PROVE  BoardAdds(p, k, s, Owner(v))
  <1> DEFINE e == [victim |-> v, death |-> d]
  <1>1. e \in PlayerKill /\ e.victim = v /\ ScoreboardKill(k, e) = s
    BY IdFacts DEF PlayerKill, ScoreboardKill
  <1>2. kills \in [Procs -> [Ids -> Seq(PlayerKill)]] /\ kills[p][k] \in Seq(PlayerKill)
    BY DEF TypeOK
  <1>3. kills' = [kills EXCEPT ![p][k] = Append(kills[p][k], e)]
    OBVIOUS
  <1> HIDE DEF e
  <1>4. \A q \in Procs, l \in Ids :
          kills'[q][l] = IF q = p /\ l = k THEN Append(kills[p][k], e) ELSE kills[q][l]
    BY <1>2, <1>3
  <1>5. Range(Append(kills[p][k], e)) = Range(kills[p][k]) \union {e}
    BY <1>1, <1>2, AppendRange
  <1>6. Len(Append(kills[p][k], e)) = Len(kills[p][k]) + 1
    BY <1>2
  <1>7. \A q \in Procs, l \in Ids : \A f :
          f \in Range(kills'[q][l]) <=> f \in Range(kills[q][l]) \/ (q = p /\ l = k /\ f = e)
    BY <1>4, <1>5
  <1>8. SeenBoard' = [SeenBoard EXCEPT ![p] = @ \union {s}]
    <2>1. ASSUME NEW q \in Procs, NEW x
          PROVE  x \in SeenKills(q)' <=> x \in SeenKills(q) \/ (q = p /\ x = s)
      <3>1. x \in SeenKills(q)' <=> \E l \in Ids : \E f \in Range(kills'[q][l]) : x = ScoreboardKill(l, f)
        BY DEF SeenKills
      <3>2. x \in SeenKills(q) <=> \E l \in Ids : \E f \in Range(kills[q][l]) : x = ScoreboardKill(l, f)
        BY DEF SeenKills
      <3>3. CASE q # p
        BY <1>7, <3>1, <3>2, <3>3
      <3>4. CASE q = p
        <4>1. ASSUME NEW l \in Ids, NEW f, f \in Range(kills'[q][l]), x = ScoreboardKill(l, f)
              PROVE  x \in SeenKills(q) \/ x = s
          <5>1. f \in Range(kills[q][l]) \/ (l = k /\ f = e)
            BY <1>7, <4>1
          <5>2. CASE f \in Range(kills[q][l])
            BY <3>2, <4>1, <5>2
          <5>3. CASE l = k /\ f = e
            BY <1>1, <4>1, <5>3
          <5>4. QED
            BY <5>1, <5>2, <5>3
        <4>2. ASSUME NEW l \in Ids, NEW f, f \in Range(kills[q][l])
              PROVE  f \in Range(kills'[q][l])
          BY <1>7, <4>2
        <4>3. e \in Range(kills'[q][k])
          BY <1>7, <3>4
        <4>4. QED
          BY <1>1, <3>1, <3>2, <3>4, <4>1, <4>2, <4>3
      <3>5. QED
        BY <3>3, <3>4
    <2>2. \A q \in Procs : SeenKills(q)' = IF q = p THEN SeenKills(q) \union {s} ELSE SeenKills(q)
      BY <2>1
    <2>3. QED
      BY <2>2 DEF SeenBoard
  <1>9. ScoreBoard' = [ScoreBoard EXCEPT ![p][k] = @ + 1]
    <2>1. ASSUME NEW q \in Procs
          PROVE  ScoreOf(q)' = IF q = p THEN [ScoreOf(q) EXCEPT ![k] = @ + 1] ELSE ScoreOf(q)
      <3>1. ASSUME NEW l \in Ids
            PROVE  Len(kills'[q][l]) =
                     IF q = p /\ l = k THEN Len(kills[p][k]) + 1 ELSE Len(kills[q][l])
        <4>1. CASE q = p /\ l = k
          <5>1. kills'[q][l] = Append(kills[p][k], e)
            BY <1>4, <4>1
          <5>2. QED
            BY <1>6, <4>1, <5>1, Zenon
        <4>2. CASE ~(q = p /\ l = k)
          BY <1>4, <4>2
        <4>3. QED
          BY <4>1, <4>2
      <3>2. ScoreOf(q)' = [l \in Ids |-> IF q = p /\ l = k THEN ScoreOf(q)[k] + 1 ELSE ScoreOf(q)[l]]
        BY <3>1 DEF ScoreOf
      <3>3. ScoreOf(q) = [l \in Ids |-> ScoreOf(q)[l]]
        BY DEF ScoreOf
      <3> HIDE DEF ScoreOf
      <3>4. QED
        BY <3>2, <3>3
    <2>2. QED
      BY <2>1, Zenon DEF ScoreBoard
  <1>10. ASSUME NEW x
         PROVE  x \in HappenedKills' <=> x \in HappenedKills \/ (p = Owner(v) /\ x = s)
    <2>1. x \in HappenedKills' <=>
            \E l \in Ids, q \in Procs : \E f \in Range(kills'[q][l]) :
               Owner(f.victim) = q /\ x = ScoreboardKill(l, f)
      BY DEF HappenedKills, RealKills
    <2>2. ASSUME NEW l \in Ids, NEW q \in Procs, NEW f,
                 f \in Range(kills'[q][l]), Owner(f.victim) = q, x = ScoreboardKill(l, f)
          PROVE  x \in HappenedKills \/ (p = Owner(v) /\ x = s)
      BY <1>1, <1>7, <2>2, BoardMembers
    <2>3. ASSUME x \in HappenedKills
          PROVE  x \in HappenedKills'
      BY <1>7, <2>1, <2>3, BoardMembers
    <2>4. p = Owner(v) => s \in HappenedKills'
      <3>1. e \in Range(kills'[p][k])
        BY <1>7
      <3>2. s \in HappenedKills' <=>
              \E l \in Ids, q \in Procs : \E f \in Range(kills'[q][l]) :
                 Owner(f.victim) = q /\ s = ScoreboardKill(l, f)
        BY DEF HappenedKills, RealKills
      <3>3. QED
        BY <1>1, <3>1, <3>2
    <2>5. QED
      BY <2>1, <2>2, <2>3, <2>4
  <1>11. p = Owner(v) => HappenedKills' = HappenedKills \union {s}
    BY <1>10
  <1>12. p # Owner(v) => HappenedKills' = HappenedKills
    BY <1>10
  <1>13. QED
    BY <1>8, <1>9, <1>11, <1>12 DEF BoardAdds

\* A death that p counts is later than any it shows; it is new at the owner of
\* the victim, and known there elsewhere.
LEMMA CountedDeath ==
  ASSUME CountInv, NEW p \in Procs, NEW k \in Ids, NEW v \in Players, NEW d \in Nat,
         Counts(p, k, v, d)
  PROVE  /\ deaths[p][v] < d
         /\ \/ p = Owner(v) /\ d \in 1 .. MaxDeaths
            \/ p # Owner(v) /\ [victim |-> v, death |-> d] \in Range(kills[Owner(v)][k])
  <1>1. TypeOK /\ OrderParts /\ InboxesCredited /\ KillsAged
    BY CreditParts DEF CountInv, KillInv
  <1>2. deaths[p][v] \in Nat /\ health[p][v] \in Nat
    BY <1>1, AgesType
  <1>3. k # v /\ kills' # kills
    <2> DEFINE e == [victim |-> v, death |-> d]
    <2>1. kills \in [Procs -> [Ids -> Seq(PlayerKill)]] /\ kills[p][k] \in Seq(PlayerKill)
      BY <1>1 DEF TypeOK
    <2>2. e \in PlayerKill
      BY IdFacts DEF PlayerKill
    <2>3. kills' = [kills EXCEPT ![p][k] = Append(kills[p][k], e)] /\ k # v
      BY DEF Counts
    <2> HIDE DEF e
    <2>4. kills'[p][k] = Append(kills[p][k], e)
      BY <2>1, <2>3
    <2>5. Len(kills'[p][k]) = Len(kills[p][k]) + 1 /\ Len(kills[p][k]) \in Nat
      BY <2>1, <2>2, <2>4
    <2>6. QED
      BY <2>3, <2>5
  <1>4. ASSUME NEW damage \in 1 .. MaxHealth, DamagePlayer(p, v, k, damage), d = deaths[p][v] + 1
        PROVE  p = Owner(v) /\ d \in 1 .. MaxDeaths
    <2> DEFINE died == (IF damage >= health[p][v] THEN 0 ELSE health[p][v] - damage) = 0
    <2>1. /\ v \in Owned(p)
          /\ died => DeathsSoFar < MaxDeaths
          /\ kills' = IF died THEN KillsAfter(p, v, k, deaths[p][v] + 1) ELSE kills
      BY <1>4 DEF DamagePlayer
    <2>2. died
      BY <1>3, <2>1
    <2>3. p = Owner(v)
      BY <2>1 DEF Owned
    <2>4. deaths[p][v] <= DeathsSoFar /\ DeathsSoFar \in Nat
      BY <1>1, <2>3, DeathsCounted
    <2>5. QED
      BY <1>2, <1>4, <2>1, <2>2, <2>3, <2>4, BoundsAssumption
  <1>5. ASSUME ProcessCopy(p), v = Record(p).id, d = Record(p).deaths
        PROVE  p # Owner(v) /\ deaths[p][v] < d
    <2> DEFINE r == Record(p)
    <2>1. /\ pc[p] = "apply" /\ r.id # p /\ Advance(p)
          /\ kills' = IF SeenDying(p, r) THEN KillsAfter(p, r.id, r.lastHurt, r.deaths) ELSE kills
      BY <1>5 DEF ProcessCopy, KillerId
    <2>2. r.id \notin Owned(p)
      BY <1>1, <2>1, CopyIsOther DEF OrderParts
    <2>3. v \in Others(p)
      BY <1>5, <2>2 DEF Others
    <2>4. Between(Ages, p, r)
      <3>1. next[p] \in Pending(p)
        BY <1>1, <2>1, AdvancePending
      <3>2. QED
        BY <1>1, <3>1 DEF OrderParts, BufferInOrder, Record
    <2>5. Age(deaths[p][v], health[p][v]) <= Age(d, r.health)
      <3>1. Ages[p][v] = Age(deaths[p][v], health[p][v])
        BY <1>1, AgesType
      <3>2. QED
        BY <1>5, <2>3, <2>4, <3>1 DEF Between, RecordAge
    <2>6. r.health = 0 /\ health[p][v] > 0
      BY <1>3, <1>5, <2>1 DEF SeenDying
    <2>7. deaths[p][v] < d
      BY <1>2, <2>5, <2>6 DEF Age
    <2>8. QED
      BY <2>3, <2>7 DEF Others, Owned
  <1>6. QED
    BY <1>2, <1>4, <1>5 DEF Counts

\* What p has counted is no later than what it shows.
LEMMA CountedBefore ==
  ASSUME TypeOK, KillsAged, NEW p \in Procs, NEW v \in Players, NEW d \in Nat, deaths[p][v] < d
  PROVE  /\ \A s \in SeenKills(p) : s.victim = v => s.death < d
         /\ p = Owner(v) => \A s \in HappenedKills : s.victim = v => s.death < d
  <1>1. ASSUME NEW k \in Ids, NEW e \in Range(kills[p][k]), e.victim = v
        PROVE  e.death < d
    <2>1. e.death <= deaths[p][v]
      BY <1>1 DEF KillsAged
    <2>2. e \in PlayerKill
      <3>1. kills[p][k] \in Seq(PlayerKill)
        BY DEF TypeOK
      <3>2. QED
        BY <3>1 DEF Range
    <2>3. e.death \in Nat /\ deaths[p][v] \in Nat
      BY <2>2, AgesType DEF PlayerKill
    <2>4. QED
      BY <2>1, <2>3
  <1>2. ASSUME NEW s \in SeenKills(p), s.victim = v PROVE s.death < d
    <2>1. PICK k \in Ids : \E e \in Range(kills[p][k]) : s = ScoreboardKill(k, e)
      BY BoardMembers
    <2>2. PICK e \in Range(kills[p][k]) : s = ScoreboardKill(k, e)
      BY <2>1
    <2>3. s.victim = e.victim /\ s.death = e.death
      BY <2>2 DEF ScoreboardKill
    <2>4. QED
      BY <1>1, <1>2, <2>3
  <1>3. ASSUME p = Owner(v), NEW s \in HappenedKills, s.victim = v PROVE s.death < d
    <2>1. PICK k \in Ids, q \in Procs : \E e \in Range(kills[q][k]) :
                 Owner(e.victim) = q /\ s = ScoreboardKill(k, e)
      BY BoardMembers
    <2>2. PICK e \in Range(kills[q][k]) : Owner(e.victim) = q /\ s = ScoreboardKill(k, e)
      BY <2>1
    <2>3. s.victim = e.victim /\ s.death = e.death
      BY <2>2 DEF ScoreboardKill
    <2>4. q = p
      BY <1>3, <2>2, <2>3
    <2>5. QED
      BY <1>1, <1>3, <2>2, <2>3, <2>4
  <1>4. QED
    BY <1>2, <1>3

LEMMA InitBoard == Init => Board!Init
  <1> SUFFICES ASSUME Init PROVE Board!Init
    OBVIOUS
  <1>1. \A p \in Procs, k \in Ids : kills[p][k] = <<>>
    BY DEF Init
  <1>2. \A p \in Procs, k \in Ids : Range(kills[p][k]) = {} /\ Len(kills[p][k]) = 0
    BY <1>1 DEF Range
  <1>3. HappenedKills = {} /\ \A p \in Procs : SeenKills(p) = {}
    BY <1>2, BoardMembers
  <1>4. QED
    BY <1>2, <1>3 DEF Board!Init, HappenedKills, SeenKills

LEMMA BoardStep ==
  ASSUME CountInv, [Next]_vars
  PROVE  [Board!Next]_Board!vars
  <1>1. KillInv /\ TypeOK /\ KillsAged
    BY DEF CountInv, KillInv
  <1>2. CASE kills' = kills
    BY <1>2 DEF Board!vars, RealKills
  <1>3. ASSUME NEW p \in Procs, NEW k \in Ids, NEW v \in Players, NEW d \in Nat,
               Counts(p, k, v, d)
        PROVE  Board!Next
    <2> DEFINE s == [killer |-> k, victim |-> v, death |-> d]
    <2>1. /\ deaths[p][v] < d
          /\ \/ p = Owner(v) /\ d \in 1 .. MaxDeaths
             \/ p # Owner(v) /\ [victim |-> v, death |-> d] \in Range(kills[Owner(v)][k])
      BY <1>3, CountedDeath
    <2>2. k # v /\ kills' = [kills EXCEPT ![p][k] = Append(kills[p][k], [victim |-> v, death |-> d])]
      BY <1>3 DEF Counts
    <2> HIDE DEF s
    <2>0. s = [killer |-> k, victim |-> v, death |-> d]
      BY DEF s
    <2>3. BoardAdds(p, k, s, Owner(v))
      BY <1>1, <2>0, <2>2, BoardCounts
    <2>4. /\ \A f \in SeenKills(p) : f.victim = v => f.death < d
          /\ p = Owner(v) => \A f \in HappenedKills : f.victim = v => f.death < d
      BY <1>1, <2>1, CountedBefore
    <2>5. Board!Count(p, s)
      BY <2>0, <2>3 DEF BoardAdds, Board!Count, SeenBoard, ScoreBoard, SeenKills, ScoreOf
    <2>6. v \in Ids /\ k \in Ids /\ Owner(v) \in Procs
      BY IdFacts
    <2>7. CASE p = Owner(v)
      <3>1. Board!Die(v, k, d)
        BY <2>0, <2>2, <2>3, <2>4, <2>5, <2>7 DEF BoardAdds, Board!Die, HappenedKills
      <3>2. QED
        BY <2>1, <2>6, <2>7, <3>1 DEF Board!Next
    <2>8. CASE p # Owner(v)
      <3>1. s \in HappenedKills
        <4>1. ScoreboardKill(k, [victim |-> v, death |-> d]) = s
          BY <2>0 DEF ScoreboardKill
        <4>2. QED
          BY <2>1, <2>6, <2>8, <4>1, BoardMembers
      <3>2. s \notin SeenKills(p)
        BY <2>0, <2>1, <2>4
      <3>3. Board!Learn(p, s)
        BY <2>3, <2>5, <2>8, <3>1, <3>2 DEF BoardAdds, Board!Learn, HappenedKills, SeenKills
      <3>4. QED
        BY <3>1, <3>3 DEF Board!Next, HappenedKills
    <2>9. QED
      BY <2>7, <2>8
  <1>4. QED
    BY <1>1, <1>2, <1>3, KillStep

\* The kill counts of all processes implement the abstract scoreboard: a step
\* that counts is a death at the owner of the victim or the news of one that
\* happened and was not counted there, every other step changes no count
\* (add_kill, as damage_player and process_net_packets call it).
THEOREM CountsImplementScoreboard == Spec => ImplementsScoreboard
  <1>1. QED
    BY InitCount, NextCount, InitBoard, BoardStep, PTL DEF Spec, ImplementsScoreboard, Board!Spec

\* What is proved of the abstract scoreboard, for the board of the match.
Theory == INSTANCE ScoreboardProofs WITH
  Deaths <- 1 .. MaxDeaths,
  happened <- HappenedKills,
  seen <- SeenBoard,
  score <- ScoreBoard

LEMMA TheoryIsOfBoard ==
  /\ Board!Init => Theory!Init
  /\ [Board!Next]_Board!vars => [Theory!Next]_Theory!vars
  /\ Theory!ScoresAreReal => Board!ScoresAreReal
  /\ Theory!OneKillerPerDeath => Board!OneKillerPerDeath
  <1> USE DEF HappenedKills, SeenBoard, SeenKills, ScoreBoard, ScoreOf
  <1>1. Board!Init => Theory!Init
    BY DEF Board!Init, Theory!Init
  <1>2. [Board!Next]_Board!vars => [Theory!Next]_Theory!vars
    BY DEF Board!Next, Board!vars, Board!Die, Board!Learn, Board!Count,
           Theory!Next, Theory!vars, Theory!Die, Theory!Learn, Theory!Count
  <1>3. Theory!ScoresAreReal => Board!ScoresAreReal
    BY DEF Board!ScoresAreReal, Theory!ScoresAreReal, Board!Cardinality, Theory!Cardinality
  <1>4. Theory!OneKillerPerDeath => Board!OneKillerPerDeath
    BY DEF Board!OneKillerPerDeath, Theory!OneKillerPerDeath
  <1>5. QED
    BY <1>1, <1>2, <1>3, <1>4

\* So num_kills of every player at every process is the number of different
\* kills of his that it has counted, all of them happened at the owners of their
\* victims, and nobody dies one death by two killers: the theorems about the
\* abstract scoreboard carry over to the match (add_kill).
THEOREM CountsAreScores == Spec => [](Board!ScoresAreReal /\ Board!OneKillerPerDeath)
  <1>1. Theory!Ownership
    BY IdFacts DEF Theory!Ownership
  <1>2. Theory!Spec => []Theory!ScoresAreReal
    BY <1>1, Theory!ScoresReal
  <1>3. Theory!Spec => []Theory!OneKillerPerDeath
    BY <1>1, Theory!OneKiller
  <1>4. Board!Spec => Theory!Spec
    BY TheoryIsOfBoard, PTL DEF Board!Spec, Theory!Spec
  <1>5. QED
    BY CountsImplementScoreboard, TheoryIsOfBoard, <1>2, <1>3, <1>4, PTL DEF ImplementsScoreboard
=============================================================================
