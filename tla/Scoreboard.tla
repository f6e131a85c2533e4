----------------------------- MODULE Scoreboard -----------------------------
(***************************************************************************)
(* What the counting of kills promises, without tables, teams or datagrams.*)
(* Kills happen at the process that owns the victim. Every process keeps a *)
(* score by itself: it may learn of a kill late or never, in any order,    *)
(* but it counts nothing that did not happen and nothing twice.            *)
(*                                                                         *)
(* Replication implements this specification (ImplementsScoreboard).       *)
(***************************************************************************)
EXTENDS Integers, FiniteSets

CONSTANTS
    Procs,      \* the processes of the match
    Ids,        \* the ids a killer or a victim may have
    Deaths,     \* the numbers a player's deaths may have
    Owner(_)    \* the process that decides whether a player dies

VARIABLES
    happened,   \* the kills so far, at the owners of their victims
    seen,       \* seen[p]: those that process p has counted
    score       \* score[p][k]: kills of k in p's count (num_kills)

vars == <<happened, seen, score>>

Kill == [killer : Ids, victim : Ids, death : Deaths]

TypeOK ==
    /\ happened \subseteq Kill
    /\ seen \in [Procs -> SUBSET Kill]
    /\ score \in [Procs -> [Ids -> Nat]]

Init ==
    /\ happened = {}
    /\ seen = [p \in Procs |-> {}]
    /\ score = [p \in Procs |-> [k \in Ids |-> 0]]

Count(p, e) ==
    /\ seen' = [seen EXCEPT ![p] = @ \union {e}]
    /\ score' = [score EXCEPT ![p][e.killer] = @ + 1]

\* The n-th death of v is a kill of k. A death that is nobody's kill leaves a
\* gap in the numbers, so n may skip some.
Die(v, k, n) ==
    LET e == [killer |-> k, victim |-> v, death |-> n] IN
    /\ v # k
    /\ \A f \in happened : f.victim = v => f.death < n
    /\ happened' = happened \union {e}
    /\ Count(Owner(v), e)

\* A process that does not own the victim learns of a kill.
Learn(p, e) ==
    /\ e \in happened \ seen[p]
    /\ Count(p, e)
    /\ UNCHANGED happened

Next ==
    \/ \E e \in happened, p \in Procs : Learn(p, e)
    \/ \E v, k \in Ids, n \in Deaths : Die(v, k, n)

Spec == Init /\ [][Next]_vars

\* Every count is the number of different kills behind it, all of them real.
ScoresAreReal ==
    \A p \in Procs :
        /\ seen[p] \subseteq happened
        /\ \A k \in Ids : score[p][k] = Cardinality({e \in seen[p] : e.killer = k})

\* A death has one killer, whoever counts it.
OneKillerPerDeath ==
    \A e, f \in happened : e.victim = f.victim /\ e.death = f.death => e = f
=============================================================================
