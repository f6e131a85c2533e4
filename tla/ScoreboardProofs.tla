-------------------------- MODULE ScoreboardProofs --------------------------
(***************************************************************************)
(* The abstract scoreboard counts kills that happened, each once, whatever *)
(* the processes, the ids and the owners are. A score is the cardinality   *)
(* of a set of kills, so the invariant also says that these sets are       *)
(* finite.                                                                 *)
(***************************************************************************)
EXTENDS Scoreboard, FiniteSetTheorems, TLAPS

\* The owner of a player is a process, and deaths are numbered by integers.
Ownership == (\A i \in Ids : Owner(i) \in Procs) /\ Deaths \subseteq Int

SeenFinite == \A p \in Procs : IsFiniteSet(seen[p])

Inv == TypeOK /\ SeenFinite /\ ScoresAreReal /\ OneKillerPerDeath

\* The kills of k among those of S.
KillsOf(S, k) == {e \in S : e.killer = k}

LEMMA InitInv == Init => Inv
<1> SUFFICES ASSUME Init PROVE Inv
    OBVIOUS
<1>1. \A k : KillsOf({}, k) = {}
    BY DEF KillsOf
<1>2. TypeOK /\ SeenFinite /\ OneKillerPerDeath
    BY FS_EmptySet DEF Init, TypeOK, SeenFinite, OneKillerPerDeath
<1>3. ScoresAreReal
    BY <1>1, FS_EmptySet DEF Init, ScoresAreReal, KillsOf
<1> QED BY <1>2, <1>3 DEF Inv

\* A kill not seen before adds one to the score of its killer and to no other.
LEMMA CountInv ==
    ASSUME TypeOK, SeenFinite, ScoresAreReal,
           NEW q \in Procs, NEW e \in Kill, e \notin seen[q],
           e \in happened', happened \subseteq happened', happened' \subseteq Kill,
           Count(q, e)
    PROVE  TypeOK' /\ SeenFinite' /\ ScoresAreReal'
<1>1. seen' = [seen EXCEPT ![q] = seen[q] \union {e}]
    BY DEF Count, TypeOK
<1>2. score' = [score EXCEPT ![q][e.killer] = score[q][e.killer] + 1]
    BY DEF Count, TypeOK
<1>3. \A p \in Procs : seen'[p] = IF p = q THEN seen[q] \union {e} ELSE seen[p]
    BY <1>1 DEF TypeOK
<1>4. \A p \in Procs, k \in Ids :
         score'[p][k] = IF p = q /\ k = e.killer THEN score[q][k] + 1 ELSE score[p][k]
    BY <1>2 DEF TypeOK
<1>5. TypeOK'
    BY <1>1, <1>2 DEF TypeOK, Kill
<1>6. SeenFinite'
    BY <1>3, FS_AddElement DEF SeenFinite
<1>7. ASSUME NEW k \in Ids PROVE
         Cardinality(KillsOf(seen[q] \union {e}, k)) =
            Cardinality(KillsOf(seen[q], k)) + (IF k = e.killer THEN 1 ELSE 0)
  <2>1. IsFiniteSet(KillsOf(seen[q], k))
      <3>1. KillsOf(seen[q], k) \subseteq seen[q]
          BY DEF KillsOf
      <3> QED BY <3>1, FS_Subset DEF SeenFinite
  <2>2. e \notin KillsOf(seen[q], k)
      BY DEF KillsOf
  <2>3. Cardinality(KillsOf(seen[q], k)) \in Nat
      BY <2>1, FS_CardinalityType
  <2>4. CASE k = e.killer
    <3>1. KillsOf(seen[q] \union {e}, k) = KillsOf(seen[q], k) \union {e}
        BY <2>4 DEF KillsOf
    <3> QED BY <3>1, <2>1, <2>2, <2>4, FS_AddElement
  <2>5. CASE k # e.killer
    <3>1. KillsOf(seen[q] \union {e}, k) = KillsOf(seen[q], k)
        BY <2>5 DEF KillsOf
    <3> QED BY <3>1, <2>3, <2>5
  <2> QED BY <2>4, <2>5
<1>8. \A p \in Procs : seen'[p] \subseteq happened'
    BY <1>3 DEF ScoresAreReal
<1>9. ASSUME NEW p \in Procs, NEW k \in Ids
      PROVE  score'[p][k] = Cardinality(KillsOf(seen'[p], k))
  <2>1. score[p][k] = Cardinality(KillsOf(seen[p], k)) /\ score[p][k] \in Nat
      BY DEF TypeOK, ScoresAreReal, KillsOf
  <2>2. CASE p = q
    <3>1. seen'[p] = seen[q] \union {e}
        BY <1>3, <2>2
    <3>2. score'[p][k] = score[q][k] + (IF k = e.killer THEN 1 ELSE 0)
        BY <1>4, <2>1, <2>2
    <3> QED BY <3>1, <3>2, <1>7, <2>1, <2>2
  <2>3. CASE p # q
      BY <1>3, <1>4, <2>1, <2>3
  <2> QED BY <2>2, <2>3
<1>10. ScoresAreReal'
    BY <1>8, <1>9 DEF ScoresAreReal, KillsOf
<1> QED BY <1>5, <1>6, <1>10

LEMMA NextInv == ASSUME Ownership PROVE Inv /\ [Next]_vars => Inv'
<1> SUFFICES ASSUME Inv, [Next]_vars PROVE Inv'
    OBVIOUS
<1> USE DEF Inv
<1>1. ASSUME NEW e \in happened, NEW p \in Procs, Learn(p, e) PROVE Inv'
  <2>1. happened' = happened /\ e \in Kill /\ e \notin seen[p] /\ Count(p, e)
      BY <1>1 DEF Learn, TypeOK
  <2>2. TypeOK' /\ SeenFinite' /\ ScoresAreReal'
      BY <2>1, CountInv DEF TypeOK
  <2>3. OneKillerPerDeath'
      BY <2>1 DEF OneKillerPerDeath
  <2> QED BY <2>2, <2>3
<1>2. ASSUME NEW v \in Ids, NEW k \in Ids, NEW n \in Deaths, Die(v, k, n) PROVE Inv'
  <2> DEFINE e == [killer |-> k, victim |-> v, death |-> n]
  <2>1. e \in Kill /\ e.victim = v /\ e.death = n
      BY DEF Kill
  <2>2. /\ \A f \in happened : f.victim = v => f.death < n
        /\ happened' = happened \union {e}
        /\ Count(Owner(v), e)
      BY <1>2 DEF Die
  <2> HIDE DEF e
  <2>3. \A f \in happened : f.victim = v => f.death # n
      <3>1. n \in Int /\ ~(n < n)
          BY DEF Ownership
      <3> QED BY <2>2, <3>1
  <2>4. e \notin happened
      BY <2>1, <2>3
  <2>5. Owner(v) \in Procs /\ e \notin seen[Owner(v)]
      BY <2>4 DEF Ownership, ScoresAreReal
  <2>6. TypeOK' /\ SeenFinite' /\ ScoresAreReal'
      BY <2>1, <2>2, <2>5, CountInv DEF TypeOK
  <2>7. OneKillerPerDeath'
      BY <2>1, <2>2, <2>3 DEF OneKillerPerDeath
  <2> QED BY <2>6, <2>7
<1>3. ASSUME UNCHANGED vars PROVE Inv'
    BY <1>3 DEF vars, TypeOK, SeenFinite, ScoresAreReal, OneKillerPerDeath
<1> QED BY <1>1, <1>2, <1>3 DEF Next

\* Every score of every process is the number of different kills it has counted,
\* and all of these happened at the owner of the victim (add_kill). Replication
\* implements Scoreboard, so that this is also true of num_kills.
THEOREM ScoresReal == ASSUME Ownership PROVE Spec => []ScoresAreReal
<1>1. Inv => ScoresAreReal
    BY DEF Inv
<1> QED BY <1>1, InitInv, NextInv, PTL DEF Spec

\* A death is credited to one killer only, at whatever process (add_kill).
THEOREM OneKiller == ASSUME Ownership PROVE Spec => []OneKillerPerDeath
<1>1. Inv => OneKillerPerDeath
    BY DEF Inv
<1> QED BY <1>1, InitInv, NextInv, PTL DEF Spec
=============================================================================
