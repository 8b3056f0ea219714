--------------------------- MODULE Mixture_proofs ---------------------------
(***************************************************************************)
(* Theorems about build_mixture for any number of shards, any counts, any  *)
(* budget and any knobs.                                                   *)
(***************************************************************************)
EXTENDS Mixture, TLAPS

\* Within a pass: the pass began below the target, the selection never shrinks, and as long as
\* nothing was added every shard passed over counts zero or would breach the ceiling.
PassInv ==
    pc = "pass" => /\ before < target
                   /\ before <= got
                   /\ got = before /\ capped =>
                        \A s \in Shards : s < next /\ count[s] > 0 => got + count[s] > cap

IInv == TypeOK /\ CeilingBinds /\ WithinOneShard /\ PassInv /\ NothingMoreFits

\* A call's counts, budget and ceiling are natural numbers.
LEMMA CallFacts ==
    ASSUME TypeOK
    PROVE  /\ count \in [Shards -> Nat]
           /\ call.want \in Nat
           /\ cap \in Nat
           /\ target \in Nat
           /\ capped \in BOOLEAN
  BY MixtureAssumption DEF TypeOK, cap, count, target, capped

\* The loop begins with nothing selected.
LEMMA InitIInv == Init => IInv
<1> SUFFICES ASSUME Init PROVE IInv
  OBVIOUS
<1>1. TypeOK
  BY MixtureAssumption DEF Init, TypeOK, Shards
<1>2. CeilingBinds
  BY <1>1, CallFacts DEF Init, CeilingBinds
<1> QED
  BY <1>1, <1>2 DEF Init, IInv, WithinOneShard, PassInv, NothingMoreFits

\* Every step of the loop keeps the invariant.
LEMMA NextIInv == IInv /\ [Next]_vars => IInv'
<1> SUFFICES ASSUME IInv, [Next]_vars PROVE IInv'
  OBVIOUS
<1> USE DEF IInv
<1>0. /\ count \in [Shards -> Nat] /\ call.want \in Nat /\ cap \in Nat /\ target \in Nat
      /\ NShards \in Nat
  BY CallFacts, MixtureAssumption
<1>1. call' = call /\ cap' = cap /\ count' = count /\ target' = target /\ (capped' <=> capped)
  <2>1. call' = call
    BY DEF Next, vars, BeginPass, Finish, Skip, Pick, EndPass
  <2> QED
    BY <2>1 DEF cap, count, target, capped
<1>2. CASE BeginPass
  BY <1>0, <1>1, <1>2 DEF BeginPass, TypeOK, CeilingBinds, WithinOneShard, PassInv,
     NothingMoreFits, Shards
<1>3. CASE Finish
  <2>1. TypeOK' /\ CeilingBinds' /\ WithinOneShard' /\ PassInv'
    BY <1>0, <1>1, <1>3 DEF Finish, TypeOK, CeilingBinds, WithinOneShard, PassInv
  <2>2. NothingMoreFits'
    BY <1>0, <1>1, <1>3 DEF Finish, TypeOK, NothingMoreFits, target
  <2> QED
    BY <2>1, <2>2
<1>4. CASE Skip
  <2>1. TypeOK' /\ CeilingBinds' /\ WithinOneShard' /\ NothingMoreFits'
    BY <1>0, <1>1, <1>4 DEF Skip, Looking, TypeOK, CeilingBinds, WithinOneShard, NothingMoreFits
  <2>2. PassInv'
    BY <1>0, <1>1, <1>4 DEF Skip, Looking, Breaches, TypeOK, PassInv, Shards
  <2> QED
    BY <2>1, <2>2
<1>5. CASE Pick
  <2> USE <1>0, <1>1, <1>5 DEF Pick, Looking, TypeOK
  <2>1. next \in Shards /\ count[next] \in Nat /\ got < target /\ pc' = "pass"
    BY DEF Shards
  <2>2. TypeOK'
    BY <2>1
  <2>3. CeilingBinds'
    BY <2>1 DEF Breaches, CeilingBinds
  <2>4. WithinOneShard'
    <3>1. times'[next] > 0 /\ got' < target' + count'[next]
      BY <2>1
    <3> QED
      BY <2>1, <3>1 DEF WithinOneShard
  <2>5. PassInv'
    <3>1. before' = before /\ before < target /\ before <= got
      BY DEF PassInv
    <3>2. ASSUME got' = before', capped
          PROVE  \A s \in Shards : s < next' /\ count[s] > 0 => got' + count[s] > cap
      <4>1. got' = got /\ count[next] = 0 /\ got = before
        BY <2>1, <3>1, <3>2
      <4> QED
        BY <2>1, <3>2, <4>1 DEF PassInv, Shards
    <3> QED
      BY <2>1, <3>1, <3>2 DEF PassInv
  <2>6. NothingMoreFits'
    BY <2>1 DEF NothingMoreFits
  <2> QED
    BY <2>2, <2>3, <2>4, <2>5, <2>6
<1>6. CASE EndPass
  <2>1. TypeOK' /\ CeilingBinds' /\ WithinOneShard' /\ PassInv'
    BY <1>0, <1>1, <1>6 DEF EndPass, TypeOK, CeilingBinds, WithinOneShard, PassInv
  <2>2. NothingMoreFits'
    BY <1>0, <1>1, <1>6 DEF EndPass, TypeOK, NothingMoreFits, PassInv, Shards
  <2> QED
    BY <2>1, <2>2
<1>7. CASE UNCHANGED vars
  BY <1>1, <1>7 DEF vars, TypeOK, CeilingBinds, WithinOneShard, PassInv, NothingMoreFits
<1> QED
  BY <1>2, <1>3, <1>4, <1>5, <1>6, <1>7 DEF Next

\* So the invariant holds for every call.
THEOREM Invariance == Spec => []IInv
<1> QED
  BY InitIInv, NextIInv, PTL DEF Spec

\* Whenever max_source_fraction (times the repetition ratio) is below the budget, the
\* selection stays within it.
THEOREM CeilingHolds == Spec => []CeilingBinds
<1>1. IInv => CeilingBinds
  BY DEF IInv
<1> QED
  BY <1>1, Invariance, PTL

\* The selection overshoots its target by less than one of the shards it picked.
THEOREM OvershootsByLessThanOneShard == Spec => []WithinOneShard
<1>1. IInv => WithinOneShard
  BY DEF IInv
<1> QED
  BY <1>1, Invariance, PTL

\* Under a binding ceiling the loop returns only when no shard that counts anything still fits.
THEOREM StopsOnlyWhenFull == Spec => []NothingMoreFits
<1>1. IInv => NothingMoreFits
  BY DEF IInv
<1> QED
  BY <1>1, Invariance, PTL

-----------------------------------------------------------------------------
\* Without a binding ceiling no shard is skipped: a pass has taken every shard before `next` once
\* more than the others, and begins when all were taken equally often.
Rounds ==
    ~capped =>
        /\ \A s, t \in Shards : s < t => times[s] \in {times[t], times[t] + 1}
        /\ pc = "pass" => \A s, t \in Shards :
              /\ (s < next <=> t < next) => times[s] = times[t]
              /\ s < next /\ next <= t   => times[s] = times[t] + 1
        /\ pc = "while" /\ got < target => \A s, t \in Shards : times[s] = times[t]

\* Every step of the loop keeps it: a pass takes the shards in order, one after another.
LEMMA NextRounds == TypeOK /\ Rounds /\ [Next]_vars => Rounds'
<1> SUFFICES ASSUME TypeOK, Rounds, [Next]_vars PROVE Rounds'
  OBVIOUS
<1>0. /\ NShards \in Nat /\ next \in 1 .. NShards + 1 /\ times \in [Shards -> Nat]
      /\ got \in Nat /\ target \in Nat /\ count \in [Shards -> Nat]
  BY CallFacts, MixtureAssumption DEF TypeOK
<1>1. target' = target /\ (capped' <=> capped)
  <2>1. call' = call
    BY DEF Next, vars, BeginPass, Finish, Skip, Pick, EndPass
  <2> QED
    BY <2>1 DEF cap, target, capped
<1>2. CASE capped
  BY <1>1, <1>2 DEF Rounds
<1>3. CASE ~capped
  <2>1. CASE BeginPass
    <3>1. /\ pc' = "pass" /\ next' = 1 /\ times' = times
          /\ \A s, t \in Shards : times[s] = times[t]
      BY <1>3, <2>1 DEF BeginPass, Rounds
    <3> QED
      BY <1>0, <3>1 DEF Rounds, Shards
  <2>2. CASE Finish
    <3>1. /\ pc' = "done" /\ times' = times
          /\ \A s, t \in Shards : s < t => times[s] \in {times[t], times[t] + 1}
      BY <1>3, <2>2 DEF Finish, Rounds
    <3> QED
      BY <3>1 DEF Rounds
  <2>3. CASE Skip
    BY <1>3, <2>3 DEF Skip, Breaches
  <2>4. CASE Pick
    <3>1. /\ pc = "pass" /\ next \in Shards /\ next' = next + 1 /\ pc' = "pass"
          /\ times'[next] = times[next] + 1 /\ \A s \in Shards \ {next} : times'[s] = times[s]
      BY <1>0, <2>4 DEF Pick, Looking, Shards
    <3>2. \A s, t \in Shards : /\ (s < next <=> t < next) => times[s] = times[t]
                               /\ s < next /\ next <= t   => times[s] = times[t] + 1
      BY <1>3, <3>1 DEF Rounds
    <3>3. ASSUME NEW s \in Shards, NEW t \in Shards
          PROVE  /\ (s < next' <=> t < next') => times'[s] = times'[t]
                 /\ s < next' /\ next' <= t   => times'[s] = times'[t] + 1
      <4>1. s \in Nat /\ t \in Nat /\ next \in Nat /\ times[s] \in Nat /\ times[t] \in Nat
        BY <1>0 DEF Shards
      <4>2. /\ (s < next <=> t < next) => times[s] = times[t]
            /\ s < next /\ next <= t   => times[s] = times[t] + 1
        BY <3>2
      <4>3. CASE s = next /\ t = next
        BY <3>1, <4>1, <4>3
      <4>4. CASE s = next /\ t # next
        <5>1. times'[s] = times[s] + 1 /\ times'[t] = times[t] /\ s < next' /\ ~(s < next)
          BY <3>1, <4>1, <4>4
        <5>2. CASE t < next
          <6>1. times[t] = times[s] + 1
            BY <3>2, <4>1, <4>4, <5>2
          <6> QED
            BY <3>1, <4>1, <5>1, <5>2, <6>1
        <5>3. CASE next < t
          BY <3>1, <4>1, <4>2, <5>1, <5>3
        <5> QED
          BY <4>1, <4>4, <5>2, <5>3
      <4>5. CASE s # next /\ t = next
        BY <3>1, <4>1, <4>2, <4>5
      <4>6. CASE s # next /\ t # next
        BY <3>1, <4>1, <4>2, <4>6
      <4> QED
        BY <4>3, <4>4, <4>5, <4>6
    <3>4. ASSUME NEW s \in Shards, NEW t \in Shards, s < t
          PROVE  times'[s] \in {times'[t], times'[t] + 1}
      <4>1. s \in Nat /\ t \in Nat /\ next' \in Nat
        BY <1>0, <3>1 DEF Shards
      <4> QED
        BY <3>3, <3>4, <4>1
    <3> QED
      BY <3>1, <3>3, <3>4 DEF Rounds
  <2>5. CASE EndPass
    <3>1. /\ pc = "pass" /\ pc' # "pass" /\ times' = times /\ got' = got
          /\ got < target => next = NShards + 1
      BY <1>0, <2>5 DEF EndPass
    <3>2. got < target => \A s, t \in Shards : times[s] = times[t]
      BY <1>0, <1>3, <3>1 DEF Rounds, Shards
    <3> QED
      BY <1>1, <1>3, <3>1, <3>2 DEF Rounds
  <2>6. CASE UNCHANGED vars
    BY <1>1, <1>3, <2>6 DEF vars, Rounds
  <2> QED
    BY <2>1, <2>2, <2>3, <2>4, <2>5, <2>6 DEF Next
<1> QED
  BY <1>2, <1>3

\* Without a binding ceiling repeats go round: no shard is taken again before every other one was.
THEOREM RepeatsGoRound == Spec => []EvenRepeats
<1>1. Init => Rounds
  <2> SUFFICES ASSUME Init PROVE Rounds
    OBVIOUS
  <2>1. \A s \in Shards : times[s] = 0
    BY DEF Init
  <2> QED
    BY <2>1 DEF Init, Rounds
<1>2. IInv => TypeOK
  BY DEF IInv
<1>3. Rounds => EvenRepeats
  BY DEF Rounds, EvenRepeats
<1> QED
  BY <1>1, <1>2, <1>3, Invariance, NextRounds, PTL DEF Spec
=============================================================================
