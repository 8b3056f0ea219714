------------------------------ MODULE Mixture ------------------------------
(***************************************************************************)
(* build_mixture(): how one weighted component of a mixture is filled with *)
(* whole shards.  The components are filled one after another and share    *)
(* nothing but the result, so one is modelled.  Shards are numbered in the *)
(* order of their shuffle keys.                                            *)
(***************************************************************************)
EXTENDS Naturals, Functions

CONSTANTS
    NShards,  \* shards that match the component's labels
    Inputs    \* calls: the shards' counts, the budget and the two knobs

Shards == 1 .. NShards

\* hard_cap = int(available * max_source_fraction * max_repetition_ratio), the two knobs
\* being rationals given as pairs <<numerator, denominator>>.
Available(r) == FoldFunction(+, 0, r.count)
HardCap(r)   == (Available(r) * r.fraction[1] * r.repetition[1])
                  \div (r.fraction[2] * r.repetition[2])

ASSUME MixtureAssumption ==
    /\ NShards \in Nat
    /\ \A r \in Inputs : /\ r.count \in [Shards -> Nat]
                         /\ r.want \in Nat
                         /\ HardCap(r) \in Nat

VARIABLES
    call,    \* the input
    pc,      \* "while", "pass", "done"
    next,    \* the shard the pass looks at next
    got,     \* count selected so far
    before,  \* got when the pass began
    times    \* how often each shard was picked

vars == <<call, pc, next, got, before, times>>

cap     == HardCap(call)
capped  == cap < call.want
target  == IF capped THEN cap ELSE call.want
count   == call.count

TypeOK ==
    /\ call \in Inputs
    /\ pc \in {"while", "pass", "done"}
    /\ next \in 1 .. NShards + 1
    /\ got \in Nat
    /\ before \in Nat
    /\ times \in [Shards -> Nat]

Init ==
    /\ call \in Inputs
    /\ pc = "while"
    /\ next = 1
    /\ got = 0
    /\ before = 0
    /\ times = [s \in Shards |-> 0]

-----------------------------------------------------------------------------
BeginPass ==
    /\ pc = "while"
    /\ got < target
    /\ before' = got
    /\ next' = 1
    /\ pc' = "pass"
    /\ UNCHANGED <<call, got, times>>

Finish ==
    /\ pc = "while"
    /\ got >= target
    /\ pc' = "done"
    /\ UNCHANGED <<call, next, got, before, times>>

\* Mutants: a pass goes on when the budget is met; the cap is compared with what was selected
\* before.
LookingOn == pc = "pass" /\ next <= NShards
BreachesLate(s)  == capped /\ got > cap

\* Inside a pass: the budget is not met and a shard is left to look at.
Looking  == pc = "pass" /\ next <= NShards /\ got < target
Breaches(s) == capped /\ got + count[s] > cap

\* Mutant: a shard that does not fit ends the pass.
SkipRest ==
    /\ Looking
    /\ Breaches(next)
    /\ next' = NShards + 1
    /\ UNCHANGED <<call, pc, got, before, times>>

Skip ==
    /\ Looking
    /\ Breaches(next)
    /\ next' = next + 1
    /\ UNCHANGED <<call, pc, got, before, times>>

\* Mutant: the pass stays at the shard it picked.
PickAgain ==
    /\ Looking
    /\ ~Breaches(next)
    /\ times' = [times EXCEPT ![next] = @ + 1]
    /\ got' = got + count[next]
    /\ UNCHANGED <<call, pc, next, before>>

Pick ==
    /\ Looking
    /\ ~Breaches(next)
    /\ times' = [times EXCEPT ![next] = @ + 1]
    /\ got' = got + count[next]
    /\ next' = next + 1
    /\ UNCHANGED <<call, pc, before>>

\* Mutant: the loop goes on after a pass that added nothing.
EndPassAnyway ==
    /\ pc = "pass"
    /\ next > NShards \/ got >= target
    /\ pc' = "while"
    /\ UNCHANGED <<call, next, got, before, times>>

\* A pass that added nothing ends the loop.
EndPass ==
    /\ pc = "pass"
    /\ next > NShards \/ got >= target
    /\ pc' = IF got = before THEN "done" ELSE "while"
    /\ UNCHANGED <<call, next, got, before, times>>

Next == BeginPass \/ Finish \/ Skip \/ Pick \/ EndPass

Spec == Init /\ [][Next]_vars

\* One thread runs the function to its end.
FairSpec == Spec /\ WF_vars(Next)

-----------------------------------------------------------------------------
\* When the caller's ceiling is below the budget the ceiling holds, shard by shard.
CeilingBinds == capped => got <= cap

\* The budget is missed upwards by less than one shard: without the shard picked last the
\* selection was short of the target.
WithinOneShard == got > 0 => \E s \in Shards : times[s] > 0 /\ got < target + count[s]

\* With a binding ceiling the loop stops only when no shard that counts anything fits.
NothingMoreFits ==
    pc = "done" /\ capped /\ got < cap =>
        \A s \in Shards : count[s] > 0 => got + count[s] > cap

\* Without a binding ceiling repeats go round the shards in order: no shard is taken again
\* before every other one has been taken as often.
EvenRepeats ==
    ~capped => \A s, t \in Shards : s < t => times[s] \in {times[t], times[t] + 1}

\* The call returns: no pass repeats without adding to the selection.
Terminates == <>(pc = "done")

-----------------------------------------------------------------------------
\* max_repetition_ratio = 1 means never to reuse a shard (that holds anything).
NoReuseAtOne ==
    call.repetition[1] = call.repetition[2] => \A s \in Shards : count[s] > 0 => times[s] <= 1
=============================================================================
