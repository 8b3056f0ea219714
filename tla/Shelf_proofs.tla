--------------------------- MODULE Shelf_proofs ---------------------------
(***************************************************************************)
(* Theorems about what a reader finds when publications do not overlap:    *)
(* sealed versions are complete, pass Gate A and never change, so that the *)
(* airlock implements Shelf.  Any number of jobs may run, die and be       *)
(* restarted by hand, producers may die, and landing may expire.  The last *)
(* sections, which Reader_proofs and Fsck_proofs share, are about versions *)
(* that decay behind the airlock's back: it keeps its order, and what is   *)
(* left of a version is known from what decayed.                           *)
(***************************************************************************)
EXTENDS Decay, Landing_proofs

-----------------------------------------------------------------------------
(* What jobs know and what they have made. *)

\* Gate A has no quarrel with the tree t: every group is fit and has no two files alike.
PassesGroup(t, g) ==
    \A e, f \in NamesIn(t) : GroupOf[e] = g /\ GroupOf[f] = g =>
        t[f] \notin Unfit /\ (t[e] = t[f] => e = f)
Passes(t) == \A g \in Groups : PassesGroup(t, g)

\* The dataset.json under the prefix that a job is processing.
Here(j) == lds[Cur(j)]

\* It has no quarrel with those files of the group that are not left to sample.
Sampled(t, g, left) ==
    \A e, f \in NamesIn(t) : GroupOf[e] = g /\ GroupOf[f] = g =>
        (f \in left \/ t[f] \notin Unfit) /\ (t[e] = t[f] => e = f)

\* What Gate A has established: a group that it is through with had its manifest, unless one was
\* missing, and is fit, unless something was wrong.
Judged(j) ==
    /\ job[j].pc \in {"group", "heads", "profile"} =>
          /\ Here(j) \in Trees /\ job[j].ds = Here(j) /\ job[j].todo \subseteq GroupsIn(Here(j))
          /\ \A g \in GroupsIn(Here(j)) \ job[j].todo :
                \/ job[j].incomplete
                \/ lman[Cur(j)][g] # NoDoc /\ (job[j].bad \/ PassesGroup(Here(j), g))
    /\ job[j].pc \in {"heads", "profile"} =>
          /\ lman[Cur(j)][Min(job[j].todo)] # NoDoc
          /\ job[j].mans[Min(job[j].todo)] = lman[Cur(j)][Min(job[j].todo)]
    /\ job[j].pc = "profile" =>
          job[j].bad \/ Sampled(Here(j), Min(job[j].todo), job[j].left)
    /\ job[j].pc = "verdict" =>
          job[j].bad \/ job[j].incomplete \/ (Whole(Cur(j)) /\ Passes(Here(j)))

\* CRCs of the tree t, where there is one; a seal of t.
CrcsOf(crc, t) == \A f \in Files : crc[f] \in {Absent, t[f]}
Claims(s, t)   == s # NoDoc /\ s.root = t /\ s.pinned = t /\ CrcsOf(s.crc, t)

\* The version v of the data bucket is the tree t, as a whole.
Shelved(v, t) ==
    /\ Claims(seal[v], t)
    /\ catalog[v] = t /\ dds[v] = t
    /\ \A g \in GroupsIn(t) : dman[v][g] = Part(t, g)
    /\ \A f \in NamesIn(t) : dobj[v][f] = t[f]

\* Only what is whole and passes is promoted; if another job has sealed it meanwhile, it sealed
\* the same.
Bound(j) ==
    job[j].pc \in Promoting \cup {"reloadds"} =>
        Whole(Cur(j)) /\ Passes(Here(j)) /\ (Sealed(Cur(j)) => Shelved(Cur(j), Here(j)))

\* What a job in promote() holds and has made is what lies in landing.
Moved(j) ==
    LET t == Here(j)
        v == Cur(j)
    IN  /\ job[j].pc \in Promoting =>
              /\ job[j].ds = t
              /\ job[j].todo \subseteq GroupsIn(t)
              /\ \A g \in Groups : job[j].mans[g] = IF g \in GroupsIn(t) \ job[j].todo
                                                    THEN Part(t, g) ELSE NoDoc
              /\ \A g \in Groups : ManKey(g) \in job[j].keys => g \in GroupsIn(t)
              /\ DsKey \in job[j].keys \/ dds[v] = t
              /\ \A g \in GroupsIn(t) \ job[j].todo :
                    ManKey(g) \in job[j].keys \/ dman[v][g] = Part(t, g)
              /\ \A f \in NamesIn(t) : GroupOf[f] \notin job[j].todo =>
                    ObjKey(f) \in job[j].keys \/ dobj[v][f] = t[f]
        /\ job[j].pc = "crcs" => job[j].left \subseteq NamesIn(t)
        /\ job[j].pc \in {"crcs", "catalog", "seal"} => CrcsOf(job[j].crc, t)
        /\ job[j].pc \in {"catalog", "seal"} => job[j].root = t
        /\ job[j].pc = "seal" => catalog[v] = t

\* A sealed version is a tree that Gate A passed.
Shown(v) == Sealed(v) => Shelved(v, dds[v]) /\ Passes(dds[v]) /\ dds[v] \in Trees

WorkInv  == \A j \in Jobs : Judged(j) /\ Bound(j) /\ Moved(j)
ShelfInv == WorkInv /\ \A v \in Versions : Shown(v)

\* The seal stays, but that another job may put it again with the CRCs it has read.
SealKept(v) == seal'[v] = seal[v] \/ \E t \in Trees : Claims(seal[v], t) /\ Claims(seal'[v], t)

\* What may happen to a version of the data bucket: each key stays or becomes what the tree t
\* says, and a new seal seals all of t.
Towards(v, t) ==
    /\ dds'[v] \in {dds[v], t} /\ catalog'[v] \in {catalog[v], t}
    /\ \A g \in Groups : \/ dman'[v][g] = dman[v][g]
                         \/ g \in GroupsIn(t) /\ dman'[v][g] = Part(t, g)
    /\ \A f \in Files : \/ dobj'[v][f] = dobj[v][f]
                        \/ f \in NamesIn(t) /\ dobj'[v][f] = t[f]
    /\ SealKept(v) \/ Shelved(v, t)'

Still(v) ==
    /\ dds'[v] = dds[v] /\ catalog'[v] = catalog[v] /\ SealKept(v)
    /\ dman'[v] = dman[v] /\ dobj'[v] = dobj[v]

-----------------------------------------------------------------------------
\* Nothing happening is a special case.
LEMMA StillIsTowards ==
    ASSUME NEW v \in Versions, NEW t, Still(v) PROVE Towards(v, t)
  BY DEF Still, Towards

\* What is shelved already does not move.
LEMMA ShelvedIsStill ==
    ASSUME JobGood, JobGood', NEW v \in Versions, NEW t \in Trees, Shelved(v, t), Towards(v, t)
    PROVE  Still(v)
<1>1. /\ dman[v] \in [Groups -> Docs] /\ dman'[v] \in [Groups -> Docs]
      /\ dobj[v] \in [Files -> Contents \cup {Absent}]
      /\ dobj'[v] \in [Files -> Contents \cup {Absent}]
  BY DEF JobGood, DataTypeOK, Trees
<1>2. \A g \in Groups : dman'[v][g] = dman[v][g]
  BY DEF Shelved, Towards
<1>3. \A f \in Files : dobj'[v][f] = dobj[v][f]
  BY DEF Shelved, Towards
<1>4. dman'[v] = dman[v] /\ dobj'[v] = dobj[v]
  BY <1>1, <1>2, <1>3
<1>5. dds'[v] = dds[v] /\ catalog'[v] = catalog[v]
  BY DEF Shelved, Towards
<1>6. SealKept(v)
  <2>1. Shelved(v, t)' => Claims(seal'[v], t)
    BY DEF Shelved, Claims, CrcsOf
  <2> QED
    BY <2>1 DEF Shelved, Towards, SealKept
<1> QED
  BY <1>4, <1>5, <1>6 DEF Still

\* What is shelved stays so where nothing moves.
LEMMA StillShelved ==
    ASSUME NEW v \in Versions, NEW t, Shelved(v, t), Still(v) PROVE Shelved(v, t)'
<1>1. Claims(seal'[v], t)
  BY DEF Shelved, Still, SealKept, Claims
<1>2. Claims(seal[v], t)'
  BY <1>1 DEF Claims, CrcsOf
<1> QED
  BY <1>2 DEF Shelved, Still

\* What a job knows and has made stays while it does not move: the documents under its prefix
\* stay, and the data bucket only moves towards them.
LEMMA WorkStays ==
    ASSUME PubGood, JobGood, JobGood', NEW j \in Jobs, Judged(j), Bound(j), Moved(j),
           job'[j] = job[j], NEW v, v = Cur(j), NEW t, t = Here(j),
           job[j].pc # "idle" => DocumentsKept(v) /\ Settled(v)' /\ Towards(v, t)
    PROVE  Judged(j)' /\ Bound(j)' /\ Moved(j)'
<1> DEFINE me == job[j]
<1>1. CASE me.pc = "idle"
  BY <1>1 DEF Judged, Bound, Moved, Promoting
<1>2. CASE me.pc # "idle"
  <2>0. /\ me \in JobRecs /\ v \in Versions /\ Cur(j)' = v /\ DocumentsKept(v) /\ Settled(v)'
        /\ Towards(v, t) /\ me.todo \subseteq Groups /\ LandingTypeOK
    BY <1>2, MinOfVersions DEF JobGood, JobRecs, JobStates, Cur, PubGood
  <2>1. t \in Trees => /\ Here(j)' = t /\ GroupsIn(t) \subseteq Groups /\ NamesIn(t) \subseteq Files
                       /\ \A g \in Groups : lman[v][g] # NoDoc => lman'[v][g] = lman[v][g]
    BY <2>0, BucketsAssumption, TreeFacts DEF Here, DocumentsKept
  <2>2. Whole(v) => Whole(v)' /\ Here(j)' = t /\ t \in Trees
    BY <2>0, WholeStays DEF Here, Whole
  <2>3. Judged(j)'
    <3>1. me.pc \in {"group", "heads", "profile"} =>
             /\ Here(j)' \in Trees /\ me.ds = Here(j)' /\ me.todo \subseteq GroupsIn(t)
             /\ \A g \in GroupsIn(t) \ me.todo :
                   me.incomplete \/ (lman'[v][g] # NoDoc /\ (me.bad \/ PassesGroup(t, g)))
      BY <2>1 DEF Judged
    <3>2. me.pc \in {"heads", "profile"} =>
             /\ lman'[v][Min(me.todo)] # NoDoc
             /\ me.mans[Min(me.todo)] = lman'[v][Min(me.todo)]
      <4> SUFFICES ASSUME me.pc \in {"heads", "profile"}
                   PROVE  /\ lman'[v][Min(me.todo)] # NoDoc
                          /\ me.mans[Min(me.todo)] = lman'[v][Min(me.todo)]
        OBVIOUS
      <4>1. Min(me.todo) \in Groups
        BY <2>0, MinOfGroups DEF JobRecs
      <4> QED
        BY <2>1, <4>1 DEF Judged
    <3>3. me.pc = "verdict" => me.bad \/ me.incomplete \/ (Whole(v)' /\ Passes(Here(j)'))
      BY <2>2 DEF Judged
    <3>4. me.pc = "profile" => me.bad \/ Sampled(Here(j)', Min(me.todo), me.left)
      BY <2>1 DEF Judged
    <3> QED
      BY <2>0, <2>1, <3>1, <3>2, <3>3, <3>4 DEF Judged, Passes, PassesGroup, Sampled
  <2>4. CASE me.pc \notin Promoting \cup {"reloadds"}
    <3>1. me.pc \notin Promoting
      BY <2>4
    <3> QED
      BY <2>3, <2>4, <3>1 DEF Bound, Moved, Promoting
  <2>5. CASE me.pc \in Promoting \cup {"reloadds"}
    <3>1. Whole(v) /\ Passes(t) /\ (Sealed(v) => Shelved(v, t))
      BY <2>5 DEF Bound
    <3>2. /\ t \in Trees /\ Here(j)' = t /\ Whole(v)' /\ Passes(t)'
          /\ GroupsIn(t) \subseteq Groups /\ NamesIn(t) \subseteq Files
      BY <2>1, <2>2, <3>1 DEF Passes, PassesGroup
    <3>3. Sealed(v)' => Shelved(v, t)'
      <4>1. CASE Sealed(v)
        <5>1. Still(v)
          BY <2>0, <3>1, <3>2, <4>1, ShelvedIsStill
        <5> QED
          BY <2>0, <3>1, <4>1, <5>1, StillShelved
      <4>2. CASE ~Sealed(v)
        BY <2>0, <4>2 DEF Towards, SealKept, Claims, Sealed
      <4> QED
        BY <4>1, <4>2
    <3> QED
      <4>1. Bound(j)'
        BY <2>0, <3>2, <3>3 DEF Bound, Here, Shelved, Passes, PassesGroup
      <4>2. Moved(j)'
        BY <2>0, <3>2 DEF Moved, Towards, Here, CrcsOf
      <4> QED
        BY <2>3, <4>1, <4>2
  <2> QED
    BY <2>4, <2>5
<1> QED
  BY <1>1, <1>2

-----------------------------------------------------------------------------
(* Gate A. *)

\* The lists that a group with the right manifest is checked against, with the payload in place:
\* they agree unless two files are alike, and a group without unfit files among them passes.
LEMMA CheckIsExact ==
    ASSUME NEW t \in Trees, NEW v \in Versions, lobj[v] = t, NEW g \in Groups
    PROVE  /\ Exhaustive(v, g, Part(t, g)) <=> Sampled(t, g, NamesIn(Part(t, g)))
           /\ Sampled(t, g, {}) <=> PassesGroup(t, g)
<1>1. NamesIn(Part(t, g)) = {f \in NamesIn(t) : GroupOf[f] = g}
  BY DEF NamesIn, Part
<1>2. \A f \in NamesIn(Part(t, g)) : Part(t, g)[f] = t[f] /\ t[f] # Absent
  BY DEF NamesIn, Part
<1>3. Exhaustive(v, g, Part(t, g)) <=> Sampled(t, g, NamesIn(Part(t, g)))
  BY <1>1, <1>2 DEF Exhaustive, Sampled
<1> QED
  BY <1>3 DEF Sampled, PassesGroup

\* A job that begins, or has ended, knows nothing.
LEMMA KnowsNothing ==
    ASSUME NEW j \in Jobs, job'[j].pc \in {"idle", "loadds"}
    PROVE  Judged(j)' /\ Bound(j)' /\ Moved(j)'
  BY DEF Judged, Bound, Moved, Promoting

\* A job that begins, or that has died, has judged nothing yet.
LEMMA BeginsAfresh ==
    ASSUME JobGood, NEW j \in Jobs, NEW w, job' = [job EXCEPT ![j] = Begin(w)] \/ Die(j)
    PROVE  job'[j].pc \in {"idle", "loadds"}
<1>1. Begin(w).pc \in {"idle", "loadds"} /\ IdleJob.pc = "idle"
  BY DEF Begin, IdleJob
<1> QED
  BY <1>1 DEF JobGood, Die

\* Gate A finds out whether the version is whole and passes.
LEMMA GateAJudges ==
    ASSUME PubGood, JobInv, LandingInv, NEW j \in Jobs, Judged(j),
           Discover(j) \/ RunNamed(j) \/ GateAStep(j) \/ JobCrash(j)
    PROVE  Judged(j)' /\ Bound(j)' /\ Moved(j)' /\ UNCHANGED dataVars
<1> DEFINE me == job[j]
<1>0. /\ me \in JobRecs /\ me \in JobStates /\ JobGood /\ LandingTypeOK
      /\ me.todo \in SUBSET Groups /\ me.mans \in [Groups -> Docs] /\ job \in [Jobs -> JobRecs]
  BY DEF JobInv, JobGood, JobRecs, JobStates, PubGood
<1>fresh. ASSUME NEW w, job' = [job EXCEPT ![j] = Begin(w)] \/ Die(j)
          PROVE  Judged(j)' /\ Bound(j)' /\ Moved(j)'
  BY <1>0, <1>fresh, BeginsAfresh, KnowsNothing
<1>gate. ASSUME job'[j].pc \in {"group", "heads", "profile", "verdict"}
         PROVE  Bound(j)' /\ Moved(j)'
  BY <1>gate DEF Bound, Moved, Promoting
<1>1. CASE Discover(j)
  BY <1>1, <1>fresh DEF Discover
<1>2. CASE RunNamed(j)
  BY <1>2, <1>fresh DEF RunNamed
<1>3. CASE JobCrash(j)
  BY <1>3, <1>fresh DEF JobCrash
<1>4. CASE LeaveIncomplete(j)
  BY <1>4, <1>fresh DEF LeaveIncomplete, ProcessNext
<1>5. CASE Reject(j)
  BY <1>5, <1>fresh DEF Reject, ProcessNext
<1>6. CASE \/ LoadDs(j) \/ LoadManifest(j) \/ HeadEntry(j) \/ ListGroup(j) \/ SampleEntry(j)
           \/ EndGroup(j) \/ Sweep(j)
  <2>0. /\ me.pc # "idle" /\ UNCHANGED landingVars /\ UNCHANGED dataVars
    BY <1>6 DEF LoadDs, LoadManifest, HeadEntry, ListGroup, SampleEntry, EndGroup, Sweep
  <2>1. PICK v \in Versions : v = Cur(j)
    BY <1>0, <2>0, MinOfVersions DEF Cur, JobRecs, JobStates
  <2>2. PICK t : t = lds[v]
    OBVIOUS
  <2>3. /\ t \in Docs /\ lds' = lds /\ lman' = lman /\ Settled(v)
        /\ t \in Trees => GroupsIn(t) \subseteq Groups
    BY <1>0, <2>0, <2>2, TreeFacts DEF LandingTypeOK, LandingInv, landingVars
  \* A successor of me that is still at work on v.
  <2>next. ASSUME NEW r, job' = [job EXCEPT ![j] = r], r.work = me.work
           PROVE  job'[j] = r /\ Cur(j)' = v /\ Here(j)' = t
    BY <1>0, <2>1, <2>2, <2>3, <2>next DEF Cur, Here
  <2>4. CASE LoadDs(j)
    <3> DEFINE r == IF t = NoDoc THEN [me EXCEPT !.bad = TRUE, !.pc = "verdict"]
                    ELSE [me EXCEPT !.ds = t, !.todo = GroupsIn(t), !.pc = "group"]
    <3>1. job' = [job EXCEPT ![j] = r]
      BY <2>1, <2>2, <2>4 DEF LoadDs
    <3>2. /\ r.work = me.work
          /\ t = NoDoc => r.pc = "verdict" /\ r.bad
          /\ t # NoDoc => r.pc = "group" /\ r.ds = t /\ r.todo = GroupsIn(t)
      BY <1>0 DEF JobStates
    <3> HIDE DEF r
    <3>3. job'[j] = r /\ Cur(j)' = v /\ Here(j)' = t
      BY <2>next, <3>1, <3>2
    <3>4. Judged(j)'
      BY <2>3, <3>2, <3>3 DEF Judged, Docs
    <3> QED
      BY <1>gate, <2>0, <3>2, <3>3, <3>4
  <2>5. CASE LoadManifest(j)
    <3>1. PICK g \in Groups : g \in me.todo /\ g = Min(me.todo)
      BY <1>0, <2>5, MinOfGroups DEF LoadManifest
    <3>2. PICK m : m = lman[v][g]
      OBVIOUS
    <3> DEFINE r == IF m = NoDoc THEN [me EXCEPT !.incomplete = TRUE, !.todo = @ \ {g}]
                    ELSE [me EXCEPT !.mans[g] = m, !.pc = "heads", !.left = NamesIn(m),
                            !.bad = @ \/ m # Part(me.ds, g)]
    <3>3. job' = [job EXCEPT ![j] = r] /\ me.pc = "group"
      BY <2>1, <2>5, <3>1, <3>2 DEF LoadManifest
    <3>4. /\ r.work = me.work /\ r.ds = me.ds
          /\ m = NoDoc => r.pc = "group" /\ r.incomplete /\ r.todo = me.todo \ {g}
          /\ m # NoDoc => /\ r.pc = "heads" /\ r.incomplete = me.incomplete /\ r.todo = me.todo
                          /\ r.mans[g] = m /\ (me.bad => r.bad)
      BY <1>0, <3>1, <3>3 DEF JobStates
    <3> HIDE DEF r
    <3>5. job'[j] = r /\ Cur(j)' = v /\ Here(j)' = t
      BY <2>next, <3>3, <3>4
    <3>6. /\ t \in Trees /\ me.ds = t /\ me.todo \subseteq GroupsIn(t)
          /\ \A h \in GroupsIn(t) \ me.todo :
                me.incomplete \/ (lman[v][h] # NoDoc /\ (me.bad \/ PassesGroup(t, h)))
      BY <2>1, <2>2, <3>3 DEF Judged, Here
    <3>7. CASE m = NoDoc
      <4>1. Judged(j)'
        BY <3>4, <3>5, <3>6, <3>7 DEF Judged
      <4> QED
        BY <1>gate, <2>0, <3>4, <3>5, <3>7, <4>1
    <3>8. CASE m # NoDoc
      <4>1. \A h \in GroupsIn(t) \ me.todo :
              r.incomplete \/ (lman'[v][h] # NoDoc /\ (r.bad \/ PassesGroup(t, h)))
        BY <2>3, <3>4, <3>6, <3>8
      <4>2. Judged(j)'
        BY <2>3, <3>1, <3>2, <3>4, <3>5, <3>6, <3>8, <4>1 DEF Judged, PassesGroup
      <4> QED
        BY <1>gate, <2>0, <3>4, <3>5, <3>8, <4>2
    <3> QED
      BY <3>7, <3>8
  <2>6. CASE HeadEntry(j) \/ ListGroup(j) \/ SampleEntry(j) \/ EndGroup(j)
    <3>1. PICK r \in JobRecs :
            /\ job' = [job EXCEPT ![j] = r]
            /\ r.work = me.work /\ r.ds = me.ds /\ r.mans = me.mans
            /\ r.incomplete = me.incomplete /\ (me.bad => r.bad)
            /\ r.pc \in {"heads", "profile", "group"}
      BY <2>6, GroupStep
    <3>2. me.pc \in {"heads", "profile"} /\ me.todo # {} /\ me.todo \subseteq Groups
      BY <1>0, <2>6 DEF HeadEntry, ListGroup, SampleEntry, EndGroup, JobRecs
    <3>3. PICK g \in Groups : g \in me.todo /\ g = Min(me.todo)
      BY <3>2, MinOfGroups
    <3>4. job'[j] = r /\ Cur(j)' = v /\ Here(j)' = t
      BY <2>next, <3>1
    <3>5. /\ t \in Trees /\ me.ds = t /\ me.todo \subseteq GroupsIn(t)
          /\ \A h \in GroupsIn(t) \ me.todo :
                me.incomplete \/ (lman[v][h] # NoDoc /\ (me.bad \/ PassesGroup(t, h)))
          /\ lman[v][g] # NoDoc /\ me.mans[g] = lman[v][g]
          /\ me.pc = "profile" => me.bad \/ Sampled(t, g, me.left)
      BY <2>1, <2>2, <3>2, <3>3 DEF Judged, Here
    <3>6. lobj[v] = t /\ me.mans[g] = Part(t, g)
      <4>1. t # NoDoc
        BY <3>5, BucketsAssumption
      <4> QED
        BY <2>2, <2>3, <3>5, <4>1 DEF Settled
    <3>7. CASE HeadEntry(j) \/ ListGroup(j) \/ SampleEntry(j)
      <4>1. /\ r.todo = me.todo
            /\ r.pc = "profile" => r.bad \/ Sampled(t, g, r.left)
            /\ r.pc \in {"heads", "profile"}
        <5>1. CASE HeadEntry(j)
          <6>1. job'[j].todo = me.todo /\ job'[j].pc = "heads"
            BY <1>0, <5>1 DEF HeadEntry, JobStates
          <6> QED
            BY <3>4, <6>1
        <5>2. CASE ListGroup(j)
          <6>1. /\ job'[j].todo = me.todo /\ job'[j].pc = "profile"
                /\ job'[j].left = NamesIn(me.mans[g])
                /\ job'[j].bad = (me.bad \/ ~Exhaustive(v, g, me.mans[g]))
            BY <1>0, <2>1, <3>3, <5>2 DEF ListGroup, JobStates
          <6>2. r.bad \/ Exhaustive(v, g, Part(t, g))
            BY <3>4, <3>6, <6>1
          <6> QED
            BY <3>4, <3>5, <3>6, <6>1, <6>2, CheckIsExact
        <5>3. CASE SampleEntry(j)
          <6>0. me.pc = "profile" /\ me.left # {} /\ me.left \subseteq Files
            BY <1>0, <5>3 DEF SampleEntry, JobStates
          <6>1. PICK f \in me.left : f = Min(me.left)
            BY <6>0, MinOfFiles
          <6>2. /\ job'[j].todo = me.todo /\ job'[j].pc = "profile"
                /\ job'[j].left = me.left \ {f}
                /\ job'[j].bad = (me.bad \/ lobj[v][f] \in Unfit \cup {Absent})
            BY <1>0, <2>1, <5>3, <6>1 DEF SampleEntry, JobStates
          <6>3. r.bad \/ (Sampled(t, g, me.left) /\ t[f] \notin Unfit)
            BY <3>1, <3>4, <3>5, <3>6, <6>0, <6>2
          <6>4. r.bad \/ Sampled(t, g, me.left \ {f})
            BY <6>3 DEF Sampled
          <6> QED
            BY <3>4, <6>2, <6>4
        <5> QED
          BY <3>7, <5>1, <5>2, <5>3
      <4>2. \A h \in GroupsIn(t) \ r.todo :
              r.incomplete \/ (lman'[v][h] # NoDoc /\ (r.bad \/ PassesGroup(t, h)))
        BY <2>3, <3>1, <3>5, <4>1
      <4>3. Judged(j)'
        BY <2>3, <3>1, <3>3, <3>4, <3>5, <4>1, <4>2 DEF Judged, PassesGroup, Sampled
      <4> QED
        BY <1>gate, <2>0, <3>4, <4>1, <4>3
    <3>8. CASE EndGroup(j)
      <4>1. /\ me.pc = "profile" /\ me.left = {}
            /\ job'[j].todo = me.todo \ {g} /\ job'[j].pc = "group"
        BY <1>0, <3>3, <3>8 DEF EndGroup, JobStates
      <4>2. r.bad \/ PassesGroup(t, g)
        BY <3>1, <3>5, <3>6, <4>1, CheckIsExact
      <4>3. \A h \in GroupsIn(t) \ r.todo :
              r.incomplete \/ (lman'[v][h] # NoDoc /\ (r.bad \/ PassesGroup(t, h)))
        BY <2>3, <3>1, <3>4, <3>5, <4>1, <4>2
      <4>4. Judged(j)'
        BY <3>1, <3>4, <3>5, <4>1, <4>3 DEF Judged, PassesGroup
      <4> QED
        BY <1>gate, <2>0, <3>4, <4>1, <4>4
    <3> QED
      BY <2>6, <3>7, <3>8
  <2>7. CASE Sweep(j)
    <3>1. PICK b \in BOOLEAN :
            b = (me.bad \/ (/\ ~me.incomplete
                            /\ \/ ~(NamesIn(lobj[v]) \subseteq Listed(j))
                               \/ Cardinality(Listed(j)) # Cardinality(NamesIn(me.ds))))
      OBVIOUS
    <3> DEFINE r == [me EXCEPT !.pc = "verdict", !.bad = b]
    <3>2. job' = [job EXCEPT ![j] = r] /\ me.pc = "group" /\ me.todo = {}
      BY <2>1, <2>7, <3>1 DEF Sweep
    <3>3. r.work = me.work /\ r.pc = "verdict" /\ r.incomplete = me.incomplete /\ r.bad = b
      BY <1>0 DEF JobStates
    <3> HIDE DEF r
    <3>4. job'[j] = r /\ Cur(j)' = v /\ Here(j)' = t
      BY <2>next, <3>2, <3>3
    <3>5. /\ t \in Trees
          /\ \A h \in GroupsIn(t) :
                me.incomplete \/ (lman[v][h] # NoDoc /\ (me.bad \/ PassesGroup(t, h)))
      BY <2>1, <2>2, <3>2 DEF Judged, Here
    <3>6. ASSUME ~b, ~me.incomplete PROVE Whole(v) /\ Passes(t)
      <4>1. \A h \in GroupsIn(t) : lman[v][h] # NoDoc /\ PassesGroup(t, h)
        BY <3>1, <3>5, <3>6
      <4>2. Whole(v)
        BY <1>0, <2>2, <2>3, <3>5, <4>1, AllManifests, BucketsAssumption
      <4>3. ASSUME NEW h \in Groups, h \notin GroupsIn(t) PROVE PassesGroup(t, h)
        BY <4>3 DEF GroupsIn, PassesGroup
      <4> QED
        BY <4>1, <4>2, <4>3 DEF Passes
    <3>7. ~b /\ ~me.incomplete => Whole(v)' /\ Passes(t)
      BY <2>0, <3>6 DEF Whole, landingVars
    <3>8. Judged(j)'
      BY <3>3, <3>4, <3>7 DEF Judged, Passes, PassesGroup
    <3> QED
      BY <1>gate, <2>0, <3>3, <3>4, <3>8
  <2> QED
    BY <1>6, <2>4, <2>5, <2>6, <2>7
<1>7. Discover(j) \/ RunNamed(j) \/ GateAStep(j) \/ JobCrash(j) => UNCHANGED dataVars
  BY DEF Discover, RunNamed, GateAStep, JobCrash, LoadDs, LoadManifest, HeadEntry, ListGroup,
         SampleEntry, EndGroup, Sweep, LeaveIncomplete, Reject
<1> QED
  BY <1>1, <1>2, <1>3, <1>4, <1>5, <1>6, <1>7 DEF GateAStep

-----------------------------------------------------------------------------
(* promote(). *)

\* As long as the job stays with its version, what it is bound to stays.
LEMMA BoundStays ==
    ASSUME PubGood, JobGood, JobGood', NEW j \in Jobs, NEW v \in Versions, v = Cur(j),
           NEW t \in Trees, t = Here(j), Whole(v), Passes(t), Sealed(v) => Shelved(v, t),
           UNCHANGED landingVars, job'[j].work = job[j].work, Towards(v, t)
    PROVE  Bound(j)' /\ Cur(j)' = v /\ Here(j)' = t
<1>1. Cur(j)' = v /\ Here(j)' = t
  BY DEF Cur, Here, landingVars
<1>2. Whole(v)'
  BY DEF Whole, landingVars
<1>3. Sealed(v)' => Shelved(v, t)'
  <2>1. CASE Sealed(v)
    BY <2>1, ShelvedIsStill, StillShelved
  <2>2. CASE ~Sealed(v)
    BY <2>2 DEF Towards, SealKept, Claims, Sealed
  <2> QED
    BY <2>1, <2>2
<1> QED
  BY <1>1, <1>2, <1>3 DEF Bound, Passes, PassesGroup, Shelved, Claims, CrcsOf

\* What a job in promote() is bound to.
LEMMA BoundFacts ==
    ASSUME PubGood, JobGood, NEW j \in Jobs, Bound(j), job[j].pc \in Promoting \cup {"reloadds"}
    PROVE  \E v \in Versions, t \in Trees :
              /\ v = Cur(j) /\ t = Here(j) /\ lds[v] = t /\ t # NoDoc
              /\ Whole(v) /\ Passes(t) /\ (Sealed(v) => Shelved(v, t))
              /\ GroupsIn(t) # {} /\ GroupsIn(t) \subseteq Groups /\ NamesIn(t) \subseteq Files
              /\ lobj[v] = t
              /\ \A g \in GroupsIn(t) : lman[v][g] = Part(t, g) /\ Part(t, g) \in Trees
                                        /\ Part(t, g) # NoDoc
<1>1. Cur(j) \in Versions
  BY MinOfVersions DEF Cur, JobGood, JobRecs, JobStates, Promoting
<1>2. Whole(Cur(j)) /\ Passes(Here(j)) /\ (Sealed(Cur(j)) => Shelved(Cur(j), Here(j)))
  BY DEF Bound
<1>3. Here(j) \in Trees /\ Here(j) = lds[Cur(j)] /\ NamesIn(Here(j)) # {}
  BY <1>2 DEF Whole, Here
<1> QED
  BY <1>1, <1>2, <1>3, TreeFacts, BucketsAssumption DEF Whole

\* The keys of dataset.json, of the manifests and of the objects differ.
LEMMA KeysDiffer ==
    /\ \A g \in Groups : ManKey(g) # DsKey /\ \A h \in Groups : ManKey(g) = ManKey(h) => g = h
    /\ \A f \in Files : /\ ObjKey(f) # DsKey
                        /\ \A g \in Groups : ObjKey(f) # ManKey(g)
                        /\ \A e \in Files : ObjKey(f) = ObjKey(e) => e = f
  BY DEF DsKey, ManKey, ObjKey

\* promote() up to the copies.
LEMMA ReloadMoves ==
    ASSUME PubGood, JobInv, NEW j \in Jobs, Judged(j), Bound(j), Moved(j),
           CheckSeal(j) \/ ReloadDs(j) \/ ReloadManifest(j)
    PROVE  Judged(j)' /\ Bound(j)' /\ Moved(j)' /\ UNCHANGED dataVars
<1> DEFINE me == job[j]
<1>0. /\ me \in JobRecs /\ me \in JobStates /\ JobGood /\ JobGood' /\ job \in [Jobs -> JobRecs]
      /\ me.todo \in SUBSET Groups /\ me.mans \in [Groups -> Docs]
  BY ReloadKeeps DEF JobInv, JobGood, JobRecs, JobStates
<1>q. UNCHANGED landingVars /\ UNCHANGED dataVars
  BY DEF CheckSeal, ReloadDs, ReloadManifest
<1>die. ASSUME Die(j) PROVE Judged(j)' /\ Bound(j)' /\ Moved(j)'
  BY <1>0, <1>die, BeginsAfresh, KnowsNothing
<1>judged. ASSUME job'[j].pc \in Promoting \cup {"reloadds"} PROVE Judged(j)'
  BY <1>judged DEF Judged, Promoting
<1>still. \A w \in Versions : Still(w)
  BY <1>q DEF Still, SealKept, dataVars
<1>1. CASE CheckSeal(j)
  <2>1. CASE seal[Cur(j)] # NoDoc
    BY <1>1, <1>q, <1>die, <2>1 DEF CheckSeal
  <2>2. CASE seal[Cur(j)] = NoDoc
    <3> DEFINE r == [me EXCEPT !.pc = "reloadds"]
    <3>1. job' = [job EXCEPT ![j] = r] /\ me.pc = "verdict" /\ ~me.bad /\ ~me.incomplete
      BY <1>1, <2>2 DEF CheckSeal
    <3>2. r.work = me.work /\ r.pc = "reloadds"
      BY <1>0 DEF JobStates
    <3> HIDE DEF r
    <3>3. job'[j] = r
      BY <1>0, <3>1
    <3>4. Whole(Cur(j)) /\ Passes(Here(j))
      BY <3>1 DEF Judged
    <3>5. Bound(j)'
      BY <1>q, <2>2, <3>2, <3>3, <3>4
         DEF Bound, Cur, Here, Whole, Passes, PassesGroup, Sealed, landingVars, dataVars
    <3> QED
      BY <1>q, <1>judged, <3>2, <3>3, <3>5 DEF Moved, Promoting
  <2> QED
    BY <2>1, <2>2
<1>2. CASE ReloadDs(j) \/ ReloadManifest(j)
  <2>0. me.pc \in Promoting \cup {"reloadds"}
    BY <1>2 DEF ReloadDs, ReloadManifest, Promoting
  <2>1. PICK v \in Versions, t \in Trees :
          /\ v = Cur(j) /\ t = Here(j) /\ lds[v] = t /\ t # NoDoc
          /\ Whole(v) /\ Passes(t) /\ (Sealed(v) => Shelved(v, t))
          /\ GroupsIn(t) # {} /\ GroupsIn(t) \subseteq Groups /\ NamesIn(t) \subseteq Files
          /\ lobj[v] = t
          /\ \A g \in GroupsIn(t) : lman[v][g] = Part(t, g) /\ Part(t, g) \in Trees
                                    /\ Part(t, g) # NoDoc
    BY <1>0, <2>0, BoundFacts
  <2>2. Towards(v, t)
    BY <1>still, StillIsTowards
  <2>moved. ASSUME NEW r, job' = [job EXCEPT ![j] = r], r.work = me.work,
                   r.pc \in {"reloadmans", "copy"}, r.ds = t, r.todo \subseteq GroupsIn(t),
                   \A g \in Groups : r.mans[g] = IF g \in GroupsIn(t) \ r.todo
                                                 THEN Part(t, g) ELSE NoDoc,
                   \A g \in Groups : ManKey(g) \in r.keys => g \in GroupsIn(t),
                   DsKey \in r.keys \/ dds[v] = t,
                   \A g \in GroupsIn(t) \ r.todo : ManKey(g) \in r.keys \/ dman[v][g] = Part(t, g),
                   \A f \in NamesIn(t) : GroupOf[f] \notin r.todo =>
                       ObjKey(f) \in r.keys \/ dobj[v][f] = t[f]
            PROVE  Judged(j)' /\ Bound(j)' /\ Moved(j)'
    <3>1. job'[j] = r
      BY <1>0, <2>moved
    <3>2. Bound(j)' /\ Cur(j)' = v /\ Here(j)' = t
      BY <1>0, <1>q, <2>1, <2>2, <2>moved, <3>1, BoundStays
    <3>3. Moved(j)'
      BY <1>q, <2>moved, <3>1, <3>2 DEF Moved, dataVars
    <3> QED
      BY <1>judged, <2>moved, <3>1, <3>2, <3>3 DEF Promoting
  <2>3. CASE ReloadDs(j)
    <3> DEFINE r == [me EXCEPT !.ds = t, !.todo = GroupsIn(t), !.mans = [g \in Groups |-> NoDoc],
                       !.keys = {DsKey},
                       !.pc = IF GroupsIn(t) = {} THEN "copy" ELSE "reloadmans"]
    <3>1. job' = [job EXCEPT ![j] = r]
      BY <2>1, <2>3 DEF ReloadDs
    <3>2. /\ r.work = me.work /\ r.pc = "reloadmans" /\ r.ds = t /\ r.todo = GroupsIn(t)
          /\ r.mans = [g \in Groups |-> NoDoc] /\ r.keys = {DsKey}
      BY <1>0, <2>1 DEF JobStates
    <3> HIDE DEF r
    <3>3. \A f \in NamesIn(t) : GroupOf[f] \in r.todo
      BY <3>2 DEF GroupsIn
    <3>4. \A g \in Groups : r.mans[g] = IF g \in GroupsIn(t) \ r.todo THEN Part(t, g) ELSE NoDoc
      BY <3>2
    <3>5. \A g \in GroupsIn(t) \ r.todo : ManKey(g) \in r.keys \/ dman[v][g] = Part(t, g)
      BY <3>2
    <3>6. \A f \in NamesIn(t) : GroupOf[f] \notin r.todo => ObjKey(f) \in r.keys \/ dobj[v][f] = t[f]
      BY <3>3
    <3>7. \A g \in Groups : ManKey(g) \in r.keys => g \in GroupsIn(t)
      BY <3>2, KeysDiffer
    <3> QED
      BY <1>q, <2>moved, <3>1, <3>2, <3>4, <3>5, <3>6, <3>7
  <2>4. CASE ReloadManifest(j)
    <3>0. me.pc = "reloadmans"
      BY <2>4 DEF ReloadManifest
    <3>1. PICK g \in Groups : g \in me.todo /\ g = Min(me.todo)
      BY <1>0, <3>0, MinOfGroups DEF JobRecs
    <3>2. /\ me.ds = t /\ me.todo \subseteq GroupsIn(t)
          /\ \A h \in Groups : me.mans[h] = IF h \in GroupsIn(t) \ me.todo
                                            THEN Part(t, h) ELSE NoDoc
          /\ \A h \in Groups : ManKey(h) \in me.keys => h \in GroupsIn(t)
          /\ DsKey \in me.keys \/ dds[v] = t
          /\ \A h \in GroupsIn(t) \ me.todo : ManKey(h) \in me.keys \/ dman[v][h] = Part(t, h)
          /\ \A f \in NamesIn(t) : GroupOf[f] \notin me.todo =>
                ObjKey(f) \in me.keys \/ dobj[v][f] = t[f]
      BY <2>1, <3>0 DEF Moved, Promoting
    <3>3. PICK m : m = lman[v][g] /\ m = Part(t, g) /\ m # NoDoc
      BY <2>1, <3>1, <3>2
    <3> DEFINE more == me.keys \cup {ManKey(g)} \cup {ObjKey(f) : f \in NamesIn(m)}
               r == [me EXCEPT !.mans[g] = m, !.todo = @ \ {g}, !.keys = more,
                       !.pc = IF me.todo = {g} THEN "copy" ELSE @]
    <3>4. job' = [job EXCEPT ![j] = r]
      BY <2>1, <2>4, <3>1, <3>3 DEF ReloadManifest
    <3>5. /\ r.work = me.work /\ r.pc \in {"reloadmans", "copy"} /\ r.ds = me.ds
          /\ r.todo = me.todo \ {g} /\ r.mans = [me.mans EXCEPT ![g] = m] /\ r.keys = more
      BY <1>0, <3>0 DEF JobStates
    <3>6. /\ me.keys \subseteq more /\ ManKey(g) \in more
          /\ \A f \in NamesIn(t) : GroupOf[f] = g => ObjKey(f) \in more
      BY <3>3 DEF NamesIn, Part
    <3>key. \A h \in Groups : ManKey(h) \in more => h \in GroupsIn(t)
      <4>1. NamesIn(m) \subseteq Files
        BY DEF NamesIn
      <4> QED
        BY <3>1, <3>2, <4>1, KeysDiffer
    <3> HIDE DEF r, more
    <3>7. \A h \in Groups : r.mans[h] = IF h \in GroupsIn(t) \ r.todo THEN Part(t, h) ELSE NoDoc
      BY <1>0, <3>1, <3>2, <3>3, <3>5
    <3>8. \A h \in GroupsIn(t) \ r.todo : ManKey(h) \in r.keys \/ dman[v][h] = Part(t, h)
      BY <3>2, <3>5, <3>6
    <3>9. \A f \in NamesIn(t) : GroupOf[f] \notin r.todo => ObjKey(f) \in r.keys \/ dobj[v][f] = t[f]
      BY <3>2, <3>5, <3>6
    <3>10. DsKey \in r.keys \/ dds[v] = t
      BY <3>2, <3>5, <3>6
    <3> QED
      BY <1>q, <2>moved, <3>2, <3>4, <3>5, <3>key, <3>7, <3>8, <3>9, <3>10
  <2> QED
    BY <1>2, <1>q, <2>3, <2>4
<1> QED
  BY <1>1, <1>2, <1>q

\* The manifests of a tree list what the tree names.
LEMMA ListedIsNamed ==
    ASSUME NEW j \in Jobs, NEW t \in Trees,
           \A g \in Groups : job[j].mans[g] = IF g \in GroupsIn(t) THEN Part(t, g) ELSE NoDoc,
           \A g \in GroupsIn(t) : Part(t, g) # NoDoc
    PROVE  Listed(j) = NamesIn(t)
<1>1. GroupsIn(t) \subseteq Groups /\ \A f \in NamesIn(t) : GroupOf[f] \in GroupsIn(t)
  BY TreeFacts DEF GroupsIn
<1>2. \A f \in Files, g \in Groups : Part(t, g)[f] = IF GroupOf[f] = g THEN t[f] ELSE Absent
  BY DEF Part
<1>3. ASSUME NEW f \in Listed(j) PROVE f \in NamesIn(t)
  BY <1>2, <1>3 DEF Listed, NamesIn
<1>4. ASSUME NEW f \in NamesIn(t) PROVE f \in Listed(j)
  <2>1. f \in Files /\ t[f] # Absent /\ GroupOf[f] \in GroupsIn(t) /\ GroupOf[f] \in Groups
    BY <1>1, <1>4 DEF NamesIn
  <2> QED
    BY <1>2, <2>1 DEF Listed
<1> QED
  BY <1>3, <1>4

\* A copy of what the version holds: its key comes off the list, and the data bucket is one key
\* closer to what lies in landing.
LEMMA OneCopyMoves ==
    ASSUME PubGood, JobGood, JobGood', NEW j \in Jobs, Bound(j), Moved(j), job[j].pc = "copy",
           NEW k, Copied(j, k), UNCHANGED landingVars,
           NEW v \in Versions, v = Cur(j), NEW t \in Trees, t = Here(j), Towards(v, t),
           k = DsKey => dds'[v] = t,
           \A g \in GroupsIn(t) : k = ManKey(g) => dman'[v][g] = Part(t, g),
           \A f \in NamesIn(t) : k = ObjKey(f) => dobj'[v][f] = t[f]
    PROVE  Judged(j)' /\ Bound(j)' /\ Moved(j)'
<1> DEFINE me == job[j]
           r  == IF me.keys = {k}
                 THEN [me EXCEPT !.keys = {}, !.left = Listed(j), !.crc = Empty, !.pc = "crcs"]
                 ELSE [me EXCEPT !.keys = @ \ {k}]
<1>0. /\ me \in JobStates /\ job \in [Jobs -> JobRecs] /\ me.todo = {}
      /\ GroupsIn(t) \subseteq Groups /\ NamesIn(t) \subseteq Files
  BY TreeFacts DEF JobGood, JobRecs, Promoting
<1>1. job' = [job EXCEPT ![j] = r]
  BY DEF Copied
<1>2. /\ r.work = me.work /\ r.ds = me.ds /\ r.todo = {} /\ r.mans = me.mans
      /\ r.keys = me.keys \ {k} /\ r.pc \in {"copy", "crcs"}
      /\ r.pc = "crcs" => CrcsOf(r.crc, t) /\ r.left = Listed(j)
  BY <1>0 DEF JobStates, CrcsOf, Empty
<1> HIDE DEF r
<1>3. job'[j] = r
  BY <1>0, <1>1
<1>4. Bound(j)' /\ Cur(j)' = v /\ Here(j)' = t
  <2>1. Whole(v) /\ Passes(t) /\ (Sealed(v) => Shelved(v, t))
    BY DEF Bound, Promoting
  <2> QED
    BY <1>2, <1>3, <2>1, BoundStays
<1>5. /\ r.ds = t
      /\ \A g \in Groups : r.mans[g] = IF g \in GroupsIn(t) \ r.todo THEN Part(t, g) ELSE NoDoc
      /\ \A g \in Groups : ManKey(g) \in r.keys => g \in GroupsIn(t)
      /\ DsKey \in me.keys \/ dds[v] = t
      /\ \A g \in GroupsIn(t) : ManKey(g) \in me.keys \/ dman[v][g] = Part(t, g)
      /\ \A f \in NamesIn(t) : ObjKey(f) \in me.keys \/ dobj[v][f] = t[f]
  BY <1>0, <1>2 DEF Moved, Promoting
<1>6. DsKey \in r.keys \/ dds'[v] = t
  BY <1>2, <1>5 DEF Towards
<1>7. \A g \in GroupsIn(t) : ManKey(g) \in r.keys \/ dman'[v][g] = Part(t, g)
  BY <1>0, <1>2, <1>5 DEF Towards
<1>8. \A f \in NamesIn(t) : ObjKey(f) \in r.keys \/ dobj'[v][f] = t[f]
  BY <1>0, <1>2, <1>5 DEF Towards
<1>9. r.pc = "crcs" => r.left \subseteq NamesIn(t)
  <2>1. \A g \in GroupsIn(t) : Part(t, g) # NoDoc
    BY <1>0, TreeFacts, BucketsAssumption
  <2>2. Listed(j) = NamesIn(t)
    BY <1>0, <1>2, <1>5, <2>1, ListedIsNamed
  <2> QED
    BY <1>2, <2>2
<1>10. Moved(j)'
  BY <1>2, <1>3, <1>4, <1>5, <1>6, <1>7, <1>8, <1>9 DEF Moved, CrcsOf
<1> QED
  BY <1>2, <1>3, <1>4, <1>10 DEF Judged

\* The copies of promote().
LEMMA CopyMoves ==
    ASSUME PubGood, JobInv, NEW j \in Jobs, Bound(j), Moved(j),
           CopyDs(j) \/ CopyManifest(j) \/ CopyPayload(j)
    PROVE  /\ Judged(j)' /\ Bound(j)' /\ Moved(j)'
           /\ Towards(Cur(j), Here(j))
           /\ \A w \in Versions \ {Cur(j)} : Still(w)
<1>0. /\ JobGood /\ JobGood' /\ DataTypeOK /\ job[j].pc = "copy" /\ UNCHANGED landingVars
  BY CopyKeeps DEF JobInv, JobGood, CopyDs, CopyManifest, CopyPayload
<1>1. PICK v \in Versions, t \in Trees :
        /\ v = Cur(j) /\ t = Here(j) /\ lds[v] = t /\ t # NoDoc
        /\ Whole(v) /\ Passes(t) /\ (Sealed(v) => Shelved(v, t))
        /\ GroupsIn(t) # {} /\ GroupsIn(t) \subseteq Groups /\ NamesIn(t) \subseteq Files
        /\ lobj[v] = t
        /\ \A g \in GroupsIn(t) : lman[v][g] = Part(t, g) /\ Part(t, g) \in Trees
                                  /\ Part(t, g) # NoDoc
  BY <1>0, BoundFacts DEF Promoting
<1>die. ASSUME Die(j), UNCHANGED dataVars
        PROVE  /\ Judged(j)' /\ Bound(j)' /\ Moved(j)' /\ Towards(v, t)
               /\ \A w \in Versions \ {v} : Still(w)
  <2>1. \A w \in Versions : Still(w)
    BY <1>die DEF Still, SealKept, dataVars
  <2> QED
    BY <1>0, <1>die, <2>1, BeginsAfresh, KnowsNothing, StillIsTowards
<1>2. CASE CopyDs(j)
  <2>1. /\ Copied(j, DsKey) /\ dds' = [dds EXCEPT ![v] = t]
        /\ UNCHANGED <<dman, dobj, catalog, seal>>
    BY <1>1, <1>2 DEF CopyDs
  <2>2. /\ dds'[v] = t /\ Towards(v, t)
        /\ \A w \in Versions \ {v} : Still(w)
    BY <1>0, <2>1 DEF DataTypeOK, Towards, SealKept, Still
  <2>3. Judged(j)' /\ Bound(j)' /\ Moved(j)'
    BY <1>0, <1>1, <2>1, <2>2, KeysDiffer, OneCopyMoves
  <2> QED
    BY <1>1, <2>2, <2>3
<1>3. CASE CopyManifest(j)
  <2>1. PICK g \in Groups :
          /\ ManKey(g) \in job[j].keys
          /\ IF lman[v][g] = NoDoc THEN Die(j) /\ UNCHANGED dman
             ELSE Copied(j, ManKey(g)) /\ dman' = [dman EXCEPT ![v][g] = lman[v][g]]
    BY <1>1, <1>3 DEF CopyManifest
  <2>2. g \in GroupsIn(t) /\ lman[v][g] = Part(t, g) /\ lman[v][g] # NoDoc
    BY <1>0, <1>1, <2>1 DEF Moved, Promoting
  <2>3. /\ Copied(j, ManKey(g)) /\ dman' = [dman EXCEPT ![v][g] = Part(t, g)]
        /\ UNCHANGED <<dds, dobj, catalog, seal>>
    BY <1>3, <2>1, <2>2 DEF CopyManifest
  <2>4. /\ dman'[v][g] = Part(t, g)
        /\ \A h \in Groups : h # g => dman'[v][h] = dman[v][h]
        /\ \A w \in Versions \ {v} : dman'[w] = dman[w]
    BY <1>0, <2>3 DEF DataTypeOK
  <2>5. Towards(v, t) /\ \A w \in Versions \ {v} : Still(w)
    BY <2>2, <2>3, <2>4 DEF Towards, SealKept, Still
  <2>6. Judged(j)' /\ Bound(j)' /\ Moved(j)'
    BY <1>0, <1>1, <2>3, <2>4, <2>5, KeysDiffer, OneCopyMoves
  <2> QED
    BY <1>1, <2>5, <2>6
<1>4. CASE CopyPayload(j)
  <2>1. PICK f \in Files :
          /\ ObjKey(f) \in job[j].keys
          /\ IF t[f] = Absent THEN Die(j) /\ UNCHANGED dobj
             ELSE Copied(j, ObjKey(f)) /\ dobj' = [dobj EXCEPT ![v][f] = t[f]]
    BY <1>1, <1>4 DEF CopyPayload
  <2>2. CASE t[f] = Absent
    <3>1. Die(j) /\ UNCHANGED dataVars
      BY <1>4, <2>1, <2>2 DEF CopyPayload, dataVars
    <3> QED
      BY <1>1, <1>die, <3>1
  <2>3. CASE t[f] # Absent
    <3>1. /\ Copied(j, ObjKey(f)) /\ dobj' = [dobj EXCEPT ![v][f] = t[f]]
          /\ UNCHANGED <<dds, dman, catalog, seal>>
      BY <1>4, <2>1, <2>3 DEF CopyPayload
    <3>2. /\ f \in NamesIn(t) /\ dobj'[v][f] = t[f]
          /\ \A e \in Files : e # f => dobj'[v][e] = dobj[v][e]
          /\ \A w \in Versions \ {v} : dobj'[w] = dobj[w]
      BY <1>0, <2>3, <3>1 DEF DataTypeOK, Trees, NamesIn
    <3>3. Towards(v, t) /\ \A w \in Versions \ {v} : Still(w)
      BY <3>1, <3>2 DEF Towards, SealKept, Still
    <3>4. Judged(j)' /\ Bound(j)' /\ Moved(j)'
      BY <1>0, <1>1, <3>1, <3>2, <3>3, KeysDiffer, OneCopyMoves
    <3> QED
      BY <1>1, <3>3, <3>4
  <2> QED
    BY <2>2, <2>3
<1> QED
  BY <1>2, <1>3, <1>4

\* From the CRCs to the landing marker: what is sealed is what lies in landing, all of it.
LEMMA SealMoves ==
    ASSUME PubGood, JobInv, NEW j \in Jobs, Bound(j), Moved(j),
           HeadCrc(j) \/ ReadRoot(j) \/ PutCatalog(j) \/ PutSeal(j) \/ MarkValidated(j)
    PROVE  /\ Judged(j)' /\ Bound(j)' /\ Moved(j)'
           /\ Towards(Cur(j), Here(j))
           /\ \A w \in Versions \ {Cur(j)} : Still(w)
<1> DEFINE me == job[j]
<1>0. /\ JobGood /\ JobGood' /\ DataTypeOK /\ me \in JobStates /\ job \in [Jobs -> JobRecs]
      /\ me.pc \in {"crcs", "catalog", "seal", "mark"} /\ me.pc \in Promoting
      /\ me.todo = {} /\ me.keys = {}
  BY SealingKeeps
     DEF JobInv, JobGood, JobRecs, HeadCrc, ReadRoot, PutCatalog, PutSeal, MarkValidated, Promoting
<1>1. PICK v \in Versions, t \in Trees :
        /\ v = Cur(j) /\ t = Here(j) /\ lds[v] = t /\ t # NoDoc
        /\ Whole(v) /\ Passes(t) /\ (Sealed(v) => Shelved(v, t))
        /\ GroupsIn(t) # {} /\ GroupsIn(t) \subseteq Groups /\ NamesIn(t) \subseteq Files
        /\ lobj[v] = t
        /\ \A g \in GroupsIn(t) : lman[v][g] = Part(t, g) /\ Part(t, g) \in Trees
                                  /\ Part(t, g) # NoDoc
  BY <1>0, BoundFacts
<1>2. /\ me.ds = t /\ dds[v] = t
      /\ \A g \in Groups : me.mans[g] = IF g \in GroupsIn(t) THEN Part(t, g) ELSE NoDoc
      /\ \A g \in GroupsIn(t) : dman[v][g] = Part(t, g)
      /\ \A f \in NamesIn(t) : dobj[v][f] = t[f]
      /\ me.pc = "crcs" => me.left \subseteq NamesIn(t)
      /\ me.pc \in {"crcs", "catalog", "seal"} => CrcsOf(me.crc, t)
      /\ me.pc \in {"catalog", "seal"} => me.root = t
      /\ me.pc = "seal" => catalog[v] = t
  BY <1>0, <1>1 DEF Moved
<1>moved. ASSUME NEW r, job' = [job EXCEPT ![j] = r], r.work = me.work, UNCHANGED landingVars,
                 r.pc \in {"crcs", "catalog", "seal", "mark"},
                 r.ds = me.ds, r.mans = me.mans, r.keys = {}, r.todo = {}, Towards(v, t),
                 r.pc = "crcs" => r.left \subseteq NamesIn(t),
                 r.pc \in {"crcs", "catalog", "seal"} => CrcsOf(r.crc, t),
                 r.pc \in {"catalog", "seal"} => r.root = t,
                 r.pc = "seal" => catalog'[v] = t
          PROVE  Judged(j)' /\ Bound(j)' /\ Moved(j)'
  <2>1. job'[j] = r
    BY <1>0, <1>moved
  <2>2. Bound(j)' /\ Cur(j)' = v /\ Here(j)' = t
    BY <1>0, <1>1, <1>moved, <2>1, BoundStays
  <2>3. /\ dds'[v] = t
        /\ \A g \in GroupsIn(t) : dman'[v][g] = Part(t, g)
        /\ \A f \in NamesIn(t) : dobj'[v][f] = t[f]
    BY <1>1, <1>2, <1>moved DEF Towards
  <2>4. /\ \A g \in Groups : ManKey(g) \in r.keys => g \in GroupsIn(t)
        /\ \A g \in Groups : r.mans[g] = IF g \in GroupsIn(t) \ r.todo THEN Part(t, g) ELSE NoDoc
    BY <1>2, <1>moved
  <2>5. Moved(j)'
    BY <1>2, <1>moved, <2>1, <2>2, <2>3, <2>4 DEF Moved, CrcsOf
  <2> QED
    BY <1>moved, <2>1, <2>2, <2>5 DEF Judged
<1>still. UNCHANGED dataVars => \A w \in Versions : Still(w)
  BY DEF Still, SealKept, dataVars
<1>3. CASE HeadCrc(j)
  <2>0. PICK f \in me.left :
          \E c \in {dobj[v][f]} \cup {Absent : e \in Crcless \cap {f}} :
             job' = [job EXCEPT ![j].crc[f] = c, ![j].left = @ \ {f}]
    BY <1>1, <1>3 DEF HeadCrc
  <2>1. PICK c \in {dobj[v][f], Absent} :
          job' = [job EXCEPT ![j].crc[f] = c, ![j].left = @ \ {f}]
    BY <2>0
  <2> DEFINE r == [me EXCEPT !.crc[f] = c, !.left = @ \ {f}]
  <2>2. job' = [job EXCEPT ![j] = r] /\ UNCHANGED dataVars /\ UNCHANGED landingVars
        /\ me.pc = "crcs"
    BY <1>3, <2>1 DEF HeadCrc
  <2>4. f \in Files /\ c \in {Absent, t[f]}
    BY <1>1, <1>2, <2>1, <2>2
  <2>5. /\ r.pc = "crcs" /\ r.left \subseteq NamesIn(t) /\ r.crc = [me.crc EXCEPT ![f] = c] /\ r.work = me.work /\ r.ds = me.ds
        /\ r.mans = me.mans /\ r.keys = {} /\ r.todo = {}
    BY <1>0, <1>2, <2>2 DEF JobStates
  <2> HIDE DEF r
  <2>6. CrcsOf(r.crc, t)
    <3>1. me.crc \in [Files -> Contents \cup {Absent}] /\ CrcsOf(me.crc, t)
      BY <1>0, <1>2, <2>2 DEF JobStates, Trees
    <3>2. ASSUME NEW e \in Files PROVE r.crc[e] \in {Absent, t[e]}
      BY <2>4, <2>5, <3>1 DEF CrcsOf
    <3> QED
      BY <3>2 DEF CrcsOf
  <2>7. Towards(v, t)
    BY <1>still, <2>2, StillIsTowards
  <2> QED
    BY <1>1, <1>still, <1>moved, <2>2, <2>5, <2>6, <2>7
<1>4. CASE ReadRoot(j)
  <2> DEFINE r == [me EXCEPT !.pc = "catalog", !.root = t]
  <2>1. /\ r.pc = "catalog" /\ r.crc = me.crc /\ r.root = t /\ r.work = me.work /\ r.ds = me.ds
        /\ r.mans = me.mans /\ r.keys = {} /\ r.todo = {}
    BY <1>0 DEF JobStates
  <2>2. job' = [job EXCEPT ![j] = r] /\ UNCHANGED dataVars /\ UNCHANGED landingVars
        /\ me.pc = "crcs"
    BY <1>1, <1>2, <1>4 DEF ReadRoot
  <2> HIDE DEF r
  <2>3. Towards(v, t)
    BY <1>still, <2>2, StillIsTowards
  <2> QED
    BY <1>1, <1>2, <1>still, <1>moved, <2>1, <2>2, <2>3
<1>5. CASE PutCatalog(j)
  <2> DEFINE r == [me EXCEPT !.pc = "seal"]
  <2>1. /\ r.pc = "seal" /\ r.crc = me.crc /\ r.root = me.root /\ r.work = me.work
        /\ r.ds = me.ds /\ r.mans = me.mans /\ r.keys = {} /\ r.todo = {}
    BY <1>0 DEF JobStates
  <2>2. /\ me.pc = "catalog" /\ job' = [job EXCEPT ![j] = r]
        /\ catalog' = [catalog EXCEPT ![v] = t]
        /\ UNCHANGED <<dds, dman, dobj, seal>> /\ UNCHANGED landingVars
    BY <1>1, <1>2, <1>5 DEF PutCatalog
  <2> HIDE DEF r
  <2>3. /\ catalog'[v] = t /\ Towards(v, t)
        /\ \A w \in Versions \ {v} : Still(w)
    BY <1>0, <2>2 DEF DataTypeOK, Towards, SealKept, Still
  <2> QED
    BY <1>1, <1>2, <1>moved, <2>1, <2>2, <2>3
<1>6. CASE PutSeal(j)
  <2> DEFINE r == [me EXCEPT !.pc = "mark"]
             s == [root |-> t, pinned |-> t, crc |-> me.crc]
  <2>1. /\ r.pc = "mark" /\ r.work = me.work
        /\ r.ds = me.ds /\ r.mans = me.mans /\ r.keys = {} /\ r.todo = {}
    BY <1>0 DEF JobStates
  <2>2. /\ me.pc = "seal" /\ job' = [job EXCEPT ![j] = r] /\ seal' = [seal EXCEPT ![v] = s]
        /\ UNCHANGED <<dds, dman, dobj, catalog>> /\ UNCHANGED landingVars
    BY <1>1, <1>2, <1>6 DEF PutSeal
  <2> HIDE DEF r, s
  <2>3. /\ seal'[v] = s
        /\ \A w \in Versions \ {v} : Still(w)
    BY <1>0, <2>2 DEF DataTypeOK, Still, SealKept
  <2>4. Shelved(v, t)'
    <3>1. s # NoDoc /\ s.root = t /\ s.pinned = t /\ s.crc = me.crc
      <4>1. s \in Seals
        BY <1>0, <1>1 DEF Seals, JobStates, Docs, s
      <4> QED
        BY <4>1, BucketsAssumption DEF s
    <3>2. Claims(seal[v], t)'
      BY <1>2, <2>2, <2>3, <3>1 DEF Claims, CrcsOf
    <3> QED
      BY <1>2, <2>2, <3>2 DEF Shelved
  <2>5. Towards(v, t)
    BY <2>2, <2>4 DEF Towards
  <2> QED
    BY <1>1, <1>moved, <2>1, <2>2, <2>3, <2>5
<1>7. CASE MarkValidated(j)
  <2>1. UNCHANGED dataVars /\ job' = [job EXCEPT ![j] = Begin(me.work \ {v})]
    BY <1>1, <1>7 DEF MarkValidated, ProcessNext
  <2>2. Judged(j)' /\ Bound(j)' /\ Moved(j)'
    BY <1>0, <2>1, BeginsAfresh, KnowsNothing
  <2>3. Towards(v, t)
    BY <1>still, <2>1, StillIsTowards
  <2> QED
    BY <1>1, <1>still, <2>1, <2>2, <2>3
<1> QED
  BY <1>3, <1>4, <1>5, <1>6, <1>7

-----------------------------------------------------------------------------
(* All together. *)

\* A step of one job leaves the records of the others alone.
LEMMA OneJobAtATime ==
    ASSUME JobGood, NEW j \in Jobs, JobStep(j) \/ RunNamed(j) \/ JobCrash(j)
    PROVE  \A k \in Jobs \ {j} : job'[k] = job[k]
<1>0. job \in [Jobs -> JobRecs]
  BY DEF JobGood
<1>1. Discover(j) \/ RunNamed(j) \/ JobCrash(j) => \A k \in Jobs \ {j} : job'[k] = job[k]
  BY <1>0 DEF Discover, RunNamed, JobCrash, Die
<1>2. ASSUME \/ LoadDs(j) \/ LoadManifest(j) \/ HeadEntry(j) \/ ListGroup(j) \/ SampleEntry(j)
             \/ EndGroup(j) \/ Sweep(j)
      PROVE  \A k \in Jobs \ {j} : job'[k] = job[k]
  BY <1>0, <1>2 DEF LoadDs, LoadManifest, HeadEntry, ListGroup, SampleEntry, EndGroup, Sweep
<1>3. LeaveIncomplete(j) \/ Reject(j) \/ MarkValidated(j) => \A k \in Jobs \ {j} : job'[k] = job[k]
  BY <1>0 DEF LeaveIncomplete, Reject, MarkValidated, ProcessNext
<1>4. CheckSeal(j) \/ ReloadDs(j) \/ ReloadManifest(j) => \A k \in Jobs \ {j} : job'[k] = job[k]
  BY <1>0 DEF CheckSeal, ReloadDs, ReloadManifest, Die
<1>5. CopyDs(j) \/ CopyManifest(j) \/ CopyPayload(j) => \A k \in Jobs \ {j} : job'[k] = job[k]
  BY <1>0 DEF CopyDs, CopyManifest, CopyPayload, Copied, Die
<1>6. HeadCrc(j) \/ ReadRoot(j) \/ PutCatalog(j) \/ PutSeal(j)
        => \A k \in Jobs \ {j} : job'[k] = job[k]
  BY <1>0 DEF HeadCrc, ReadRoot, PutCatalog, PutSeal
<1>7. GateAStep(j) => \A k \in Jobs \ {j} : job'[k] = job[k]
  BY <1>2, <1>3 DEF GateAStep
<1>8. PromoteStep(j) => \A k \in Jobs \ {j} : job'[k] = job[k]
  BY <1>3, <1>4, <1>5, <1>6 DEF PromoteStep
<1> QED
  BY <1>1, <1>7, <1>8 DEF JobStep

\* A job moves the data bucket, if at all, towards the version in landing that it promotes.
LEMMA JobMoves ==
    ASSUME PubGood, JobInv, LandingInv, NEW j \in Jobs, Judged(j), Bound(j), Moved(j),
           JobStep(j) \/ RunNamed(j) \/ JobCrash(j)
    PROVE  /\ Judged(j)' /\ Bound(j)' /\ Moved(j)'
           /\ \/ \A w \in Versions : Still(w)
              \/ /\ job[j].pc \in Promoting
                 /\ Towards(Cur(j), Here(j))
                 /\ \A w \in Versions \ {Cur(j)} : Still(w)
<1>still. UNCHANGED dataVars => \A w \in Versions : Still(w)
  BY DEF Still, SealKept, dataVars
<1>1. CASE Discover(j) \/ RunNamed(j) \/ GateAStep(j) \/ JobCrash(j)
  BY <1>1, <1>still, GateAJudges
<1>2. CASE CheckSeal(j) \/ ReloadDs(j) \/ ReloadManifest(j)
  BY <1>2, <1>still, ReloadMoves
<1>3. CASE CopyDs(j) \/ CopyManifest(j) \/ CopyPayload(j)
  BY <1>3, CopyMoves DEF CopyDs, CopyManifest, CopyPayload, Promoting
<1>4. CASE HeadCrc(j) \/ ReadRoot(j) \/ PutCatalog(j) \/ PutSeal(j) \/ MarkValidated(j)
  BY <1>4, SealMoves DEF HeadCrc, ReadRoot, PutCatalog, PutSeal, MarkValidated, Promoting
<1> QED
  BY <1>1, <1>2, <1>3, <1>4 DEF JobStep, PromoteStep

\* What stays as it is stays shown.
LEMMA StaysShown ==
    ASSUME NEW w \in Versions, Shown(w), Still(w) PROVE Shown(w)'
<1>1. Sealed(w)' <=> Sealed(w)
  BY DEF Still, SealKept, Claims, Sealed
<1>2. PICK t : t = dds[w] /\ dds'[w] = t
  BY DEF Still
<1>3. Sealed(w) => Shelved(w, t)'
  BY <1>2, StillShelved DEF Shown
<1> QED
  BY <1>1, <1>2, <1>3 DEF Shown, Passes, PassesGroup, Shelved, Claims, CrcsOf

\* At most one version of the data bucket moves at a time, and only towards a version in landing
\* that is whole and passes; if it is sealed, it is that version already.
OnePlaceMoves ==
    \/ \A w \in Versions : Still(w)
    \/ \E v \in Versions, t \in Trees :
          /\ lds[v] = t /\ Whole(v) /\ Passes(t)
          /\ Sealed(v) => Shelved(v, t)
          /\ Towards(v, t)
          /\ \A w \in Versions \ {v} : Still(w)

\* So what is sealed does not move ...
LEMMA SealedIsStill ==
    ASSUME JobGood, JobGood', OnePlaceMoves PROVE \A w \in Versions : Sealed(w) => Still(w)
  BY ShelvedIsStill DEF OnePlaceMoves

\* ... and what becomes sealed is as Gate A passed it.
LEMMA NewSealIsShown ==
    ASSUME OnePlaceMoves, NEW w \in Versions, ~Sealed(w), Sealed(w)'
    PROVE  Shown(w)'
<1>1. ~SealKept(w)
  BY DEF SealKept, Claims, Sealed
<1>2. PICK t \in Trees : Passes(t) /\ Towards(w, t)
  BY <1>1 DEF OnePlaceMoves, Still
<1>3. Shelved(w, t)'
  BY <1>1, <1>2 DEF Towards
<1> QED
  BY <1>2, <1>3 DEF Shown, Shelved, Claims, CrcsOf, Passes, PassesGroup

\* A step of a job keeps what all jobs know and have made.
LEMMA JobKeepsWork ==
    ASSUME PubGood, JobInv, LandingInv, WorkInv, JobInv', LandingInv',
           NEW j \in Jobs, JobStep(j) \/ RunNamed(j) \/ JobCrash(j)
    PROVE  WorkInv' /\ OnePlaceMoves
<1>0. /\ JobGood /\ JobGood' /\ UNCHANGED <<lds, lman, lobj>>
      /\ Judged(j) /\ Bound(j) /\ Moved(j)
  BY JobsOnlyMark DEF JobInv, WorkInv
<1>1. PICK v : v = Cur(j)
  OBVIOUS
<1>2. PICK t : t = Here(j)
  OBVIOUS
<1>3. /\ Judged(j)' /\ Bound(j)' /\ Moved(j)'
      /\ \/ \A w \in Versions : Still(w)
         \/ /\ job[j].pc \in Promoting
            /\ Towards(v, t)
            /\ \A w \in Versions \ {v} : Still(w)
  BY <1>0, <1>1, <1>2, JobMoves
<1>4. ASSUME NEW k \in Jobs \ {j} PROVE Judged(k)' /\ Bound(k)' /\ Moved(k)'
  <2>1. PICK w, u : w = Cur(k) /\ u = Here(k)
    OBVIOUS
  <2>2. ASSUME job[k].pc # "idle" PROVE DocumentsKept(w) /\ Settled(w)' /\ Towards(w, u)
    <3>1. w \in Versions
      BY <1>0, <2>1, <2>2, MinOfVersions DEF Cur, JobGood, JobRecs, JobStates
    <3>2. DocumentsKept(w) /\ Settled(w)'
      BY <1>0, <3>1 DEF DocumentsKept, LandingInv
    <3>3. Towards(w, u)
      BY <1>1, <1>2, <1>3, <2>1, <3>1, StillIsTowards DEF Here
    <3> QED
      BY <3>2, <3>3
  <2>3. job'[k] = job[k]
    BY <1>0, OneJobAtATime
  <2> QED
    BY <1>0, <2>1, <2>2, <2>3, WorkStays DEF WorkInv
<1>5. OnePlaceMoves
  <2>1. CASE \A w \in Versions : Still(w)
    BY <2>1 DEF OnePlaceMoves
  <2>2. CASE job[j].pc \in Promoting
    <3>1. v \in Versions /\ t \in Trees /\ lds[v] = t /\ Whole(v) /\ Passes(t)
          /\ (Sealed(v) => Shelved(v, t))
      BY <1>0, <1>1, <1>2, <2>2, BoundFacts
    <3> QED
      BY <1>3, <3>1 DEF OnePlaceMoves
  <2> QED
    BY <1>3, <2>1, <2>2
<1> QED
  BY <1>3, <1>4, <1>5 DEF WorkInv

\* So does a step of anybody else: it leaves alone the documents that a job is at work on, and
\* what that job has made of them.
LEMMA OthersKeepWork ==
    ASSUME PubGood, JobInv, WorkInv, JobInv', LandingInv', UNCHANGED job,
           \A j \in Jobs : job[j].pc # "idle" => DocumentsKept(Cur(j)) /\ Still(Cur(j))
    PROVE  WorkInv'
<1> SUFFICES ASSUME NEW k \in Jobs PROVE Judged(k)' /\ Bound(k)' /\ Moved(k)'
  BY DEF WorkInv
<1>0. JobGood /\ JobGood' /\ job' = job
  BY DEF JobInv
<1>1. PICK w, u : w = Cur(k) /\ u = Here(k)
  OBVIOUS
<1>2. ASSUME job[k].pc # "idle" PROVE DocumentsKept(w) /\ Settled(w)' /\ Towards(w, u)
  <2>1. w \in Versions
    BY <1>0, <1>1, <1>2, MinOfVersions DEF Cur, JobGood, JobRecs, JobStates
  <2> QED
    BY <1>0, <1>1, <1>2, <2>1, StillIsTowards DEF LandingInv
<1> QED
  BY <1>0, <1>1, <1>2, WorkStays DEF WorkInv

\* A busy job has a version, which is one of its work list.
LEMMA CurIsWork ==
    ASSUME JobGood, NEW j \in Jobs, job[j].pc # "idle"
    PROVE  Cur(j) \in Versions /\ Cur(j) \in job[j].work
  BY MinOfVersions DEF Cur, JobGood, JobRecs, JobStates

\* Publications that do not overlap: every step keeps what jobs know and have made.
LEMMA NextWork ==
    ASSUME ~Overlap, PubGood, JobInv, JobInv', LandingInv, LandingInv', WorkInv, [Next]_vars
    PROVE  WorkInv' /\ OnePlaceMoves
<1>0. JobGood
  BY DEF JobInv
<1>still. ASSUME UNCHANGED dataVars, UNCHANGED jobVars,
                 \A j \in Jobs : job[j].pc # "idle" => DocumentsKept(Cur(j))
          PROVE  WorkInv' /\ OnePlaceMoves
  <2>1. UNCHANGED job /\ \A w \in Versions : Still(w)
    BY <1>still DEF Still, SealKept, dataVars, jobVars
  <2> QED
    BY <1>0, <1>still, <2>1, CurIsWork, OthersKeepWork DEF OnePlaceMoves
<1>1. CASE PublishNext /\ UNCHANGED <<dataVars, jobVars>>
  <2>1. \A v \in Versions : DocumentsKept(v)
    BY <1>1, RunsKeepDocuments DEF PublishNext
  <2> QED
    BY <1>0, <1>1, <1>still, <2>1, CurIsWork
<1>2. CASE ValidatorNext /\ UNCHANGED pubVars
  BY <1>2, JobKeepsWork DEF ValidatorNext
<1>3. ASSUME NEW v \in Versions, Expire(v) PROVE WorkInv' /\ OnePlaceMoves
  <2>1. \A w \in Versions : w # v => DocumentsKept(w)
    BY <1>3 DEF Expire, DocumentsKept, PubGood, LandingTypeOK
  <2>2. \A j \in Jobs : v \notin job[j].work
    BY <1>3 DEF Expire
  <2>3. UNCHANGED dataVars /\ UNCHANGED jobVars
    BY <1>3 DEF Expire
  <2> QED
    BY <1>0, <1>still, <2>1, <2>2, <2>3, CurIsWork
<1>4. CASE UNCHANGED vars
  <2>1. UNCHANGED dataVars /\ UNCHANGED jobVars /\ UNCHANGED landingVars
    BY <1>4 DEF vars
  <2>2. \A w \in Versions : DocumentsKept(w)
    BY <2>1 DEF DocumentsKept, landingVars
  <2> QED
    BY <1>0, <1>still, <2>1, <2>2, CurIsWork
<1> QED
  BY <1>1, <1>2, <1>3, <1>4 DEF Next

\* Nothing is sealed at first.
LEMMA InitShelf == Init => ShelfInv
<1> SUFFICES ASSUME Init PROVE ShelfInv
  OBVIOUS
<1>1. /\ \A j \in Jobs : job[j].pc = "idle"
      /\ \A v \in Versions : ~Sealed(v)
  BY DEF Init, BucketsInit, PromoteInit, IdleJob, Sealed
<1> QED
  BY <1>1 DEF ShelfInv, WorkInv, Shown, Judged, Bound, Moved, Promoting

\* Every step of the airlock keeps the shelf, and moves one place at most.
LEMMA NextShelf ==
    ASSUME ~Overlap, IInv, LandingInv, ShelfInv, [Next]_vars PROVE ShelfInv' /\ OnePlaceMoves
<1>0. PubGood /\ JobInv /\ JobInv' /\ LandingInv' /\ JobGood /\ JobGood'
  BY NextIInv, NextLanding DEF IInv, JobInv
<1>1. WorkInv' /\ OnePlaceMoves
  BY <1>0, NextWork DEF ShelfInv
<1>2. ASSUME NEW w \in Versions PROVE Shown(w)'
  <2>1. CASE Sealed(w)
    BY <1>0, <1>1, <2>1, SealedIsStill, StaysShown DEF ShelfInv
  <2>2. CASE ~Sealed(w)
    BY <1>1, <2>2, NewSealIsShown DEF Shown
  <2> QED
    BY <2>1, <2>2
<1> QED
  BY <1>1, <1>2 DEF ShelfInv

\* So what is sealed stays shown.
LEMMA ShelfInvariance == ASSUME ~Overlap PROVE Spec => []ShelfInv
<1>1. IInv /\ LandingInv /\ ShelfInv /\ [Next]_vars => ShelfInv'
  BY NextShelf
<1> QED
  BY <1>1, InitShelf, Invariance, LandingInvariance, PTL DEF Spec

\* Where publications do not overlap, a sealed version is complete, entry by entry, and
\* verify_seal finds nothing wrong with it, however many jobs promote it at once, die half-way
\* or are started by hand.
THEOREM SealedIsComplete == ASSUME ~Overlap PROVE Spec => []SealImpliesComplete
<1>1. ShelfInv => SealImpliesComplete
  <2> SUFFICES ASSUME NEW v \in Versions, Sealed(v), ShelfInv
               PROVE  SealIntact(v) /\ \A f \in NamesIn(dds[v]) : dobj[v][f] = dds[v][f]
    BY DEF SealImpliesComplete
  <2>1. PICK t \in Trees : t = dds[v] /\ Shelved(v, t) /\ t # NoDoc
    BY BucketsAssumption DEF ShelfInv, Shown
  <2>2. seal[v].root = t /\ seal[v].pinned = t
    BY <2>1 DEF Shelved, Claims
  <2> QED
    BY <2>1, <2>2 DEF Shelved, SealIntact
<1> QED
  BY <1>1, ShelfInvariance, PTL

\* The airlock implements a shelf: where publications do not overlap and sources are clean, a
\* version becomes readable in one step, as a whole, with a fit tree that a producer offered,
\* and no later step changes what is read there.
THEOREM AirlockIsAShelf == ASSUME ~Overlap, CleanSources PROVE Spec => ImplementsShelf
<1> DEFINE place(v) == IF Sealed(v) THEN Readable(v) ELSE NoDoc
           shown    == [v \in Versions |-> place(v)]
<1>1. Init => TheShelf!ShelfInit
  BY DEF Init, BucketsInit, Sealed, TheShelf!ShelfInit
<1>2. ASSUME NEW w \in Versions, Still(w) PROVE place(w)' = place(w)
  BY <1>2 DEF Still, SealKept, Claims, Sealed, Readable, ListedIn
<1>3. ASSUME NEW v \in Versions, NEW t \in Trees, Shelved(v, t)' PROVE Sealed(v)' /\ Readable(v)' = t
  <2>1. Sealed(v)'
    BY <1>3 DEF Shelved, Claims, Sealed
  <2>2. \A f \in Files : ListedIn(v, f)' <=> f \in NamesIn(t)
    <3>1. \A g \in GroupsIn(t) : Part(t, g) \in Trees /\ Part(t, g) # NoDoc
      BY TreeFacts, BucketsAssumption
    <3>2. \A f \in Files, g \in Groups : Part(t, g)[f] = IF GroupOf[f] = g THEN t[f] ELSE Absent
      BY DEF Part
    <3>3. GroupsIn(t) \subseteq Groups /\ \A f \in NamesIn(t) : GroupOf[f] \in GroupsIn(t)
      BY TreeFacts DEF GroupsIn
    <3>4. dds'[v] = t /\ \A g \in GroupsIn(t) : dman'[v][g] = Part(t, g)
      BY <1>3 DEF Shelved
    <3>5. ASSUME NEW f \in Files, ListedIn(v, f)' PROVE f \in NamesIn(t)
      BY <3>2, <3>3, <3>4, <3>5 DEF ListedIn, NamesIn
    <3>6. ASSUME NEW f \in NamesIn(t) PROVE ListedIn(v, f)'
      <4>1. f \in Files /\ t[f] # Absent /\ GroupOf[f] \in GroupsIn(t) /\ GroupOf[f] \in Groups
        BY <3>3 DEF NamesIn
      <4> QED
        BY <3>1, <3>2, <3>4, <4>1 DEF ListedIn
    <3> QED
      BY <3>5, <3>6
  <2>3. Readable(v)' = t
    BY <1>3, <2>2 DEF Shelved, Readable, NamesIn, Trees
  <2> QED
    BY <2>1, <2>3
<1>4. ASSUME IInv, LandingInv, ShelfInv, SourceInv, [Next]_vars PROVE [TheShelf!ShelfNext]_shown
  <2>0. JobGood /\ JobGood'
    BY <1>4, NextIInv DEF IInv, JobInv
  <2>1. OnePlaceMoves
    BY <1>4, NextShelf
  <2>2. CASE \A w \in Versions : place(w)' = place(w)
    BY <2>2
  <2>3. ASSUME NEW v \in Versions, place(v)' # place(v) PROVE TheShelf!ShelfNext
    <3>1. PICK t \in Trees : /\ lds[v] = t /\ Whole(v) /\ Passes(t) /\ Towards(v, t)
                             /\ \A w \in Versions \ {v} : Still(w)
      BY <1>2, <2>1, <2>3 DEF OnePlaceMoves
    <3>2. ~Sealed(v) /\ Sealed(v)' /\ Shelved(v, t)'
      <4>1. ~Sealed(v)
        BY <1>2, <2>0, <2>1, <2>3, SealedIsStill
      <4> QED
        BY <2>3, <3>1, <4>1 DEF Towards, SealKept, Claims, Sealed
    <3>3. place(v) = NoDoc /\ place(v)' = t
      BY <1>3, <3>2
    <3>4. t \in Sources /\ FitTree(t)
      <4>1. t \in Sources
        BY <1>4, <3>1, BucketsAssumption DEF SourceInv
      <4>2. \A f \in NamesIn(t) : GroupOf[f] \in Groups
        BY TreeFacts DEF GroupsIn
      <4> QED
        BY <3>1, <4>1, <4>2 DEF Passes, PassesGroup, FitTree
    <3>5. \A w \in Versions \ {v} : place(w)' = place(w)
      BY <1>2, <3>1
    <3>6. TheShelf!Fill(v, t)
      <4>1. shown' = [shown EXCEPT ![v] = t]
        BY <3>3, <3>5
      <4> QED
        BY <3>3, <3>4, <4>1 DEF TheShelf!Fill
    <3> QED
      BY <3>4, <3>6 DEF TheShelf!ShelfNext
  <2> QED
    BY <2>2, <2>3
<1> HIDE DEF shown
<1> QED
  BY <1>1, <1>4, Invariance, LandingInvariance, ShelfInvariance, SourcesInvariance, PTL
     DEF Spec, ImplementsShelf, TheShelf!ShelfSpec, shown

-----------------------------------------------------------------------------
(* The catalog, also where publications overlap. *)

\* One job at a time.
OneJob == \A j, k \in Jobs : j = k

\* Until its job writes the seal the version has none, and the catalog entry that goes before it
\* records the root that the seal will.
SealFollows(j) ==
    /\ job[j].pc \in ({"reloadds"} \cup Promoting) \ {"mark"} => ~Sealed(Cur(j))
    /\ job[j].pc = "seal" => catalog[Cur(j)] = job[j].root

CatalogInv == CatalogMatchesSeal /\ \A j \in Jobs : SealFollows(j)

\* In Gate A a job has written nothing yet.
LEMMA GateAWritesNothing ==
    ASSUME JobGood, NEW j \in Jobs, Discover(j) \/ RunNamed(j) \/ GateAStep(j) \/ JobCrash(j)
    PROVE  UNCHANGED dataVars /\ job'[j].pc \notin {"reloadds"} \cup Promoting
<1> DEFINE me == job[j]
<1>0. me \in JobStates /\ job \in [Jobs -> JobRecs]
  BY DEF JobGood, JobRecs
<1>1. CASE Discover(j) \/ RunNamed(j) \/ JobCrash(j) \/ LeaveIncomplete(j) \/ Reject(j)
  <2>1. \E w : job' = [job EXCEPT ![j] = Begin(w)] \/ Die(j)
    BY <1>1 DEF Discover, RunNamed, JobCrash, LeaveIncomplete, Reject, ProcessNext
  <2>2. UNCHANGED dataVars
    BY <1>1 DEF Discover, RunNamed, JobCrash, LeaveIncomplete, Reject
  <2> QED
    BY <2>1, <2>2, BeginsAfresh DEF Promoting
<1>2. CASE LoadDs(j)
  <2>1. job'[j].pc \in {"verdict", "group"}
    BY <1>0, <1>2 DEF LoadDs, JobStates
  <2> QED
    BY <1>2, <2>1 DEF LoadDs, Promoting
<1>3. CASE LoadManifest(j)
  <2>1. job'[j].pc \in {"heads", "group"}
    BY <1>0, <1>3 DEF LoadManifest, JobStates
  <2> QED
    BY <1>3, <2>1 DEF LoadManifest, Promoting
<1>4. CASE HeadEntry(j) \/ ListGroup(j) \/ SampleEntry(j) \/ EndGroup(j) \/ Sweep(j)
  <2>1. job'[j].pc \in {"heads", "profile", "group", "verdict"}
    BY <1>0, <1>4 DEF HeadEntry, ListGroup, SampleEntry, EndGroup, Sweep, JobStates
  <2> QED
    BY <1>4, <2>1 DEF HeadEntry, ListGroup, SampleEntry, EndGroup, Sweep, Promoting
<1> QED
  BY <1>1, <1>2, <1>3, <1>4 DEF GateAStep

\* From there to the catalog entry it writes neither entry nor seal, and stays with its version.
LEMMA CopiesSealNothing ==
    ASSUME JobGood, NEW j \in Jobs,
           \/ CheckSeal(j) \/ ReloadDs(j) \/ ReloadManifest(j)
           \/ CopyDs(j) \/ CopyManifest(j) \/ CopyPayload(j) \/ HeadCrc(j) \/ ReadRoot(j)
    PROVE  /\ UNCHANGED <<catalog, seal>>
           /\ \/ job'[j].pc = "idle"
              \/ /\ job'[j].work = job[j].work /\ job'[j].pc \notin {"seal", "mark"}
                 /\ CheckSeal(j) => ~Sealed(Cur(j))
                 /\ ~CheckSeal(j) => job[j].pc \in ({"reloadds"} \cup Promoting) \ {"mark"}
<1>0. job[j] \in JobStates /\ job \in [Jobs -> JobRecs]
  BY DEF JobGood, JobRecs
<1>die. Die(j) => job'[j].pc = "idle"
  BY <1>0 DEF Die, IdleJob
<1>1. CASE CheckSeal(j)
  BY <1>0, <1>die, <1>1 DEF CheckSeal, Sealed, dataVars, JobStates
<1>2. CASE ReloadDs(j)
  BY <1>0, <1>die, <1>2 DEF ReloadDs, dataVars, JobStates
<1>3. CASE ReloadManifest(j)
  <2>1. Die(j) \/ (job'[j].work = job[j].work /\ job'[j].pc \in {"copy", "reloadmans"})
    <3> DEFINE g == Min(job[j].todo)
               m == lman[Cur(j)][g]
               r == [job[j] EXCEPT !.mans[g] = m, !.todo = @ \ {g},
                       !.keys = @ \cup {ManKey(g)} \cup {ObjKey(f) : f \in NamesIn(m)},
                       !.pc = IF job[j].todo = {g} THEN "copy" ELSE @]
    <3>1. job[j].pc = "reloadmans" /\ (Die(j) \/ job' = [job EXCEPT ![j] = r])
      BY <1>3 DEF ReloadManifest
    <3>2. r.work = job[j].work /\ r.pc \in {"copy", "reloadmans"}
      BY <1>0, <3>1 DEF JobStates
    <3> HIDE DEF r
    <3> QED
      BY <1>0, <3>1, <3>2
  <2> QED
    BY <1>die, <1>3, <2>1 DEF ReloadManifest, dataVars, Promoting, CheckSeal
<1>4. CASE CopyDs(j) \/ CopyManifest(j) \/ CopyPayload(j)
  <2>1. job[j].pc = "copy" /\ UNCHANGED <<catalog, seal>> /\ (Die(j) \/ \E k : Copied(j, k))
    BY <1>4 DEF CopyDs, CopyManifest, CopyPayload
  <2>2. ASSUME NEW k, Copied(j, k)
        PROVE  job'[j].work = job[j].work /\ job'[j].pc \in {"copy", "crcs"}
    BY <1>0, <2>1, <2>2 DEF Copied, JobStates
  <2> QED
    BY <1>die, <2>1, <2>2 DEF Promoting, CheckSeal
<1>5. CASE HeadCrc(j)
  BY <1>0, <1>5 DEF HeadCrc, dataVars, JobStates, Promoting, CheckSeal
<1>6. CASE ReadRoot(j)
  BY <1>0, <1>6 DEF ReadRoot, dataVars, JobStates, Promoting, CheckSeal
<1> QED
  BY <1>1, <1>2, <1>3, <1>4, <1>5, <1>6

\* One job at a time keeps catalog and seals in line, whatever landing holds.
LEMMA JobKeepsCatalog ==
    ASSUME OneJob, JobGood, CatalogInv, NEW j \in Jobs, JobStep(j) \/ RunNamed(j) \/ JobCrash(j)
    PROVE  CatalogInv'
<1> DEFINE me == job[j]
<1>0. /\ me \in JobStates /\ job \in [Jobs -> JobRecs] /\ DataTypeOK
      /\ SealFollows(j) /\ CatalogMatchesSeal
  BY DEF JobGood, JobRecs, CatalogInv
<1>cur. ASSUME me.pc # "idle" PROVE Cur(j) \in Versions
  BY <1>cur, CurIsWork
<1>one. ASSUME CatalogMatchesSeal', SealFollows(j)' PROVE CatalogInv'
  BY <1>one DEF CatalogInv, OneJob
<1>still. ASSUME UNCHANGED <<catalog, seal>> PROVE CatalogMatchesSeal'
  BY <1>0, <1>still DEF CatalogMatchesSeal, Sealed
<1>1. CASE Discover(j) \/ RunNamed(j) \/ GateAStep(j) \/ JobCrash(j)
  BY <1>1, <1>one, <1>still, GateAWritesNothing DEF dataVars, SealFollows, Promoting
<1>2. CASE \/ CheckSeal(j) \/ ReloadDs(j) \/ ReloadManifest(j)
           \/ CopyDs(j) \/ CopyManifest(j) \/ CopyPayload(j) \/ HeadCrc(j) \/ ReadRoot(j)
  BY <1>0, <1>2, <1>one, <1>still, CopiesSealNothing DEF SealFollows, Promoting, Cur, Sealed
<1>3. CASE PutCatalog(j)
  <2>1. /\ me.pc = "catalog" /\ ~Sealed(Cur(j)) /\ Cur(j) \in Versions
        /\ catalog' = [catalog EXCEPT ![Cur(j)] = me.root] /\ UNCHANGED seal
    BY <1>0, <1>3, <1>cur DEF PutCatalog, SealFollows, Promoting
  <2>2. job'[j].pc = "seal" /\ job'[j].work = me.work /\ job'[j].root = me.root
    BY <1>0, <1>3 DEF PutCatalog, JobStates
  <2>3. CatalogMatchesSeal'
    BY <1>0, <2>1 DEF CatalogMatchesSeal, Sealed, DataTypeOK
  <2>4. SealFollows(j)'
    BY <1>0, <2>1, <2>2 DEF SealFollows, Cur, Sealed, DataTypeOK
  <2> QED
    BY <1>one, <2>3, <2>4
<1>4. CASE PutSeal(j)
  <2>1. PICK s : s.root = me.root /\ seal' = [seal EXCEPT ![Cur(j)] = s] /\ UNCHANGED catalog
    BY <1>4 DEF PutSeal
  <2>2. me.pc = "seal" /\ catalog[Cur(j)] = me.root /\ Cur(j) \in Versions
    BY <1>0, <1>4, <1>cur DEF PutSeal, SealFollows
  <2>3. CatalogMatchesSeal'
    BY <1>0, <2>1, <2>2 DEF CatalogMatchesSeal, Sealed, DataTypeOK
  <2>4. job'[j].pc = "mark"
    BY <1>0, <1>4 DEF PutSeal, JobStates
  <2> QED
    BY <1>one, <2>3, <2>4 DEF SealFollows
<1>5. CASE MarkValidated(j)
  <2>1. job'[j].pc \in {"idle", "loadds"} /\ UNCHANGED <<catalog, seal>>
    BY <1>5, BeginsAfresh DEF MarkValidated, ProcessNext, dataVars
  <2> QED
    BY <1>one, <1>still, <2>1 DEF SealFollows, Promoting
<1> QED
  BY <1>1, <1>2, <1>3, <1>4, <1>5 DEF JobStep, PromoteStep

\* The catalog entry and the seal of a version name the same dataset.json: with one job at a time
\* whatever producers do, and with any number of jobs where publications do not overlap.
THEOREM CatalogAgrees == ASSUME OneJob \/ ~Overlap PROVE Spec => []CatalogMatchesSeal
<1>1. CASE OneJob
  <2>1. Init => CatalogInv
    BY DEF Init, BucketsInit, PromoteInit, IdleJob, CatalogInv, CatalogMatchesSeal, SealFollows,
           Sealed, Promoting
  <2>2. ASSUME IInv, CatalogInv, [Next]_vars PROVE CatalogInv'
    <3>1. CASE ValidatorNext
      BY <1>1, <2>2, <3>1, JobKeepsCatalog DEF IInv, JobInv, ValidatorNext
    <3>2. CASE ~ValidatorNext
      <4>1. UNCHANGED dataVars /\ UNCHANGED jobVars
        BY <2>2, <3>2 DEF Next, Expire, vars
      <4> QED
        BY <2>2, <4>1 DEF CatalogInv, CatalogMatchesSeal, SealFollows, Sealed, Cur, dataVars, jobVars
    <3> QED
      BY <3>1, <3>2
  <2>3. CatalogInv => CatalogMatchesSeal
    BY DEF CatalogInv
  <2> QED
    BY <2>1, <2>2, <2>3, Invariance, PTL DEF Spec
<1>2. CASE ~Overlap
  <2>1. ShelfInv => CatalogMatchesSeal
    <3> SUFFICES ASSUME ShelfInv, NEW v \in Versions, Sealed(v) PROVE catalog[v] = seal[v].root
      BY DEF CatalogMatchesSeal
    <3>1. Shelved(v, dds[v])
      BY DEF ShelfInv, Shown
    <3> QED
      BY <3>1 DEF Shelved, Claims
  <2> QED
    BY <1>2, <2>1, ShelfInvariance, PTL
<1> QED
  BY <1>1, <1>2

-----------------------------------------------------------------------------
(* Verdicts, where nobody names a prefix by hand and landing does not expire. *)

\* Every prefix on the list of a job is whole, and Gate A holds something against it only when it
\* does not pass: no group is found without its manifest, and no entry goes uncounted.
Sure(j) ==
    /\ \A v \in job[j].work : Whole(v)
    /\ job[j].pc # "idle" => ~job[j].incomplete
    /\ job[j].pc = "loadds" => ~job[j].bad /\ job[j].mans = [g \in Groups |-> NoDoc]
    /\ job[j].pc \in {"group", "heads", "profile", "verdict"} => (job[j].bad => ~Passes(Here(j)))
    /\ job[j].pc \in {"heads", "profile"} =>
          job[j].left \subseteq NamesIn(Part(Here(j), Min(job[j].todo)))
    /\ job[j].pc \in {"group", "heads", "profile"} =>
          LET ahead == IF job[j].pc = "group" THEN job[j].todo ELSE job[j].todo \ {Min(job[j].todo)}
          IN  \A g \in Groups : job[j].mans[g] = IF g \in GroupsIn(Here(j)) \ ahead
                                                 THEN Part(Here(j), g) ELSE NoDoc

\* A marker or a seal says what Gate A finds.
Verdict(v) ==
    /\ Sealed(v) \/ "VALIDATED" \in marks[v] => Whole(v) /\ Passes(lds[v])
    /\ "REJECTED" \in marks[v] => Whole(v) /\ ~Passes(lds[v])

VerdictInv == (\A j \in Jobs : Sure(j)) /\ \A v \in Versions : Verdict(v)

\* A job that turns to whole prefixes knows nothing against them.
LEMMA FreshIsSure ==
    ASSUME JobGood, NEW j \in Jobs, NEW w \in SUBSET Versions, \A v \in w : Whole(v)',
           job' = [job EXCEPT ![j] = Begin(w)] \/ Die(j)
    PROVE  Sure(j)'
<1>1. /\ IdleJob.pc = "idle" /\ IdleJob.work = {}
      /\ w = {} => Begin(w) = IdleJob
      /\ w # {} => /\ Begin(w).pc = "loadds" /\ Begin(w).work = w /\ ~Begin(w).bad
                   /\ ~Begin(w).incomplete /\ Begin(w).mans = [g \in Groups |-> NoDoc]
  BY DEF Begin, IdleJob
<1>2. job'[j] \in {Begin(w), IdleJob}
  BY DEF JobGood, Die
<1> QED
  BY <1>1, <1>2 DEF Sure

\* Gate A finds only what is wrong.
LEMMA GateAIsSure ==
    ASSUME PubGood, JobInv, LandingInv, Named = {}, NEW j \in Jobs, Judged(j), Sure(j),
           Discover(j) \/ RunNamed(j) \/ GateAStep(j) \/ JobCrash(j)
    PROVE  Sure(j)'
<1> DEFINE me == job[j]
<1>0. /\ me \in JobRecs /\ me \in JobStates /\ JobGood /\ LandingTypeOK
      /\ me.work \in SUBSET Versions /\ UNCHANGED <<lds, lman, lobj>>
      /\ me.todo \in SUBSET Groups /\ me.mans \in [Groups -> Docs] /\ job \in [Jobs -> JobRecs]
  BY JobsOnlyMark DEF JobInv, JobGood, JobRecs, JobStates, PubGood, JobStep
<1>whole. \A v \in Versions : Whole(v)' <=> Whole(v)
  BY <1>0 DEF Whole
<1>1. CASE Discover(j)
  <2>1. \A v \in Pending : v \in Versions /\ Whole(v)
    BY <1>0, AllManifests DEF Pending, LandingInv
  <2> QED
    BY <1>0, <1>1, <1>whole, <2>1, FreshIsSure DEF Discover
<1>2. CASE RunNamed(j)
  BY <1>2 DEF RunNamed
<1>3. CASE JobCrash(j)
  BY <1>0, <1>3, FreshIsSure DEF JobCrash
<1>4. CASE LeaveIncomplete(j) \/ Reject(j)
  <2>1. job' = [job EXCEPT ![j] = Begin(me.work \ {Cur(j)})]
    BY <1>4 DEF LeaveIncomplete, Reject, ProcessNext
  <2>2. \A v \in me.work \ {Cur(j)} : Whole(v)'
    BY <1>0, <1>whole DEF Sure
  <2> QED
    BY <1>0, <2>1, <2>2, FreshIsSure
<1>5. CASE \/ LoadDs(j) \/ LoadManifest(j) \/ HeadEntry(j) \/ ListGroup(j) \/ SampleEntry(j)
           \/ EndGroup(j) \/ Sweep(j)
  <2>0. me.pc # "idle"
    BY <1>5 DEF LoadDs, LoadManifest, HeadEntry, ListGroup, SampleEntry, EndGroup, Sweep
  <2>1. PICK v \in Versions : v = Cur(j) /\ v \in me.work /\ Whole(v)
    BY <1>0, <2>0, CurIsWork DEF Sure
  <2>2. PICK t \in Trees : /\ t = lds[v] /\ t # NoDoc /\ lobj[v] = t
                           /\ \A g \in GroupsIn(t) : lman[v][g] = Part(t, g)
    BY <2>1, BucketsAssumption DEF Whole
  <2>3. /\ GroupsIn(t) \subseteq Groups /\ lds' = lds
        /\ \A g \in Groups : Part(t, g) \in Trees /\ Part(t, g) # NoDoc
    BY <1>0, TreeFacts, BucketsAssumption
  \* A successor of me that is still at work on v.
  <2>next. ASSUME NEW r, job' = [job EXCEPT ![j] = r], r.work = me.work,
                  r.incomplete = me.incomplete,
                  r.pc \in {"group", "heads", "profile", "verdict"},
                  r.bad => ~Passes(t),
                  r.pc \in {"heads", "profile"} => r.left \subseteq NamesIn(Part(t, Min(r.todo))),
                  r.pc = "group" => \A g \in Groups : r.mans[g] = IF g \in GroupsIn(t) \ r.todo
                                                                  THEN Part(t, g) ELSE NoDoc,
                  r.pc \in {"heads", "profile"} => \A g \in Groups :
                      r.mans[g] = IF g \in GroupsIn(t) \ (r.todo \ {Min(r.todo)})
                                  THEN Part(t, g) ELSE NoDoc
           PROVE  Sure(j)'
    <3>1. job'[j] = r /\ Cur(j)' = v /\ Here(j)' = t
      BY <1>0, <2>1, <2>2, <2>3, <2>next DEF Cur, Here
    <3>2. \A w \in r.work : Whole(w)'
      BY <1>0, <1>whole, <2>next DEF Sure
    <3>3. ~r.incomplete
      BY <2>0, <2>next DEF Sure
    <3> QED
      BY <2>next, <3>1, <3>2, <3>3 DEF Sure, Passes, PassesGroup
  <2>4. CASE LoadDs(j)
    <3> DEFINE r == [me EXCEPT !.ds = t, !.todo = GroupsIn(t), !.pc = "group"]
    <3>1. job' = [job EXCEPT ![j] = r] /\ me.pc = "loadds"
      BY <2>1, <2>2, <2>4 DEF LoadDs
    <3>2. /\ r.work = me.work /\ r.incomplete = me.incomplete /\ r.pc = "group"
          /\ r.bad = me.bad /\ r.mans = me.mans /\ r.todo = GroupsIn(t)
      BY <1>0 DEF JobStates
    <3> HIDE DEF r
    <3>3. ~me.bad /\ \A g \in Groups : me.mans[g] = NoDoc
      BY <3>1 DEF Sure
    <3>4. \A g \in Groups : r.mans[g] = IF g \in GroupsIn(t) \ r.todo THEN Part(t, g) ELSE NoDoc
      BY <3>2, <3>3
    <3> QED
      BY <2>next, <3>1, <3>2, <3>3, <3>4
  <2>5. CASE LoadManifest(j)
    <3>0. /\ me.pc = "group" /\ me.ds = t /\ me.todo \subseteq GroupsIn(t) /\ me.todo # {}
          /\ me.bad => ~Passes(t)
          /\ \A h \in Groups : me.mans[h] = IF h \in GroupsIn(t) \ me.todo
                                            THEN Part(t, h) ELSE NoDoc
      BY <2>1, <2>2, <2>5 DEF LoadManifest, Judged, Sure, Here
    <3>1. PICK g \in Groups : g \in me.todo /\ g = Min(me.todo)
      BY <1>0, <3>0, MinOfGroups
    <3>2. PICK m : m = Part(t, g) /\ m = lman[v][g] /\ m # NoDoc /\ m \in Docs
      BY <2>2, <2>3, <3>0, <3>1 DEF Docs
    <3> DEFINE r == [me EXCEPT !.mans[g] = m, !.pc = "heads", !.left = NamesIn(m),
                       !.bad = @ \/ m # Part(me.ds, g)]
    <3>3. job' = [job EXCEPT ![j] = r]
      BY <2>1, <2>5, <3>1, <3>2 DEF LoadManifest
    <3>4. /\ r.work = me.work /\ r.incomplete = me.incomplete /\ r.pc = "heads"
          /\ r.mans = [me.mans EXCEPT ![g] = m] /\ r.todo = me.todo
          /\ r.left = NamesIn(m) /\ (r.bad => me.bad)
      BY <1>0, <3>0, <3>2 DEF JobStates
    <3> HIDE DEF r
    <3>5. \A h \in Groups : r.mans[h] = IF h \in GroupsIn(t) \ (r.todo \ {Min(r.todo)})
                                        THEN Part(t, h) ELSE NoDoc
      BY <1>0, <3>0, <3>1, <3>2, <3>4
    <3>6. r.left \subseteq NamesIn(Part(t, Min(r.todo)))
      BY <3>1, <3>2, <3>4
    <3>7. r.bad => ~Passes(t)
      BY <3>0, <3>4
    <3> QED
      BY <2>next, <3>3, <3>4, <3>5, <3>6, <3>7
  <2>6. CASE HeadEntry(j) \/ ListGroup(j) \/ SampleEntry(j) \/ EndGroup(j)
    <3>0. /\ me.pc \in {"heads", "profile"} /\ me.todo \subseteq GroupsIn(t) /\ me.todo # {}
          /\ me.left \subseteq NamesIn(Part(t, Min(me.todo)))
          /\ me.bad => ~Passes(t)
          /\ \A h \in Groups : me.mans[h] = IF h \in GroupsIn(t) \ (me.todo \ {Min(me.todo)})
                                            THEN Part(t, h) ELSE NoDoc
      BY <1>0, <2>1, <2>2, <2>6
         DEF HeadEntry, ListGroup, SampleEntry, EndGroup, Judged, Sure, Here, JobRecs
    <3>1. PICK g \in Groups : g \in me.todo /\ g = Min(me.todo)
      BY <1>0, <3>0, MinOfGroups
    <3>2. me.mans[g] = Part(t, g) /\ NamesIn(Part(t, g)) = {f \in NamesIn(t) : GroupOf[f] = g}
      BY <3>0, <3>1 DEF NamesIn, Part
    <3>3. PICK r \in JobRecs :
            /\ job' = [job EXCEPT ![j] = r]
            /\ r.work = me.work /\ r.ds = me.ds /\ r.mans = me.mans
            /\ r.incomplete = me.incomplete /\ (me.bad => r.bad)
            /\ r.pc \in {"heads", "profile", "group"}
      BY <2>6, GroupStep
    <3>4. job'[j] = r
      BY <1>0, <3>3
    <3>5. ASSUME ~PassesGroup(t, g) PROVE ~Passes(t)
      BY <3>5 DEF Passes
    <3>6. CASE EndGroup(j)
      <4>1. r.todo = me.todo \ {g} /\ r.pc = "group" /\ r.bad = me.bad
        BY <1>0, <3>1, <3>4, <3>6 DEF EndGroup, JobStates
      <4>2. \A h \in Groups : r.mans[h] = IF h \in GroupsIn(t) \ r.todo THEN Part(t, h) ELSE NoDoc
        BY <3>0, <3>1, <3>3, <4>1
      <4> QED
        BY <2>next, <3>0, <3>3, <4>1, <4>2
    <3>7. CASE HeadEntry(j) \/ ListGroup(j) \/ SampleEntry(j)
      <4>1. /\ r.todo = me.todo /\ r.pc \in {"heads", "profile"}
            /\ r.left \subseteq NamesIn(Part(t, g)) /\ (r.bad => ~Passes(t))
        <5>1. CASE HeadEntry(j)
          <6>1. me.left # {} /\ me.left \subseteq Files
            BY <1>0, <5>1 DEF HeadEntry, JobStates
          <6>2. PICK f \in me.left : f = Min(me.left)
            BY <6>1, MinOfFiles
          <6>3. /\ job'[j].todo = me.todo /\ job'[j].pc = "heads" /\ job'[j].left = me.left \ {f}
                /\ job'[j].bad = \/ me.bad \/ lobj[v][f] = Absent
                                 \/ SizeOf[lobj[v][f]] # SizeOf[me.mans[g][f]]
            BY <1>0, <2>1, <3>1, <5>1, <6>2 DEF HeadEntry, JobStates
          <6>4. lobj[v][f] # Absent /\ me.mans[g][f] = lobj[v][f]
            BY <2>2, <3>0, <3>1, <3>2, <6>2 DEF NamesIn, Part
          <6> QED
            BY <3>0, <3>1, <3>4, <6>3, <6>4
        <5>2. CASE ListGroup(j)
          <6>1. /\ job'[j].todo = me.todo /\ job'[j].pc = "profile"
                /\ job'[j].left = NamesIn(me.mans[g])
                /\ job'[j].bad = (me.bad \/ ~Exhaustive(v, g, me.mans[g]))
            BY <1>0, <2>1, <3>1, <5>2 DEF ListGroup, JobStates
          <6>2. ~Exhaustive(v, g, Part(t, g)) => ~PassesGroup(t, g)
            BY <2>2, CheckIsExact DEF Sampled, PassesGroup
          <6> QED
            BY <3>0, <3>2, <3>4, <3>5, <6>1, <6>2
        <5>3. CASE SampleEntry(j)
          <6>1. me.left # {} /\ me.left \subseteq Files
            BY <1>0, <5>3 DEF SampleEntry, JobStates
          <6>2. PICK f \in me.left : f = Min(me.left)
            BY <6>1, MinOfFiles
          <6>3. /\ job'[j].todo = me.todo /\ job'[j].pc = "profile"
                /\ job'[j].left = me.left \ {f}
                /\ job'[j].bad = (me.bad \/ lobj[v][f] \in Unfit \cup {Absent})
            BY <1>0, <2>1, <5>3, <6>2 DEF SampleEntry, JobStates
          <6>4. f \in NamesIn(t) /\ GroupOf[f] = g /\ lobj[v][f] = t[f] /\ t[f] # Absent
            BY <2>2, <3>0, <3>1, <3>2, <6>2 DEF NamesIn
          <6>5. t[f] \in Unfit => ~PassesGroup(t, g)
            BY <6>4 DEF PassesGroup
          <6> QED
            BY <3>0, <3>1, <3>4, <3>5, <6>3, <6>4, <6>5
        <5> QED
          BY <3>7, <5>1, <5>2, <5>3
      <4> QED
        BY <2>next, <3>0, <3>1, <3>3, <4>1
    <3> QED
      BY <2>6, <3>6, <3>7
  <2>7. CASE Sweep(j)
    <3>0. /\ me.pc = "group" /\ me.ds = t /\ me.todo = {}
          /\ me.bad => ~Passes(t)
          /\ \A h \in Groups : me.mans[h] = IF h \in GroupsIn(t) THEN Part(t, h) ELSE NoDoc
      BY <2>1, <2>2, <2>7 DEF Sweep, Judged, Sure, Here
    <3>1. Listed(j) = NamesIn(t)
      BY <2>3, <3>0, ListedIsNamed
    <3> DEFINE r == [me EXCEPT !.pc = "verdict",
                       !.bad = @ \/ (/\ ~me.incomplete
                                     /\ \/ ~(NamesIn(lobj[v]) \subseteq Listed(j))
                                        \/ Cardinality(Listed(j)) # Cardinality(NamesIn(me.ds)))]
    <3>2. job' = [job EXCEPT ![j] = r]
      BY <2>1, <2>7 DEF Sweep
    <3>3. /\ r.work = me.work /\ r.incomplete = me.incomplete /\ r.pc = "verdict"
          /\ r.bad => me.bad
      BY <1>0, <2>2, <3>0, <3>1 DEF JobStates
    <3> HIDE DEF r
    <3> QED
      BY <2>next, <3>0, <3>2, <3>3
  <2> QED
    BY <1>5, <2>4, <2>5, <2>6, <2>7
<1> QED
  BY <1>1, <1>2, <1>3, <1>4, <1>5 DEF GateAStep

\* promote() stays with its version or turns to the rest of its list.
LEMMA PromoteIsSure ==
    ASSUME JobGood, NEW j \in Jobs, PromoteStep(j), Sure(j), UNCHANGED <<lds, lman, lobj>>
    PROVE  Sure(j)'
<1> DEFINE me == job[j]
<1>0. me \in JobStates /\ job \in [Jobs -> JobRecs]
  BY DEF JobGood, JobRecs
<1>whole. \A v \in me.work : Whole(v)'
  BY DEF Whole, Sure
<1>die. ASSUME Die(j) PROVE Sure(j)'
  <2>1. {} \in SUBSET Versions /\ \A v \in {} : Whole(v)'
    OBVIOUS
  <2> QED
    BY <1>die, <2>1, FreshIsSure
<1>stay. ASSUME me.pc # "idle", job'[j].work = me.work, job'[j].incomplete = me.incomplete,
                job'[j].pc \in {"reloadds"} \cup Promoting
         PROVE  Sure(j)'
  BY <1>whole, <1>stay DEF Sure, Promoting
<1>1. CASE MarkValidated(j)
  <2>1. job' = [job EXCEPT ![j] = Begin(me.work \ {Cur(j)})]
    BY <1>1 DEF MarkValidated, ProcessNext
  <2>2. me.work \ {Cur(j)} \in SUBSET Versions
    BY <1>0 DEF JobStates
  <2> QED
    BY <1>whole, <2>1, <2>2, FreshIsSure
<1>2. CASE CheckSeal(j)
  BY <1>0, <1>2, <1>die, <1>stay DEF CheckSeal, JobStates
<1>3. CASE ReloadDs(j)
  BY <1>0, <1>3, <1>die, <1>stay DEF ReloadDs, JobStates, Promoting
<1>4. CASE ReloadManifest(j)
  <2> DEFINE g == Min(me.todo)
             m == lman[Cur(j)][g]
             r == [me EXCEPT !.mans[g] = m, !.todo = @ \ {g},
                     !.keys = @ \cup {ManKey(g)} \cup {ObjKey(f) : f \in NamesIn(m)},
                     !.pc = IF me.todo = {g} THEN "copy" ELSE @]
  <2>1. me.pc = "reloadmans" /\ (Die(j) \/ job' = [job EXCEPT ![j] = r])
    BY <1>4 DEF ReloadManifest
  <2>2. r.work = me.work /\ r.incomplete = me.incomplete /\ r.pc \in {"copy", "reloadmans"}
    BY <1>0, <2>1 DEF JobStates
  <2> HIDE DEF r
  <2> QED
    BY <1>0, <1>die, <1>stay, <2>1, <2>2 DEF Promoting
<1>5. CASE CopyDs(j) \/ CopyManifest(j) \/ CopyPayload(j)
  <2>1. me.pc = "copy" /\ (Die(j) \/ \E k : Copied(j, k))
    BY <1>5 DEF CopyDs, CopyManifest, CopyPayload
  <2>2. ASSUME NEW k, Copied(j, k)
        PROVE  /\ job'[j].work = me.work /\ job'[j].incomplete = me.incomplete
               /\ job'[j].pc \in {"copy", "crcs"}
    BY <1>0, <2>1, <2>2 DEF Copied, JobStates
  <2> QED
    BY <1>die, <1>stay, <2>1, <2>2 DEF Promoting
<1>6. CASE HeadCrc(j) \/ ReadRoot(j) \/ PutCatalog(j) \/ PutSeal(j)
  <2>1. me.pc # "idle"
    BY <1>6 DEF HeadCrc, ReadRoot, PutCatalog, PutSeal
  <2>2. job'[j].work = me.work /\ job'[j].incomplete = me.incomplete /\ job'[j].pc \in Promoting
    <3>1. CASE HeadCrc(j)
      <4>1. job'[j].work = me.work /\ job'[j].incomplete = me.incomplete /\ job'[j].pc = me.pc
        BY <1>0, <3>1 DEF HeadCrc, JobStates
      <4> QED
        BY <3>1, <4>1 DEF HeadCrc, Promoting
    <3>2. CASE ReadRoot(j) \/ PutCatalog(j) \/ PutSeal(j)
      BY <1>0, <3>2 DEF ReadRoot, PutCatalog, PutSeal, JobStates, Promoting
    <3> QED
      BY <1>6, <3>1, <3>2
  <2> QED
    BY <1>stay, <2>1, <2>2
<1> QED
  BY <1>1, <1>2, <1>3, <1>4, <1>5, <1>6 DEF PromoteStep

\* What a job is sure of stays while it does not move.
LEMMA SureStays ==
    ASSUME PubGood, JobGood, NEW j \in Jobs, Sure(j), job'[j] = job[j], LandingInv',
           \A v \in Versions : DocumentsKept(v)
    PROVE  Sure(j)'
<1>1. CASE job[j].pc = "idle"
  <2>1. \A v \in job[j].work : Whole(v)' /\ lds'[v] = lds[v]
    <3>1. job[j].work \subseteq Versions
      BY DEF JobGood, JobRecs, JobStates
    <3> QED
      BY <3>1, WholeStays DEF PubGood, LandingInv, Sure
  <2> QED
    BY <1>1, <2>1 DEF Sure
<1>2. CASE job[j].pc # "idle"
  <2>1. job[j].work \subseteq Versions /\ Cur(j) \in job[j].work /\ Cur(j)' = Cur(j)
    BY <1>2, CurIsWork DEF JobGood, JobRecs, JobStates, Cur
  <2>2. \A v \in job[j].work : Whole(v)' /\ lds'[v] = lds[v]
    BY <2>1, WholeStays DEF PubGood, LandingInv, Sure
  <2>3. Here(j)' = Here(j)
    BY <2>1, <2>2 DEF Here
  <2> QED
    BY <2>1, <2>2, <2>3 DEF Sure, Passes, PassesGroup
<1> QED
  BY <1>1, <1>2

\* A verdict stands while the version keeps its documents, and nothing is sealed or marked.
LEMMA VerdictStays ==
    ASSUME PubGood, NEW v \in Versions, Verdict(v), DocumentsKept(v), Settled(v)',
           Sealed(v)' => Sealed(v), marks'[v] \subseteq marks[v]
    PROVE  Verdict(v)'
<1>1. Whole(v) => Whole(v)' /\ lds'[v] = lds[v]
  BY WholeStays DEF PubGood
<1> QED
  BY <1>1 DEF Verdict, Passes, PassesGroup

\* Jobs only give right verdicts.
LEMMA JobsJudgeRight ==
    ASSUME PubGood, JobInv, LandingInv, WorkInv, VerdictInv, LandingInv', Named = {},
           NEW j \in Jobs, JobStep(j) \/ RunNamed(j) \/ JobCrash(j), OnePlaceMoves
    PROVE  VerdictInv'
<1>0. /\ JobGood /\ UNCHANGED <<lds, lman, lobj>> /\ Judged(j) /\ Bound(j) /\ Sure(j)
      /\ \A v \in Versions : DocumentsKept(v) /\ Verdict(v) /\ (Settled(v)')
      /\ \A v \in Versions : (Whole(v)' <=> Whole(v))
      /\ marks \in [Versions -> SUBSET Marks] /\ DataTypeOK
  <2>1. UNCHANGED <<lds, lman, lobj>>
    BY JobsOnlyMark
  <2> QED
    BY <2>1 DEF JobInv, WorkInv, VerdictInv, DocumentsKept, LandingInv, Whole, PubGood, LandingTypeOK,
                JobGood
<1>1. Sure(j)'
  BY <1>0, GateAIsSure, PromoteIsSure DEF JobStep
<1>2. \A k \in Jobs \ {j} : Sure(k)'
  BY <1>0, OneJobAtATime, SureStays DEF VerdictInv
<1>3. ASSUME NEW v \in Versions PROVE Verdict(v)'
  <2>1. CASE MarkValidated(j)
    <3>1. /\ UNCHANGED seal /\ Whole(Cur(j)) /\ Passes(Here(j))
          /\ marks' = [marks EXCEPT ![Cur(j)] = @ \cup {"VALIDATED"}]
      BY <1>0, <2>1 DEF MarkValidated, Bound, Promoting, dataVars
    <3> QED
      BY <1>0, <3>1 DEF Verdict, Sealed, Here, Passes, PassesGroup
  <2>2. CASE Reject(j)
    <3>1. /\ UNCHANGED seal /\ ~Passes(Here(j)) /\ Cur(j) \in job[j].work
          /\ marks' = [marks EXCEPT ![Cur(j)] = @ \cup {"REJECTED"}]
      BY <1>0, <2>2, CurIsWork DEF Reject, Sure, dataVars
    <3>2. Whole(Cur(j))
      BY <1>0, <3>1 DEF Sure
    <3> QED
      BY <1>0, <3>1, <3>2 DEF Verdict, Sealed, Here, Passes, PassesGroup
  <2>3. CASE ~MarkValidated(j) /\ ~Reject(j)
    <3>1. UNCHANGED marks
      BY <2>3, OnlyVerdictsMark
    <3>2. CASE Sealed(v)' => Sealed(v)
      BY <1>0, <3>1, <3>2, VerdictStays
    <3>3. CASE ~Sealed(v) /\ Sealed(v)'
      <4>1. ~Still(v)
        BY <3>3 DEF Still, SealKept, Claims, Sealed
      <4>2. Whole(v) /\ Passes(lds[v])
        BY <4>1 DEF OnePlaceMoves
      <4> QED
        BY <1>0, <3>1, <4>2 DEF Verdict, Passes, PassesGroup
    <3> QED
      BY <3>2, <3>3
  <2> QED
    BY <2>1, <2>2, <2>3
<1> QED
  BY <1>1, <1>2, <1>3 DEF VerdictInv

\* Every step keeps the verdicts right.
LEMMA NextVerdict ==
    ASSUME ~Overlap, Named = {}, ~Expiry, PubGood, JobInv, LandingInv, WorkInv, VerdictInv,
           LandingInv', OnePlaceMoves, [Next]_vars
    PROVE  VerdictInv'
<1>1. CASE ValidatorNext
  BY <1>1, JobsJudgeRight DEF ValidatorNext
<1>2. CASE (PublishNext /\ UNCHANGED <<dataVars, jobVars>>) \/ UNCHANGED vars
  <2>1. UNCHANGED marks /\ UNCHANGED seal /\ UNCHANGED job
    BY <1>2, ProducersMarkNothing DEF PublishNext, dataVars, jobVars, landingVars, vars
  <2>2. \A v \in Versions : DocumentsKept(v)
    BY <1>2, RunsKeepDocuments DEF PublishNext, vars, landingVars, DocumentsKept
  <2>3. \A k \in Jobs : Sure(k)'
    BY <2>1, <2>2, SureStays DEF VerdictInv, JobInv
  <2>4. \A v \in Versions : Verdict(v)'
    BY <2>1, <2>2, VerdictStays DEF VerdictInv, LandingInv, Sealed
  <2> QED
    BY <2>3, <2>4 DEF VerdictInv
<1> QED
  BY <1>1, <1>2 DEF Next, Expire

\* Nothing is judged at first.
LEMMA InitVerdict == Init => VerdictInv
<1> SUFFICES ASSUME Init PROVE VerdictInv
  OBVIOUS
<1>1. /\ \A j \in Jobs : job[j].pc = "idle" /\ job[j].work = {}
      /\ \A v \in Versions : ~Sealed(v) /\ marks[v] = {}
  BY DEF Init, BucketsInit, PromoteInit, IdleJob, Sealed
<1> QED
  BY <1>1 DEF VerdictInv, Sure, Verdict

\* One version, one verdict: where publications do not overlap, nobody names a prefix by hand and
\* landing does not expire, a rejected version is never validated nor readable, however many jobs
\* judge it.
THEOREM VerdictsAgree == ASSUME ~Overlap, Named = {}, ~Expiry PROVE Spec => []OneVerdict
<1>1. IInv /\ LandingInv /\ ShelfInv /\ VerdictInv /\ [Next]_vars => VerdictInv'
  <2> SUFFICES ASSUME IInv, LandingInv, ShelfInv, VerdictInv, [Next]_vars PROVE VerdictInv'
    OBVIOUS
  <2>1. LandingInv' /\ OnePlaceMoves
    BY NextShelf, NextLanding DEF IInv
  <2> QED
    BY <2>1, NextVerdict DEF IInv, ShelfInv
<1>2. VerdictInv => OneVerdict
  BY DEF VerdictInv, Verdict, OneVerdict
<1> QED
  BY <1>1, <1>2, InitVerdict, Invariance, LandingInvariance, ShelfInvariance, PTL DEF Spec

-----------------------------------------------------------------------------
(* One decay. *)

\* What one decay, of the kind `what`, may do to the version v.
Wears(what, v) ==
    /\ \/ seal'[v] = seal[v]
       \/ what = "seal-gone" /\ seal'[v] = NoDoc
    /\ \/ dds'[v] = dds[v]
       \/ what = "dataset-json-gone" /\ dds'[v] = NoDoc
       \/ what = "dataset-rewritten" /\ dds'[v] # NoDoc
    /\ \A g \in Groups :
          \/ dman'[v][g] = dman[v][g]
          \/ what = "manifest-gone" /\ dman'[v][g] = NoDoc
          \/ what = "manifest-rewritten" /\ dman[v][g] # NoDoc /\ dman'[v][g] # NoDoc
    /\ \A f \in Files :
          \/ dobj'[v][f] = dobj[v][f]
          \/ what = "object-gone" /\ dobj'[v][f] = Absent
          \/ /\ what \in {"object-content-changed", "object-resized"}
             /\ dobj[v][f] # Absent /\ dobj'[v][f] # Absent
             /\ what = "object-content-changed" <=> SizeOf[dobj'[v][f]] = SizeOf[dobj[v][f]]

\* What it does for certain.
Bites(what, v) ==
    /\ what = "dataset-json-gone" => dds'[v] = NoDoc
    /\ what = "manifest-gone" => \E g \in Groups : dman[v][g] # NoDoc /\ dman'[v][g] = NoDoc
    /\ what = "object-gone" => \E f \in Files : dobj[v][f] # Absent /\ dobj'[v][f] = Absent
    /\ what \in {"object-content-changed", "object-resized"} =>
          \E f \in Files :
             /\ dobj[v][f] # Absent /\ dobj'[v][f] \notin {Absent, dobj[v][f]}
             /\ what = "object-resized" => SizeOf[dobj'[v][f]] # SizeOf[dobj[v][f]]

\* A decay wears one old version, once in its kind.
OneDecay(what, v) ==
    /\ Old(v)
    /\ <<what, v>> \notin decays
    /\ decays' = decays \cup {<<what, v>>}
    /\ UNCHANGED <<landingVars, pubVars, jobVars, catalog>>
    /\ DataTypeOK'
    /\ \A w \in Versions \ {v} : Still(w)
    /\ Wears(what, v) /\ Bites(what, v)

\* What an edit makes of a tree is a tree.
LEMMA EditsAreTrees ==
    ASSUME NEW t \in Trees, NEW n \in SUBSET Files PROVE Edits(t, n) \subseteq Trees
  BY DEF Edits, Trees

\* Whatever decays, it is one document or object of one version.
LEMMA DecaysOnce ==
    ASSUME JobGood, DecayNext
    PROVE  \E v \in Versions, what \in Decays : OneDecay(what, v)
<1>1. PICK v \in Versions :
        \/ LoseDataset(v) \/ LoseManifest(v) \/ LoseSeal(v) \/ LoseObject(v)
        \/ Overwrite(v) \/ RewriteDataset(v) \/ RewriteManifest(v)
  BY DEF DecayNext
<1>0. /\ DataTypeOK
      /\ dman[v] \in [Groups -> Docs] /\ dobj[v] \in [Files -> Contents \cup {Absent}]
  BY DEF JobGood, DataTypeOK, Trees
\* It is enough to look at the one variable that changes.
<1>frame. ASSUME NEW what \in Decays, Decayed(what, v), DataTypeOK', Wears(what, v), Bites(what, v),
                 \A w \in Versions \ {v} : /\ dds'[w] = dds[w] /\ seal'[w] = seal[w]
                                           /\ dman'[w] = dman[w] /\ dobj'[w] = dobj[w]
          PROVE  OneDecay(what, v)
  BY <1>frame DEF OneDecay, Decayed, Still, SealKept
<1>2. CASE LoseDataset(v)
  <2>1. DataTypeOK'
    BY <1>0, <1>2 DEF LoseDataset, Decayed, DataTypeOK, Docs
  <2>2. Wears("dataset-json-gone", v) /\ Bites("dataset-json-gone", v)
    BY <1>0, <1>2 DEF LoseDataset, Wears, Bites, DataTypeOK
  <2> QED
    BY <1>0, <1>2, <1>frame, <2>1, <2>2 DEF LoseDataset, DataTypeOK, Decays, Codes
<1>3. CASE LoseManifest(v)
  <2>1. PICK g \in Groups : dman[v][g] # NoDoc /\ dman' = [dman EXCEPT ![v][g] = NoDoc]
    BY <1>3 DEF LoseManifest
  <2>2. DataTypeOK'
    BY <1>0, <1>3, <2>1 DEF LoseManifest, Decayed, DataTypeOK, Docs
  <2>3. Wears("manifest-gone", v) /\ Bites("manifest-gone", v)
    BY <1>0, <1>3, <2>1 DEF LoseManifest, Wears, Bites, DataTypeOK
  <2> QED
    BY <1>0, <1>3, <1>frame, <2>1, <2>2, <2>3 DEF LoseManifest, DataTypeOK, Decays, Codes
<1>4. CASE LoseSeal(v)
  <2>1. DataTypeOK'
    BY <1>0, <1>4 DEF LoseSeal, Decayed, DataTypeOK
  <2>2. Wears("seal-gone", v) /\ Bites("seal-gone", v)
    BY <1>0, <1>4 DEF LoseSeal, Wears, Bites, DataTypeOK
  <2> QED
    BY <1>0, <1>4, <1>frame, <2>1, <2>2 DEF LoseSeal, DataTypeOK, Decays
<1>5. CASE LoseObject(v)
  <2>1. PICK f \in Files : dobj[v][f] # Absent /\ dobj' = [dobj EXCEPT ![v][f] = Absent]
    BY <1>5 DEF LoseObject, NamesIn
  <2>2. dobj' \in [Versions -> Trees]
    BY <1>0, <2>1 DEF DataTypeOK, Trees
  <2>3. DataTypeOK'
    BY <1>0, <1>5, <2>2 DEF LoseObject, Decayed, DataTypeOK
  <2>4. Wears("object-gone", v) /\ Bites("object-gone", v)
    BY <1>0, <1>5, <2>1 DEF LoseObject, Wears, Bites, DataTypeOK
  <2> QED
    BY <1>0, <1>5, <1>frame, <2>1, <2>3, <2>4 DEF LoseObject, DataTypeOK, Decays, Codes
<1>6. CASE Overwrite(v)
  <2>0. PICK f \in NamesIn(dobj[v]) : \E k \in Contents \ {dobj[v][f]} :
          /\ Decayed(IF SizeOf[k] = SizeOf[dobj[v][f]] THEN "object-content-changed"
                     ELSE "object-resized", v)
          /\ dobj' = [dobj EXCEPT ![v][f] = k]
    BY <1>6 DEF Overwrite
  <2>1. PICK k \in Contents \ {dobj[v][f]} :
          /\ Decayed(IF SizeOf[k] = SizeOf[dobj[v][f]] THEN "object-content-changed"
                     ELSE "object-resized", v)
          /\ dobj' = [dobj EXCEPT ![v][f] = k]
    BY <2>0
  <2>2. PICK what : what = IF SizeOf[k] = SizeOf[dobj[v][f]] THEN "object-content-changed"
                           ELSE "object-resized"
    OBVIOUS
  <2>3. f \in Files /\ dobj[v][f] # Absent /\ k # Absent /\ what \in Decays /\ Decayed(what, v)
    BY <2>1, <2>2, BucketsAssumption DEF NamesIn, Decays, Codes
  <2>4. dobj' \in [Versions -> Trees]
    BY <1>0, <2>1 DEF DataTypeOK, Trees
  <2>5. DataTypeOK'
    BY <1>0, <1>6, <2>3, <2>4 DEF Overwrite, Decayed, DataTypeOK
  <2>6. Wears(what, v) /\ Bites(what, v)
    BY <1>0, <1>6, <2>1, <2>2, <2>3 DEF Overwrite, Wears, Bites, DataTypeOK
  <2> QED
    BY <1>0, <1>6, <1>frame, <2>1, <2>3, <2>5, <2>6 DEF Overwrite, DataTypeOK
<1>7. CASE RewriteDataset(v)
  <2>1. PICK t \in Edits(dds[v], Files) : dds' = [dds EXCEPT ![v] = t]
    BY <1>7 DEF RewriteDataset
  <2>2. dds[v] \in Trees
    BY <1>0, <1>7 DEF RewriteDataset, DataTypeOK, Docs
  <2>3. t \in Trees /\ t # NoDoc
    BY <2>1, <2>2, EditsAreTrees, BucketsAssumption
  <2>4. DataTypeOK'
    BY <1>0, <1>7, <2>1, <2>3 DEF RewriteDataset, Decayed, DataTypeOK, Docs
  <2>5. Wears("dataset-rewritten", v) /\ Bites("dataset-rewritten", v)
    BY <1>0, <1>7, <2>1, <2>3 DEF RewriteDataset, Wears, Bites, DataTypeOK
  <2> QED
    BY <1>0, <1>7, <1>frame, <2>1, <2>4, <2>5 DEF RewriteDataset, DataTypeOK, Decays, Rewritten
<1>8. CASE RewriteManifest(v)
  <2>1. PICK g \in Groups : /\ dman[v][g] # NoDoc
                            /\ \E t \in Edits(dman[v][g], {f \in Files : GroupOf[f] = g}) :
                                  dman' = [dman EXCEPT ![v][g] = t]
    BY <1>8 DEF RewriteManifest
  <2>2. PICK t \in Edits(dman[v][g], {f \in Files : GroupOf[f] = g}) :
          dman' = [dman EXCEPT ![v][g] = t]
    BY <2>1
  <2>3. dman[v][g] \in Trees
    BY <1>0, <2>1 DEF Docs
  <2>4. t \in Trees /\ t # NoDoc
    BY <2>2, <2>3, EditsAreTrees, BucketsAssumption
  <2>5. DataTypeOK'
    BY <1>0, <1>8, <2>2, <2>4 DEF RewriteManifest, Decayed, DataTypeOK, Docs
  <2>6. Wears("manifest-rewritten", v) /\ Bites("manifest-rewritten", v)
    BY <1>0, <1>8, <2>1, <2>2, <2>4 DEF RewriteManifest, Wears, Bites, DataTypeOK
  <2> QED
    BY <1>0, <1>8, <1>frame, <2>2, <2>5, <2>6 DEF RewriteManifest, DataTypeOK, Decays, Rewritten
<1> QED
  BY <1>1, <1>2, <1>3, <1>4, <1>5, <1>6, <1>7, <1>8

-----------------------------------------------------------------------------
(* The airlock keeps its order. *)

\* What the proofs know of producers, landing and jobs; nothing in it is about old versions.
Order == PubGood /\ JobInv /\ LandingInv /\ WorkInv

\* The order holds at first.
LEMMA InitOrder == Init => Order
  BY InitIInv, InitLanding, InitShelf DEF IInv, ShelfInv, Order

\* Every step of the airlock keeps the order.
LEMMA NextOrder ==
    ASSUME ~Overlap, Order, [Next]_vars PROVE Order' /\ OnePlaceMoves
  BY NextGood, NextLanding, NextWork DEF Order

\* A decay keeps the order: no job is at work on the version that decays.
LEMMA DecayOrder ==
    ASSUME Order, NEW v \in Versions, NEW what, OneDecay(what, v) PROVE Order'
<1>0. /\ UNCHANGED <<landingVars, pubVars, jobVars, catalog>> /\ DataTypeOK'
      /\ \A j \in Jobs : v \notin job[j].work
      /\ \A w \in Versions \ {v} : Still(w)
  BY DEF OneDecay, Old
<1>1. PubGood /\ JobInv /\ LandingInv /\ WorkInv /\ JobGood
  BY DEF Order, JobInv
<1>2. \A j \in Jobs : job[j].pc # "idle" => DocumentsKept(Cur(j)) /\ Still(Cur(j))
  BY <1>0, <1>1, CurIsWork DEF DocumentsKept, landingVars
<1>3. PubGood'
  BY <1>0, <1>1 DEF PubGood, LandingTypeOK, landingVars, pubVars
<1>4. LandingInv'
  BY <1>0, <1>1, LandingStays DEF landingVars
<1>5. JobInv'
  <2>1. JobGood'
    BY <1>0, <1>1 DEF JobGood, jobVars
  <2>2. ASSUME NEW j \in Jobs PROVE Placed(j)'
    <3>1. job' = job /\ Placed(j)
      BY <1>0, <1>1 DEF jobVars, JobInv
    <3>2. CASE job[j].pc \in Promoting
      <4>1. Cur(j)' = Cur(j) /\ Listed(j)' = Listed(j)
        BY <3>1 DEF Cur, Listed
      <4>2. Still(Cur(j))
        BY <1>2, <3>2 DEF Promoting
      <4> QED
        BY <3>1, <4>1, <4>2 DEF Placed, Still, SealKept, Claims
    <3>3. CASE job[j].pc \notin Promoting
      BY <3>1, <3>3, NotPromoting
    <3> QED
      BY <3>2, <3>3
  <2> QED
    BY <2>1, <2>2 DEF JobInv
<1>6. WorkInv'
  BY <1>0, <1>1, <1>2, <1>4, <1>5, OthersKeepWork DEF jobVars
<1> QED
  BY <1>3, <1>4, <1>5, <1>6 DEF Order

-----------------------------------------------------------------------------
(* What is left of a version. *)

Had(what, v) == <<what, v>> \in decays

\* What promote() put into the data bucket of the tree t in landing, the seal apart, and what did
\* not decay since.
LeftOf(v, t) ==
    /\ dds[v] \in {t, NoDoc} \/ Had("dataset-rewritten", v)
    /\ dds[v] # NoDoc \/ Had("dataset-json-gone", v)
    /\ \A g \in GroupsIn(t) :
          /\ dman[v][g] \in {Part(t, g), NoDoc} \/ Had("manifest-rewritten", v)
          /\ dman[v][g] # NoDoc \/ Had("manifest-gone", v)
    /\ \A f \in NamesIn(t) :
          /\ dobj[v][f] \in {t[f], Absent} \/ Had("object-content-changed", v)
                                           \/ Had("object-resized", v)
          /\ dobj[v][f] # Absent \/ Had("object-gone", v)
          /\ dobj[v][f] = Absent \/ SizeOf[dobj[v][f]] = SizeOf[t[f]] \/ Had("object-resized", v)

\* Nothing lies in the data bucket but what landing holds, and from the catalog entry on all of it
\* does that did not decay.
Remains(v) ==
    /\ \A g \in Groups : dman[v][g] # NoDoc => lds[v] \in Trees /\ g \in GroupsIn(lds[v])
    /\ \A f \in Files : dobj[v][f] # Absent => lds[v] \in Trees /\ f \in NamesIn(lds[v])
    /\ catalog[v] # NoDoc => Whole(v) /\ LeftOf(v, lds[v])
    /\ Sealed(v) => /\ catalog[v] # NoDoc
                    /\ Claims(seal[v], lds[v])

\* While landing does not expire, it keeps its documents.
LEMMA NextKeepsDocuments ==
    ASSUME ~Overlap, ~Expiry, PubGood, LandingInv, [Next]_vars
    PROVE  \A v \in Versions : DocumentsKept(v)
<1>1. CASE PublishNext
  BY <1>1, RunsKeepDocuments DEF PublishNext
<1>2. CASE ValidatorNext
  <2>1. UNCHANGED <<lds, lman, lobj>>
    BY <1>2, JobsOnlyMark DEF ValidatorNext
  <2> QED
    BY <2>1 DEF DocumentsKept
<1>3. CASE UNCHANGED vars
  BY <1>3 DEF vars, landingVars, DocumentsKept
<1> QED
  BY <1>1, <1>2, <1>3 DEF Next, Expire

\* Only promote() catalogues.
LEMMA OnlyPutCatalogCatalogs ==
    ASSUME JobGood, [Next]_vars, ~ \E j \in Jobs : PutCatalog(j) PROVE UNCHANGED catalog
<1>1. ASSUME NEW j \in Jobs, JobStep(j) \/ RunNamed(j) \/ JobCrash(j) PROVE UNCHANGED catalog
  <2>1. Discover(j) \/ RunNamed(j) \/ GateAStep(j) \/ JobCrash(j) => UNCHANGED catalog
    BY GateAWritesNothing DEF dataVars
  <2>2. \/ CheckSeal(j) \/ ReloadDs(j) \/ ReloadManifest(j)
        \/ CopyDs(j) \/ CopyManifest(j) \/ CopyPayload(j) \/ HeadCrc(j) \/ ReadRoot(j)
        => UNCHANGED catalog
    BY CopiesSealNothing
  <2>3. PutSeal(j) \/ MarkValidated(j) => UNCHANGED catalog
    BY DEF PutSeal, MarkValidated, dataVars
  <2> QED
    BY <1>1, <2>1, <2>2, <2>3 DEF JobStep, PromoteStep
<1>2. CASE ValidatorNext
  BY <1>1, <1>2 DEF ValidatorNext
<1>3. CASE ~ValidatorNext
  BY <1>3 DEF Next, Expire, vars, dataVars
<1> QED
  BY <1>2, <1>3

\* What is catalogued is all there.
LEMMA CatalogedIsThere ==
    ASSUME Order, [Next]_vars, NEW v \in Versions, catalog[v] = NoDoc, catalog'[v] # NoDoc
    PROVE  /\ Whole(v) /\ UNCHANGED <<dds, dman, dobj, seal>>
           /\ dds[v] = lds[v]
           /\ \A g \in GroupsIn(lds[v]) : dman[v][g] = Part(lds[v], g)
           /\ \A f \in NamesIn(lds[v]) : dobj[v][f] = lds[v][f]
<1>0. PubGood /\ JobGood /\ WorkInv
  BY DEF Order, JobInv
<1>1. PICK j \in Jobs : PutCatalog(j)
  BY <1>0, OnlyPutCatalogCatalogs
<1>2. /\ job[j].pc = "catalog" /\ job[j].keys = {} /\ job[j].todo = {} /\ Bound(j) /\ Moved(j)
      /\ UNCHANGED <<dds, dman, dobj, seal>>
  BY <1>0, <1>1 DEF PutCatalog, JobGood, JobRecs, Promoting, WorkInv
<1>3. PICK t \in Trees : /\ t = Here(j) /\ lds[Cur(j)] = t /\ Whole(Cur(j))
                         /\ GroupsIn(t) \subseteq Groups
  BY <1>0, <1>2, BoundFacts DEF Promoting
<1>4. v = Cur(j)
  BY <1>1, <1>2, <1>0 DEF PutCatalog, DataTypeOK, JobGood
<1>5. /\ dds[v] = t
      /\ \A g \in GroupsIn(t) : dman[v][g] = Part(t, g)
      /\ \A f \in NamesIn(t) : dobj[v][f] = t[f]
  BY <1>2, <1>3, <1>4 DEF Moved, Promoting
<1> QED
  BY <1>2, <1>3, <1>4, <1>5

\* Jobs only restore.
LEMMA NextRemains ==
    ASSUME ~Overlap, ~Expiry, Order, [Next]_vars, decays' = decays,
           NEW v \in Versions, Remains(v)
    PROVE  Remains(v)' /\ (Whole(v) => lds'[v] = lds[v])
<1>0. /\ Order' /\ OnePlaceMoves /\ PubGood /\ JobGood /\ JobGood' /\ LandingTypeOK
      /\ DocumentsKept(v) /\ Settled(v)'
  BY NextOrder, NextKeepsDocuments DEF Order, PubGood, JobInv, LandingInv
<1>1. PICK t : t = lds[v]
  OBVIOUS
<1>2. Whole(v) => Whole(v)' /\ lds'[v] = t /\ t \in Trees
  BY <1>0, <1>1, WholeStays DEF Whole
<1>3. t \in Trees => /\ lds'[v] = t /\ GroupsIn(t) \subseteq Groups /\ NamesIn(t) \subseteq Files
  BY <1>0, <1>1, BucketsAssumption, TreeFacts DEF DocumentsKept
<1>4. CASE Still(v)
  BY <1>1, <1>2, <1>3, <1>4 DEF Still, SealKept, Claims, CrcsOf, Remains, LeftOf, Had, Sealed
<1>5. CASE ~Still(v)
  <2>1. Whole(v) /\ Towards(v, t) /\ (Sealed(v) => Shelved(v, t))
    BY <1>0, <1>1, <1>5 DEF OnePlaceMoves
  <2>2. ~Sealed(v)
    BY <1>0, <1>2, <1>5, <2>1, ShelvedIsStill
  <2>3. \A g \in Groups : dman'[v][g] # NoDoc => g \in GroupsIn(t)
    BY <1>1, <2>1 DEF Towards, Remains
  <2>4. \A f \in Files : dobj'[v][f] # Absent => f \in NamesIn(t)
    BY <1>1, <2>1 DEF Towards, Remains
  <2>5. ASSUME catalog'[v] # NoDoc PROVE LeftOf(v, t)'
    <3>1. t \in Trees /\ t # NoDoc /\ \A g \in GroupsIn(t) : Part(t, g) # NoDoc
      BY <1>2, <1>3, <2>1, TreeFacts, BucketsAssumption
    <3>2. CASE catalog[v] # NoDoc
      <4>1. LeftOf(v, t)
        BY <1>1, <3>2 DEF Remains
      <4>2. /\ dds'[v] \in {dds[v], t}
            /\ \A g \in GroupsIn(t) : dman'[v][g] \in {dman[v][g], Part(t, g)}
            /\ \A f \in NamesIn(t) : dobj'[v][f] \in {dobj[v][f], t[f]} /\ t[f] # Absent
        BY <1>3, <2>1, <3>1 DEF Towards, NamesIn
      <4> QED
        BY <3>1, <4>1, <4>2 DEF LeftOf, Had
    <3>3. CASE catalog[v] = NoDoc
      <4>1. /\ UNCHANGED <<dds, dman, dobj>> /\ dds[v] = t
            /\ \A g \in GroupsIn(t) : dman[v][g] = Part(t, g)
            /\ \A f \in NamesIn(t) : dobj[v][f] = t[f]
        BY <1>1, <2>5, <3>3, CatalogedIsThere
      <4> QED
        BY <3>1, <4>1 DEF LeftOf, NamesIn
    <3> QED
      BY <3>2, <3>3
  <2>6. ASSUME Sealed(v)' PROVE catalog'[v] # NoDoc /\ Claims(seal'[v], t)
    <3>1. Shelved(v, t)'
      BY <2>1, <2>2, <2>6 DEF Towards, SealKept, Claims, Sealed
    <3>2. t # NoDoc
      BY <1>2, <2>1, BucketsAssumption
    <3> QED
      BY <3>1, <3>2 DEF Shelved, Claims, CrcsOf
  <2>7. lds'[v] = t /\ t \in Trees /\ Whole(v)'
    BY <1>2, <2>1
  <2> QED
    BY <1>1, <2>3, <2>4, <2>5, <2>6, <2>7 DEF Remains, Claims, CrcsOf
<1> QED
  BY <1>1, <1>2, <1>4, <1>5

\* Decays leave the rest.
LEMMA DecayRemains ==
    ASSUME JobGood, NEW w \in Versions, NEW what, OneDecay(what, w), NEW v \in Versions, Remains(v)
    PROVE  Remains(v)'
<1>0. /\ decays' = decays \cup {<<what, w>>} /\ UNCHANGED <<lds, lman, lobj, catalog>>
      /\ \A x : Had(x, v) => Had(x, v)'
  BY DEF OneDecay, landingVars, Had
<1>1. PICK t : t = lds[v] /\ lds'[v] = t
  BY <1>0
<1>2. Whole(v)' <=> Whole(v)
  BY <1>0 DEF Whole
<1>3. CASE v # w
  <2>1. Still(v)
    BY <1>3 DEF OneDecay
  <2> QED
    BY <1>0, <1>1, <1>2, <2>1 DEF Still, SealKept, Claims, CrcsOf, Remains, LeftOf, Sealed
<1>4. CASE v = w
  <2>1. Wears(what, v) /\ Had(what, v)'
    BY <1>0, <1>4 DEF OneDecay, Had
  <2>2. /\ \A g \in Groups : dman'[v][g] # NoDoc => dman[v][g] # NoDoc
        /\ \A f \in Files : dobj'[v][f] # Absent => dobj[v][f] # Absent
    BY <2>1 DEF Wears
  <2>3. ASSUME catalog[v] # NoDoc PROVE LeftOf(v, t)'
    <3>1. LeftOf(v, t) /\ t \in Trees
      BY <1>1, <2>3 DEF Remains, Whole
    <3>2. GroupsIn(t) \subseteq Groups /\ NamesIn(t) \subseteq Files
      BY <3>1, TreeFacts
    <3>3. dds'[v] \in {t, NoDoc} \/ Had("dataset-rewritten", v)'
      BY <1>0, <2>1, <3>1 DEF LeftOf, Wears
    <3>4. dds'[v] # NoDoc \/ Had("dataset-json-gone", v)'
      BY <1>0, <2>1, <3>1 DEF LeftOf, Wears
    <3>5. \A g \in GroupsIn(t) :
             /\ dman'[v][g] \in {Part(t, g), NoDoc} \/ Had("manifest-rewritten", v)'
             /\ dman'[v][g] # NoDoc \/ Had("manifest-gone", v)'
      BY <1>0, <2>1, <3>1, <3>2 DEF LeftOf, Wears
    <3>6. \A f \in NamesIn(t) :
             /\ dobj'[v][f] \in {t[f], Absent} \/ Had("object-content-changed", v)'
                                               \/ Had("object-resized", v)'
             /\ dobj'[v][f] # Absent \/ Had("object-gone", v)'
      BY <1>0, <2>1, <3>1, <3>2 DEF LeftOf, Wears
    <3>7. \A f \in NamesIn(t) :
             \/ dobj'[v][f] = Absent \/ SizeOf[dobj'[v][f]] = SizeOf[t[f]]
             \/ Had("object-resized", v)'
      BY <1>0, <2>1, <3>1, <3>2 DEF LeftOf, Wears
    <3> QED
      BY <3>3, <3>4, <3>5, <3>6, <3>7 DEF LeftOf
  <2>4. Sealed(v)' => Sealed(v) /\ seal'[v] = seal[v]
    BY <2>1 DEF Wears, Sealed
  <2> QED
    BY <1>0, <1>1, <1>2, <2>2, <2>3, <2>4 DEF Remains, Claims, CrcsOf
<1> QED
  BY <1>3, <1>4

\* Nothing has decayed at first.
LEMMA InitRemains == ASSUME Init, NEW v \in Versions PROVE Remains(v)
  BY DEF Init, BucketsInit, Empty, Remains, Sealed

\* Nobody rewrote a document under v in this step.
NotRewritten(v) == \A what \in Rewritten : Had(what, v)' => Had(what, v)

\* Around whoever reads, what is catalogued is lost, restored or rewritten, no more.
LEMMA WorldRemains ==
    ASSUME ~Overlap, ~Expiry, Order, \A v \in Versions : Remains(v),
           ([Next]_vars /\ UNCHANGED decays) \/ DecayNext,
           NEW v \in Versions
    PROVE  /\ Remains(v)' /\ decays \subseteq decays'
           /\ catalog[v] # NoDoc =>
                 /\ catalog'[v] # NoDoc /\ lds'[v] = lds[v] /\ lds[v] \in Trees
                 /\ NotRewritten(v) =>
                       /\ dds'[v] \in {dds[v], lds[v], NoDoc}
                       /\ \A g \in GroupsIn(lds[v]) :
                             dman'[v][g] \in {dman[v][g], Part(lds[v], g), NoDoc}
<1>0. JobGood /\ PubGood
  BY DEF Order, JobInv
<1>1. catalog[v] # NoDoc => Whole(v) /\ lds[v] \in Trees /\ GroupsIn(lds[v]) \subseteq Groups
  BY TreeFacts DEF Remains, Whole
<1>2. CASE [Next]_vars /\ UNCHANGED decays
  <2>1. Remains(v)' /\ (Whole(v) => lds'[v] = lds[v])
    BY <1>2, NextRemains
  <2>2. Still(v) \/ Towards(v, lds[v])
    BY <1>2, NextOrder DEF OnePlaceMoves
  <2>3. catalog[v] # NoDoc =>
           /\ catalog'[v] # NoDoc /\ dds'[v] \in {dds[v], lds[v], NoDoc}
           /\ \A g \in GroupsIn(lds[v]) : dman'[v][g] \in {dman[v][g], Part(lds[v], g), NoDoc}
    BY <1>1, <2>2, BucketsAssumption DEF Still, Towards
  <2> QED
    BY <1>1, <1>2, <2>1, <2>3
<1>3. CASE DecayNext
  <2>1. PICK w \in Versions, what \in Decays : OneDecay(what, w)
    BY <1>0, <1>3, DecaysOnce
  <2>2. Remains(v)' /\ decays \subseteq decays' /\ catalog' = catalog /\ lds' = lds
    BY <1>0, <2>1, DecayRemains DEF OneDecay, landingVars
  <2>3. CASE v # w
    BY <1>1, <2>1, <2>2, <2>3 DEF OneDecay, Still
  <2>4. CASE v = w
    <3>1. Wears(what, v) /\ Had(what, v)' /\ ~Had(what, v)
      BY <2>1, <2>4 DEF OneDecay, Had
    <3>2. ASSUME NotRewritten(v), catalog[v] # NoDoc
          PROVE  /\ dds'[v] \in {dds[v], lds[v], NoDoc}
                 /\ \A g \in GroupsIn(lds[v]) : dman'[v][g] \in {dman[v][g], Part(lds[v], g), NoDoc}
      BY <1>1, <3>1, <3>2 DEF Wears, NotRewritten, Rewritten
    <3> QED
      BY <1>1, <2>2, <3>2
  <2> QED
    BY <2>3, <2>4
<1> QED
  BY <1>2, <1>3

=============================================================================
