--------------------------- MODULE Airlock_proofs ---------------------------
(***************************************************************************)
(* Theorems about the airlock for any number of files, groups, versions,   *)
(* producers and jobs, with overlapping runs, crashes and expiry.          *)
(***************************************************************************)
EXTENDS Airlock, TLAPS, WellFoundedInduction

-----------------------------------------------------------------------------
(* Minima, and the helpers on trees. *)

\* A non-empty set of natural numbers has a least element ...
LEMMA LeastExists ==
    ASSUME NEW S \in SUBSET Nat, S # {}
    PROVE  \E x \in S : \A y \in S : x =< y
<1> DEFINE R == OpToRel(<, Nat)
<1>1. IsWellFoundedOn(R, Nat)
  BY NatLessThanWellFounded
<1>2. PICK x \in S : \A y \in S : ~ (<<y, x>> \in R)
  <2> HIDE DEF R
  <2> QED
    BY <1>1, WFMin
<1>3. R = {ss \in Nat \X Nat : ss[1] < ss[2]}
  BY DEF OpToRel
<1>4. \A y \in S : x =< y
  <2> HIDE DEF R
  <2> SUFFICES ASSUME NEW y \in S PROVE x =< y
    OBVIOUS
  <2>1. ~ (<<y, x>> \in R)
    BY <1>2
  <2>2. <<y, x>> \in Nat \X Nat
    OBVIOUS
  <2>3. ~ (y < x)
    BY <1>3, <2>1, <2>2
  <2> QED
    BY <2>3
<1> QED
  BY <1>4

\* ... and contains its minimum.
LEMMA MinIn ==
    ASSUME NEW S \in SUBSET Nat, S # {}
    PROVE  Min(S) \in S
  BY LeastExists DEF Min

\* A non-empty set of natural numbers with a bound contains its maximum, which nothing in it
\* exceeds.
LEMMA MaxIn ==
    ASSUME NEW n \in Nat, NEW S \in SUBSET (0 .. n), S # {}
    PROVE  Max(S) \in S /\ \A y \in S : Max(S) >= y
<1> DEFINE T == {n - x : x \in S}
<1>1. T \in SUBSET Nat /\ T # {}
  <2>1. \A x \in S : n - x \in Nat
    OBVIOUS
  <2> QED
    BY <2>1
<1>2. PICK m \in T : \A y \in T : m =< y
  <2> HIDE DEF T
  <2> QED
    BY <1>1, LeastExists
<1>3. PICK x \in S : m = n - x
  BY <1>2
<1>4. \A y \in S : x >= y
  BY <1>2, <1>3
<1> QED
  BY <1>4 DEF Max

\* So files, groups and versions have a first one.
LEMMA MinOfFiles  == ASSUME NEW S \in SUBSET Files, S # {} PROVE Min(S) \in S /\ Min(S) \in Files
<1>1. Files \subseteq Nat
  BY BucketsAssumption DEF Files
<1> QED
  BY <1>1, MinIn

\* The first group, as publish() and promote() take it, is one of them ...
LEMMA MinOfGroups == ASSUME NEW S \in SUBSET Groups, S # {} PROVE Min(S) \in S /\ Min(S) \in Groups
<1>1. Groups \subseteq Nat
  BY BucketsAssumption DEF Groups
<1> QED
  BY <1>1, MinIn

\* ... and so is the first version.
LEMMA MinOfVersions ==
    ASSUME NEW S \in SUBSET Versions, S # {} PROVE Min(S) \in S /\ Min(S) \in Versions
<1>1. Versions \subseteq Nat
  BY BucketsAssumption DEF Versions
<1> QED
  BY <1>1, MinIn

\* The highest version that landing lists, or 0, is a natural number.
LEMMA MaxTaken == Max(Taken \cup {0}) \in Nat
<1>1. MaxVersion \in Nat /\ Taken \cup {0} \in SUBSET (0 .. MaxVersion) /\ Taken \cup {0} # {}
  BY BucketsAssumption DEF Taken, Versions
<1>2. Max(Taken \cup {0}) \in Taken \cup {0}
  BY <1>1, MaxIn
<1> QED
  BY <1>1, <1>2

\* The parts of a tree are trees; its groups are groups.
LEMMA TreeFacts ==
    /\ Empty \in Trees
    /\ NamesIn(Empty) = {}
    /\ \A t \in Trees : /\ NamesIn(t) \subseteq Files
                        /\ GroupsIn(t) \subseteq Groups
                        /\ \A g \in Groups : Part(t, g) \in Trees
                        /\ NamesIn(t) # {} => GroupsIn(t) # {}
  BY BucketsAssumption DEF Empty, Trees, NamesIn, GroupsIn, Part

-----------------------------------------------------------------------------
(* Producers. *)

\* The records a run of publish() goes through: what it knows of its work list, phase by phase.
RunStates == {r \in PubStates :
    /\ r.pc \in {"stage", "cleanup"} => r.todo # {} /\ r.todo \subseteq Files
    /\ r.pc \in {"version", "hash", "head", "reserve", "copy", "manifest", "cleanup"}
          => r.files # {}
    /\ r.pc = "hash" => /\ r.todo # {} /\ r.todo \subseteq r.files
                        /\ NamesIn(r.plan) = r.files \ r.todo
    /\ r.pc \in {"head", "reserve", "copy", "manifest"} => NamesIn(r.plan) = r.files
    /\ r.pc = "copy" => r.todo \subseteq Files
    /\ r.pc = "manifest" => r.todo # {} /\ r.todo \subseteq Groups
    /\ r.pc # "failed" => r.tries < MaxAttempts}

LandingTypeOK ==
    /\ lds   \in [Versions -> Docs]
    /\ lman  \in [Versions -> [Groups -> Docs]]
    /\ lobj  \in [Versions -> Trees]
    /\ marks \in [Versions -> SUBSET Marks]

PubGood ==
    /\ LandingTypeOK
    /\ staging \in Trees
    /\ pub \in [Publishers -> RunStates]
    /\ pubFaults \in 0 .. MaxPubFaults

\* A run reads its source from a tree, its own or the staging area.
LEMMA SourceIsTree ==
    ASSUME PubGood, NEW p \in Publishers PROVE SourceOf(p) \in Trees
  BY DEF PubGood, RunStates, PubStates, SourceOf

\* A run that fails keeps what it knew.
LEMMA FailKeeps ==
    ASSUME PubGood, NEW p \in Publishers, Fail(p)
    PROVE  pub' \in [Publishers -> RunStates]
<1>1. pub[p] \in RunStates
  BY DEF PubGood
<1>2. [pub[p] EXCEPT !.pc = "failed"] \in RunStates
  BY <1>1 DEF RunStates, PubStates, PubPhases
<1> QED
  BY <1>2 DEF Fail, PubGood

\* Every step of a run keeps its record well-formed and landing well-typed.
LEMMA PublisherKeeps ==
    ASSUME PubGood, NEW p \in Publishers, Start(p) \/ PublisherStep(p) \/ PubCrash(p)
    PROVE  PubGood'
<1> DEFINE me == pub[p]
<1>0. /\ me \in RunStates /\ me \in PubStates /\ me.plan \in Trees /\ me.src \in Trees
      /\ me.files \subseteq Files /\ SourceOf(p) \in Trees
      /\ MaxAttempts \in Nat /\ MaxVersion \in Nat
  BY SourceIsTree, PublishAssumption, BucketsAssumption DEF PubGood, RunStates, PubStates
<1> SUFFICES /\ LandingTypeOK' /\ staging' \in Trees /\ pubFaults' \in 0 .. MaxPubFaults
             /\ pub' \in [Publishers -> RunStates]
  BY DEF PubGood
<1>frame. ASSUME UNCHANGED landingVars PROVE LandingTypeOK'
  BY <1>frame DEF PubGood, LandingTypeOK, landingVars
<1>1. CASE Start(p)
  <2>1. PICK t \in Sources, k \in SourceKinds :
          LET staged == IF k = "local" THEN NamesIn(t) ELSE {}
          IN  pub' = [pub EXCEPT ![p].src = t, ![p].kind = k, ![p].todo = staged,
                        ![p].pc = IF staged = {} THEN "enumerate" ELSE "stage"]
    BY <1>1 DEF Start
  <2> DEFINE staged == IF k = "local" THEN NamesIn(t) ELSE {}
             r == [me EXCEPT !.src = t, !.kind = k, !.todo = staged,
                     !.pc = IF staged = {} THEN "enumerate" ELSE "stage"]
  <2>2. t \in Trees /\ k \in {"local", "s3"} /\ staged \subseteq Files
    BY PublishAssumption, TreeFacts
  <2>3. r \in RunStates
    <3> HIDE DEF staged
    <3>1. me.pc = "idle" /\ me.tries < MaxAttempts
      BY <1>0, <1>1 DEF Start, RunStates
    <3> QED
      BY <1>0, <2>2, <3>1 DEF RunStates, PubStates, PubPhases
  <2>4. pub' = [pub EXCEPT ![p] = r]
    BY <2>1
  <2> HIDE DEF r
  <2>5. pub' \in [Publishers -> RunStates]
    BY <2>3, <2>4 DEF PubGood
  <2>6. UNCHANGED <<landingVars, staging, pubFaults>>
    BY <1>1 DEF Start
  <2> QED
    BY <1>frame, <2>5, <2>6 DEF PubGood
<1>2. CASE Stage(p)
  <2> DEFINE f == Min(me.todo)
             r == [me EXCEPT !.todo = @ \ {f},
                     !.pc = IF me.todo = {f} THEN "enumerate" ELSE @]
  <2>1. f \in Files /\ f \in me.todo
    BY <1>0, <1>2, MinOfFiles DEF Stage, RunStates
  <2>2. r \in RunStates
    <3>1. /\ r \in PubStates /\ me.todo \subseteq Files /\ me.tries < MaxAttempts
          /\ r.pc = (IF me.todo = {f} THEN "enumerate" ELSE "stage")
          /\ r.todo = me.todo \ {f} /\ r.tries = me.tries
      BY <1>0, <1>2, <2>1 DEF Stage, RunStates, PubStates, PubPhases
    <3> HIDE DEF r
    <3> QED
      BY <2>1, <3>1 DEF RunStates
  <2>3. pub' = [pub EXCEPT ![p] = r] /\ staging' = [staging EXCEPT ![f] = me.src[f]]
    BY <1>2 DEF Stage
  <2>4. staging' \in Trees
    BY <1>0, <2>1, <2>3 DEF PubGood, Trees
  <2> HIDE DEF r
  <2> QED
    BY <1>2, <1>frame, <2>2, <2>3, <2>4 DEF Stage, PubGood
<1>3. CASE Enumerate(p)
  <2> DEFINE found == NamesIn(SourceOf(p))
             r == [me EXCEPT !.files = found, !.pc = "version"]
  <2>1. CASE found = {}
    BY <1>3, <1>frame, <2>1, FailKeeps DEF Enumerate, PubGood
  <2>2. CASE found # {}
    <3>1. r \in RunStates
      BY <1>0, <1>3, <2>2, TreeFacts DEF Enumerate, RunStates, PubStates, PubPhases
    <3>2. pub' = [pub EXCEPT ![p] = r]
      BY <1>3, <2>2 DEF Enumerate
    <3> HIDE DEF r
    <3> QED
      BY <1>3, <1>frame, <3>1, <3>2 DEF Enumerate, PubGood
  <2> QED
    BY <2>1, <2>2
<1>4. CASE NextVersion(p)
  <2> DEFINE v == Max(Taken \cup {0}) + 1
             r == [me EXCEPT !.ver = v, !.plan = Empty, !.todo = me.files, !.pc = "hash"]
  <2>1. v \in 0 .. MaxVersion
    <3>1. Max(Taken \cup {0}) \in Nat
      BY MaxTaken
    <3> QED
      BY <1>0, <1>4, <3>1 DEF NextVersion
  <2>2. r \in RunStates
    <3> HIDE DEF v
    <3> QED
      BY <1>0, <1>4, <2>1, TreeFacts DEF NextVersion, RunStates, PubStates, PubPhases
  <2>3. pub' = [pub EXCEPT ![p] = r]
    BY <1>4 DEF NextVersion
  <2> HIDE DEF r, v
  <2>4. pub' \in [Publishers -> RunStates]
    BY <2>2, <2>3 DEF PubGood
  <2>5. UNCHANGED <<landingVars, staging, pubFaults>>
    BY <1>4 DEF NextVersion
  <2> QED
    BY <1>frame, <2>4, <2>5 DEF PubGood
<1>5. CASE Hash(p)
  <2>1. PICK f \in me.todo :
          IF SourceOf(p)[f] = Absent THEN Fail(p)
          ELSE pub' = [pub EXCEPT ![p].plan[f] = SourceOf(p)[f], ![p].todo = @ \ {f},
                         ![p].pc = IF pub[p].todo = {f} THEN "head" ELSE @]
    BY <1>5 DEF Hash
  <2> DEFINE r == [me EXCEPT !.plan[f] = SourceOf(p)[f], !.todo = @ \ {f},
                     !.pc = IF me.todo = {f} THEN "head" ELSE @]
  <2>2. CASE SourceOf(p)[f] = Absent
    BY <1>5, <1>frame, <2>1, <2>2, FailKeeps DEF Hash, PubGood
  <2>3. CASE SourceOf(p)[f] # Absent
    <3>1. f \in Files /\ me.pc = "hash" /\ me.todo \subseteq me.files
      BY <1>0, <1>5 DEF Hash, RunStates
    <3>2. [me.plan EXCEPT ![f] = SourceOf(p)[f]] \in Trees
      BY <1>0, <3>1 DEF Trees
    <3>3. NamesIn([me.plan EXCEPT ![f] = SourceOf(p)[f]]) = NamesIn(me.plan) \cup {f}
      BY <1>0, <2>3, <3>1 DEF NamesIn, Trees
    <3>4. r \in RunStates
      <4>1. /\ r \in PubStates /\ me.tries < MaxAttempts /\ me.files # {}
            /\ NamesIn(me.plan) = me.files \ me.todo
            /\ r.pc = (IF me.todo = {f} THEN "head" ELSE "hash")
            /\ r.todo = me.todo \ {f} /\ r.tries = me.tries /\ r.files = me.files
            /\ NamesIn(r.plan) = NamesIn(me.plan) \cup {f}
        BY <1>0, <3>1, <3>2, <3>3 DEF RunStates, PubStates, PubPhases
      <4> HIDE DEF r
      <4> QED
        BY <3>1, <4>1 DEF RunStates
    <3>5. pub' = [pub EXCEPT ![p] = r]
      BY <2>1, <2>3
    <3> HIDE DEF r
    <3> QED
      BY <1>5, <1>frame, <3>4, <3>5 DEF Hash, PubGood
  <2> QED
    BY <2>2, <2>3
<1>6. CASE Head(p)
  <2> DEFINE r == IF lds[me.ver] = NoDoc THEN [me EXCEPT !.pc = "reserve"]
                  ELSE [me EXCEPT !.tries = @ + 1,
                          !.pc = IF me.tries + 1 = MaxAttempts THEN "failed" ELSE "version"]
  <2>1. r \in RunStates
    <3>1. me.pc = "head" /\ me.tries \in 0 .. MaxAttempts - 1 /\ me.tries + 1 \in 0 .. MaxAttempts
      BY <1>0, <1>6 DEF Head, RunStates, PubStates
    <3>2. [me EXCEPT !.pc = "reserve"] \in RunStates
      BY <1>0, <3>1 DEF RunStates, PubStates, PubPhases
    <3>3. [me EXCEPT !.tries = @ + 1,
             !.pc = IF me.tries + 1 = MaxAttempts THEN "failed" ELSE "version"] \in RunStates
      <4> DEFINE s == [me EXCEPT !.tries = @ + 1,
                         !.pc = IF me.tries + 1 = MaxAttempts THEN "failed" ELSE "version"]
      <4>1. /\ s \in PubStates /\ me.files # {} /\ s.files = me.files /\ s.tries = me.tries + 1
            /\ s.pc = (IF me.tries + 1 = MaxAttempts THEN "failed" ELSE "version")
        BY <1>0, <3>1 DEF RunStates, PubStates, PubPhases
      <4>2. s \in RunStates
        <5> HIDE DEF s
        <5> QED
          BY <1>0, <3>1, <4>1 DEF RunStates
      <4> QED
        BY <4>2
    <3> QED
      BY <3>2, <3>3
  <2>2. pub' = [pub EXCEPT ![p] = r]
    BY <1>6 DEF Head
  <2> HIDE DEF r
  <2> QED
    BY <1>6, <1>frame, <2>1, <2>2 DEF Head, PubGood
<1>7. CASE Reserve(p)
  <2> DEFINE r == [me EXCEPT !.todo = me.files, !.pc = "copy"]
  <2>1. r \in RunStates
    BY <1>0, <1>7 DEF Reserve, RunStates, PubStates, PubPhases
  <2>2. pub' = [pub EXCEPT ![p] = r] /\ lds' = [lds EXCEPT ![me.ver] = me.plan]
    BY <1>7 DEF Reserve
  <2>3. LandingTypeOK'
    BY <1>0, <1>7, <2>2 DEF Reserve, PubGood, LandingTypeOK, Docs
  <2> HIDE DEF r
  <2>4. pub' \in [Publishers -> RunStates]
    BY <2>1, <2>2 DEF PubGood
  <2>5. UNCHANGED <<staging, pubFaults>>
    BY <1>7 DEF Reserve
  <2> QED
    BY <2>3, <2>4, <2>5 DEF PubGood
<1>8. CASE Copy(p)
  <2>1. PICK f \in me.todo :
          IF SourceOf(p)[f] = Absent
          THEN Fail(p) /\ UNCHANGED lobj
          ELSE /\ lobj' = [lobj EXCEPT ![pub[p].ver][f] = SourceOf(p)[f]]
               /\ pub' = IF pub[p].todo = {f}
                         THEN [pub EXCEPT ![p].todo = GroupsIn(pub[p].plan), ![p].pc = "manifest"]
                         ELSE [pub EXCEPT ![p].todo = @ \ {f}]
    BY <1>8 DEF Copy
  <2>2. CASE SourceOf(p)[f] = Absent
    BY <1>8, <1>frame, <2>1, <2>2, FailKeeps DEF Copy, PubGood, landingVars
  <2>3. CASE SourceOf(p)[f] # Absent
    <3> DEFINE r == IF me.todo = {f}
                    THEN [me EXCEPT !.todo = GroupsIn(me.plan), !.pc = "manifest"]
                    ELSE [me EXCEPT !.todo = @ \ {f}]
    <3>1. f \in Files
      BY <1>0, <1>8 DEF Copy, RunStates
    <3>2. GroupsIn(me.plan) # {} /\ GroupsIn(me.plan) \subseteq Groups
      BY <1>0, <1>8, TreeFacts DEF Copy, RunStates
    <3>3. r \in RunStates
      BY <1>0, <1>8, <3>1, <3>2 DEF Copy, RunStates, PubStates, PubPhases
    <3>4. pub' = [pub EXCEPT ![p] = r] /\ lobj' = [lobj EXCEPT ![me.ver][f] = SourceOf(p)[f]]
      BY <2>1, <2>3
    <3>5. lobj' \in [Versions -> Trees]
      BY <1>0, <3>1, <3>4 DEF PubGood, LandingTypeOK, Trees
    <3> HIDE DEF r
    <3> QED
      BY <1>8, <3>3, <3>4, <3>5 DEF Copy, PubGood, LandingTypeOK
  <2> QED
    BY <2>2, <2>3
<1>9. CASE PutManifest(p)
  <2> DEFINE g == Min(me.todo)
             r == IF me.todo # {g} THEN [me EXCEPT !.todo = @ \ {g}]
                  ELSE IF me.kind = "s3" THEN [me EXCEPT !.todo = {}, !.pc = "done"]
                  ELSE [me EXCEPT !.todo = me.files, !.pc = "cleanup"]
  <2>1. g \in Groups /\ g \in me.todo /\ Part(me.plan, g) \in Trees
    BY <1>0, <1>9, MinOfGroups, TreeFacts DEF PutManifest, RunStates
  <2>2. r \in RunStates
    <3>1. /\ me.pc = "manifest" /\ me.tries < MaxAttempts /\ me.files # {}
          /\ me.todo \subseteq Groups
      BY <1>0, <1>9 DEF PutManifest, RunStates
    <3> HIDE DEF g
    <3>2. CASE me.todo # {g}
      BY <1>0, <2>1, <3>1, <3>2 DEF RunStates, PubStates, PubPhases
    <3>3. CASE me.todo = {g}
      BY <1>0, <2>1, <3>1, <3>3 DEF RunStates, PubStates, PubPhases
    <3> QED
      BY <3>2, <3>3
  <2>3. pub' = [pub EXCEPT ![p] = r] /\ lman' = [lman EXCEPT ![me.ver][g] = Part(me.plan, g)]
    BY <1>9 DEF PutManifest
  <2>4. lman' \in [Versions -> [Groups -> Docs]]
    BY <2>1, <2>3 DEF PubGood, LandingTypeOK, Docs
  <2> HIDE DEF r
  <2>5. pub' \in [Publishers -> RunStates]
    BY <2>2, <2>3 DEF PubGood
  <2>6. UNCHANGED <<lds, lobj, marks, staging, pubFaults>>
    BY <1>9 DEF PutManifest
  <2> QED
    BY <2>4, <2>5, <2>6 DEF PubGood, LandingTypeOK
<1>10. CASE Cleanup(p)
  <2> DEFINE f == Min(me.todo)
             r == [me EXCEPT !.todo = @ \ {f}, !.pc = IF me.todo = {f} THEN "done" ELSE @]
  <2>1. f \in Files /\ f \in me.todo
    BY <1>0, <1>10, MinOfFiles DEF Cleanup, RunStates
  <2>2. r \in RunStates
    <3>1. /\ r \in PubStates /\ me.todo \subseteq Files /\ me.tries < MaxAttempts
          /\ r.pc = (IF me.todo = {f} THEN "done" ELSE "cleanup") /\ me.files # {}
          /\ r.todo = me.todo \ {f} /\ r.tries = me.tries /\ r.files = me.files
      BY <1>0, <1>10, <2>1 DEF Cleanup, RunStates, PubStates, PubPhases
    <3> HIDE DEF r
    <3> QED
      BY <2>1, <3>1 DEF RunStates
  <2>3. pub' = [pub EXCEPT ![p] = r]
    BY <1>10 DEF Cleanup
  <2>4. staging' \in Trees /\ pubFaults' \in 0 .. MaxPubFaults
    BY <1>10, <2>1, PublishAssumption DEF Cleanup, PubGood, Trees
  <2> HIDE DEF r
  <2> QED
    BY <1>10, <1>frame, <2>2, <2>3, <2>4 DEF Cleanup, PubGood
<1>11. CASE PubCrash(p)
  BY <1>11, <1>frame, FailKeeps, PublishAssumption DEF PubCrash, PubGood
<1> QED
  BY <1>1, <1>2, <1>3, <1>4, <1>5, <1>6, <1>7, <1>8, <1>9, <1>10, <1>11 DEF PublisherStep

-----------------------------------------------------------------------------
(* Validator jobs. *)

Promoting == {"reloadmans", "copy", "crcs", "catalog", "seal", "mark"}

\* The records a validator job goes through.
JobRecs == {r \in JobStates :
    /\ r.pc # "idle" => r.work # {}
    /\ r.pc \in {"heads", "profile", "reloadmans"} => r.todo # {}
    /\ r.pc \in Promoting => r.ds \in Trees
    /\ r.pc \in Promoting \ {"reloadmans"} => r.todo = {}
    /\ r.pc \in Promoting \ {"reloadmans", "copy"} => r.keys = {}
    /\ r.pc \in {"catalog", "seal"} => r.root # NoDoc}

DataTypeOK ==
    /\ dds     \in [Versions -> Docs]
    /\ dman    \in [Versions -> [Groups -> Docs]]
    /\ dobj    \in [Versions -> Trees]
    /\ catalog \in [Versions -> Docs]
    /\ seal    \in [Versions -> Seals \cup {NoDoc}]

JobGood ==
    /\ DataTypeOK
    /\ job \in [Jobs -> JobRecs]
    /\ jobCrashes \in 0 .. MaxJobCrashes

\* What a job in promote() has already put into the data bucket: a key it had to copy is still
\* on its list or is there.
Placed(j) ==
    /\ job[j].pc \in Promoting =>
          /\ DsKey \in job[j].keys \/ dds[Cur(j)] # NoDoc
          /\ \A g \in GroupsIn(job[j].ds) \ job[j].todo :
                ManKey(g) \in job[j].keys \/ dman[Cur(j)][g] # NoDoc
          /\ \A f \in Listed(j) : ObjKey(f) \in job[j].keys \/ dobj[Cur(j)][f] # Absent
    /\ job[j].pc \in {"crcs", "catalog", "seal"} =>
          \A f \in NamesIn(job[j].crc) : dobj[Cur(j)][f] # Absent
    /\ job[j].pc = "seal" => catalog[Cur(j)] # NoDoc
    /\ job[j].pc = "mark" => seal[Cur(j)] # NoDoc

\* A job that is not promoting has nothing to show yet.
LEMMA NotPromoting ==
    ASSUME NEW j \in Jobs, job'[j].pc \notin Promoting
    PROVE  Placed(j)'
  BY DEF Placed, Promoting

\* What a job has placed stays while the job does not move, because the data bucket keeps its keys.
LEMMA StaysPlaced ==
    ASSUME PubGood, JobGood, NEW j \in Jobs, Placed(j), job'[j] = job[j], KeepsKeys
    PROVE  Placed(j)'
<1>1. CASE job[j].pc \in Promoting
  <2>1. Cur(j) \in Versions /\ Cur(j)' = Cur(j) /\ Listed(j)' = Listed(j)
    BY <1>1, MinOfVersions DEF JobGood, JobRecs, JobStates, Cur, Listed, Promoting
  <2>2. GroupsIn(job[j].ds) \subseteq Groups /\ Listed(j) \subseteq Files
        /\ NamesIn(job[j].crc) \subseteq Files
    BY <1>1, TreeFacts DEF JobGood, JobRecs, JobStates, Listed
  <2> QED
    BY <1>1, <2>1, <2>2 DEF Placed, KeepsKeys
<1>2. CASE job[j].pc \notin Promoting
  BY <1>2, NotPromoting
<1> QED
  BY <1>1, <1>2

\* A step that leaves the data bucket alone keeps its keys.
LEMMA KeepsKeysUnchanged == ASSUME UNCHANGED dataVars PROVE KeepsKeys
  BY DEF dataVars, KeepsKeys

\* A job that turns to its next prefix, or ends, has a fresh record.
LEMMA BeginIsFresh ==
    ASSUME NEW w \in SUBSET Versions
    PROVE  Begin(w) \in JobRecs /\ Begin(w).pc \notin Promoting
<1>1. IdleJob \in JobRecs /\ IdleJob.pc = "idle"
  BY TreeFacts DEF IdleJob, JobRecs, JobStates, JobPhases, Docs, Promoting
<1>2. ASSUME w # {}
      PROVE  /\ [IdleJob EXCEPT !.pc = "loadds", !.work = w] \in JobRecs
             /\ [IdleJob EXCEPT !.pc = "loadds", !.work = w].pc = "loadds"
  BY <1>2, TreeFacts DEF IdleJob, JobRecs, JobStates, JobPhases, Docs, Promoting
<1> QED
  BY <1>1, <1>2 DEF Begin, Promoting

JobInv == JobGood /\ \A k \in Jobs : Placed(k)

\* When one job moves to a well-formed record, keeps the data bucket's keys and has placed what
\* its record says, the other jobs are not disturbed.
LEMMA OneJobMoves ==
    ASSUME PubGood, JobInv, NEW j \in Jobs, NEW r \in JobRecs, job' = [job EXCEPT ![j] = r],
           DataTypeOK', jobCrashes' \in 0 .. MaxJobCrashes, KeepsKeys, Placed(j)'
    PROVE  JobInv'
<1>1. job' \in [Jobs -> JobRecs]
  BY DEF JobInv, JobGood
<1>2. ASSUME NEW k \in Jobs, k # j PROVE Placed(k)'
  <2>1. job'[k] = job[k]
    BY <1>2 DEF JobInv, JobGood
  <2> QED
    BY <2>1, StaysPlaced DEF JobInv
<1> QED
  BY <1>1, <1>2 DEF JobInv, JobGood

\* A step to a record outside promote() that leaves the data bucket alone keeps everything.
LEMMA QuietStep ==
    ASSUME PubGood, JobInv, NEW j \in Jobs, NEW r \in JobRecs, r.pc \notin Promoting,
           job' = [job EXCEPT ![j] = r], UNCHANGED dataVars, jobCrashes' \in 0 .. MaxJobCrashes
    PROVE  JobInv' /\ KeepsKeys
<1>1. KeepsKeys
  BY KeepsKeysUnchanged
<1>2. DataTypeOK'
  BY DEF JobInv, JobGood, DataTypeOK, dataVars
<1>3. job'[j] = r
  BY DEF JobInv, JobGood
<1>4. Placed(j)'
  BY <1>3, NotPromoting
<1> QED
  BY <1>1, <1>2, <1>4, OneJobMoves

\* So does turning to the next prefix ...
LEMMA NextKeeps ==
    ASSUME PubGood, JobInv, NEW j \in Jobs, ProcessNext(j), UNCHANGED dataVars,
           jobCrashes' \in 0 .. MaxJobCrashes
    PROVE  JobInv' /\ KeepsKeys
<1> DEFINE r == Begin(job[j].work \ {Cur(j)})
<1>1. r \in JobRecs /\ r.pc \notin Promoting
  BY BeginIsFresh DEF JobInv, JobGood, JobRecs, JobStates
<1>2. job' = [job EXCEPT ![j] = r]
  BY DEF ProcessNext
<1> HIDE DEF r
<1> QED
  BY <1>1, <1>2, QuietStep

\* ... and dying.
LEMMA DeathKeeps ==
    ASSUME PubGood, JobInv, NEW j \in Jobs, Die(j), UNCHANGED dataVars,
           jobCrashes' \in 0 .. MaxJobCrashes
    PROVE  JobInv' /\ KeepsKeys
<1>1. IdleJob \in JobRecs /\ IdleJob.pc \notin Promoting
  BY BeginIsFresh DEF Begin
<1>2. job' = [job EXCEPT ![j] = IdleJob]
  BY DEF Die
<1> QED
  BY <1>1, <1>2, QuietStep

\* Within a group Gate A moves on in its loops, and may record a violation.
LEMMA GroupStep ==
    ASSUME JobInv, NEW j \in Jobs,
           HeadEntry(j) \/ ListGroup(j) \/ SampleEntry(j) \/ EndGroup(j)
    PROVE  \E r \in JobRecs :
              /\ job' = [job EXCEPT ![j] = r]
              /\ r.work = job[j].work /\ r.ds = job[j].ds /\ r.mans = job[j].mans
              /\ r.incomplete = job[j].incomplete /\ (job[j].bad => r.bad)
              /\ r.pc \in {"heads", "profile", "group"}
<1> DEFINE me == job[j]
<1>0. /\ me \in JobRecs /\ me \in JobStates /\ me.pc \in {"heads", "profile"}
      /\ me.work # {} /\ me.todo # {}
  BY DEF JobInv, JobGood, JobRecs, HeadEntry, ListGroup, SampleEntry, EndGroup
<1>1. CASE HeadEntry(j)
  <2> DEFINE f == Min(me.left)
             o == lobj[Cur(j)][f]
             b == \/ me.bad \/ o = Absent
                  \/ SizeOf[o] # SizeOf[me.mans[Min(me.todo)][f]]
             r == [me EXCEPT !.todo = me.todo, !.left = me.left \ {f}, !.bad = b, !.pc = "heads"]
  <2>1. /\ b \in BOOLEAN /\ (me.bad => b) /\ me.todo \in SUBSET Groups
        /\ me.left \ {f} \in SUBSET Files
    BY <1>0 DEF JobStates
  <2>2. job' = [job EXCEPT ![j] = [me EXCEPT !.left = me.left \ {f}, !.bad = b]] /\ me.pc = "heads"
    BY <1>1 DEF HeadEntry
  <2> HIDE DEF b, f
  <2>3. r = [me EXCEPT !.left = me.left \ {f}, !.bad = b]
    BY <1>0, <2>2 DEF JobStates
  <2>4. job' = [job EXCEPT ![j] = r]
    BY <2>2, <2>3
  <2>5. /\ r \in JobStates /\ r.work = me.work /\ r.ds = me.ds /\ r.mans = me.mans
        /\ r.incomplete = me.incomplete /\ (me.bad => r.bad) /\ r.pc = "heads" /\ r.todo = me.todo
    BY <1>0, <2>1 DEF JobStates, JobPhases
  <2> HIDE DEF r
  <2>6. r \in JobRecs
    BY <1>0, <2>5 DEF JobRecs, Promoting
  <2> QED
    BY <2>4, <2>5, <2>6
<1>2. CASE ListGroup(j)
  <2> DEFINE m == me.mans[Min(me.todo)]
             b == me.bad \/ ~Exhaustive(Cur(j), Min(me.todo), m)
             r == [me EXCEPT !.todo = me.todo, !.left = NamesIn(m), !.bad = b, !.pc = "profile"]
  <2>1. /\ b \in BOOLEAN /\ (me.bad => b) /\ me.todo \in SUBSET Groups
        /\ NamesIn(m) \in SUBSET Files
    BY <1>0 DEF JobStates, NamesIn
  <2>2. job' = [job EXCEPT ![j] = [me EXCEPT !.pc = "profile", !.left = NamesIn(m), !.bad = b]]
    BY <1>2 DEF ListGroup
  <2> HIDE DEF b, m
  <2>3. r = [me EXCEPT !.pc = "profile", !.left = NamesIn(m), !.bad = b]
    BY <1>0 DEF JobStates
  <2>4. job' = [job EXCEPT ![j] = r]
    BY <2>2, <2>3
  <2>5. /\ r \in JobStates /\ r.work = me.work /\ r.ds = me.ds /\ r.mans = me.mans
        /\ r.incomplete = me.incomplete /\ (me.bad => r.bad) /\ r.pc = "profile" /\ r.todo = me.todo
    BY <1>0, <2>1 DEF JobStates, JobPhases
  <2> HIDE DEF r
  <2>6. r \in JobRecs
    BY <1>0, <2>5 DEF JobRecs, Promoting
  <2> QED
    BY <2>4, <2>5, <2>6
<1>3. CASE SampleEntry(j)
  <2> DEFINE f == Min(me.left)
             b == me.bad \/ lobj[Cur(j)][f] \in Unfit \cup {Absent}
             r == [me EXCEPT !.todo = me.todo, !.left = me.left \ {f}, !.bad = b,
                     !.pc = "profile"]
  <2>1. /\ b \in BOOLEAN /\ (me.bad => b) /\ me.todo \in SUBSET Groups
        /\ me.left \ {f} \in SUBSET Files
    BY <1>0 DEF JobStates
  <2>2. job' = [job EXCEPT ![j] = [me EXCEPT !.left = me.left \ {f}, !.bad = b]]
        /\ me.pc = "profile"
    BY <1>3 DEF SampleEntry
  <2> HIDE DEF b, f
  <2>3. r = [me EXCEPT !.left = me.left \ {f}, !.bad = b]
    BY <1>0, <2>2 DEF JobStates
  <2>4. job' = [job EXCEPT ![j] = r]
    BY <2>2, <2>3
  <2>5. /\ r \in JobStates /\ r.work = me.work /\ r.ds = me.ds /\ r.mans = me.mans
        /\ r.incomplete = me.incomplete /\ (me.bad => r.bad) /\ r.pc = "profile" /\ r.todo = me.todo
    BY <1>0, <2>1 DEF JobStates, JobPhases
  <2> HIDE DEF r
  <2>6. r \in JobRecs
    BY <1>0, <2>5 DEF JobRecs, Promoting
  <2> QED
    BY <2>4, <2>5, <2>6
<1>4. CASE EndGroup(j)
  <2> DEFINE T == me.todo \ {Min(me.todo)}
             r == [me EXCEPT !.todo = T, !.left = me.left, !.bad = me.bad, !.pc = "group"]
  <2>1. /\ me.bad \in BOOLEAN /\ T \in SUBSET Groups /\ me.left \in SUBSET Files
    BY <1>0 DEF JobStates
  <2>2. job' = [job EXCEPT ![j] = [me EXCEPT !.todo = T, !.pc = "group"]]
    BY <1>4 DEF EndGroup
  <2> HIDE DEF T
  <2>3. r = [me EXCEPT !.todo = T, !.pc = "group"]
    BY <1>0 DEF JobStates
  <2>4. job' = [job EXCEPT ![j] = r]
    BY <2>2, <2>3
  <2>5. /\ r \in JobStates /\ r.work = me.work /\ r.ds = me.ds /\ r.mans = me.mans
        /\ r.incomplete = me.incomplete /\ (me.bad => r.bad) /\ r.pc = "group" /\ r.todo = T
    BY <1>0, <2>1 DEF JobStates, JobPhases
  <2> HIDE DEF r
  <2>6. r \in JobRecs
    BY <1>0, <2>5 DEF JobRecs, Promoting
  <2> QED
    BY <2>4, <2>5, <2>6
<1> QED
  BY <1>1, <1>2, <1>3, <1>4

\* Gate A touches nothing but its own record and the landing markers.
LEMMA GateAKeeps ==
    ASSUME PubGood, JobInv, NEW j \in Jobs,
           Discover(j) \/ RunNamed(j) \/ GateAStep(j) \/ JobCrash(j)
    PROVE  LandingTypeOK' /\ JobInv' /\ KeepsKeys
<1> DEFINE me == job[j]
<1>0. /\ me \in JobRecs /\ me \in JobStates /\ me.work \in SUBSET Versions
      /\ me.todo \in SUBSET Groups /\ me.mans \in [Groups -> Docs]
      /\ me.ds \in Docs /\ me.pc \in JobPhases
      /\ jobCrashes \in 0 .. MaxJobCrashes /\ MaxJobCrashes \in Nat
  BY PromoteAssumption DEF JobInv, JobGood, JobRecs, JobStates
<1>cur. ASSUME me.pc # "idle" PROVE Cur(j) \in Versions
  BY <1>0, <1>cur, MinOfVersions DEF Cur, JobRecs
<1>frame. ASSUME UNCHANGED landingVars PROVE LandingTypeOK'
  BY <1>frame DEF PubGood, LandingTypeOK, landingVars
<1>1. CASE Discover(j)
  <2>1. Pending \in SUBSET Versions
    BY DEF Pending
  <2>2. Begin(Pending) \in JobRecs /\ Begin(Pending).pc \notin Promoting
    BY <2>1, BeginIsFresh
  <2>3. job' = [job EXCEPT ![j] = Begin(Pending)] /\ UNCHANGED dataVars
    BY <1>1 DEF Discover
  <2>4. JobInv' /\ KeepsKeys
    BY <1>0, <1>1, <2>2, <2>3, QuietStep DEF Discover
  <2> QED
    BY <1>1, <1>frame, <2>4 DEF Discover
<1>2. CASE RunNamed(j)
  <2>1. PICK v \in Named : job' = [job EXCEPT ![j] = Begin({v})]
    BY <1>2 DEF RunNamed
  <2>2. Begin({v}) \in JobRecs /\ Begin({v}).pc \notin Promoting
    BY BeginIsFresh, PromoteAssumption
  <2>3. JobInv' /\ KeepsKeys
    BY <1>0, <1>2, <2>1, <2>2, QuietStep DEF RunNamed
  <2> QED
    BY <1>2, <1>frame, <2>3 DEF RunNamed
<1>3. CASE LoadDs(j)
  <2> DEFINE ds == lds[Cur(j)]
             r == IF ds = NoDoc THEN [me EXCEPT !.bad = TRUE, !.pc = "verdict"]
                  ELSE [me EXCEPT !.ds = ds, !.todo = GroupsIn(ds), !.pc = "group"]
  <2>1. ds \in Docs /\ (ds # NoDoc => GroupsIn(ds) \subseteq Groups)
    BY <1>0, <1>3, <1>cur, TreeFacts DEF LoadDs, PubGood, LandingTypeOK, Docs
  <2>2. r \in JobRecs /\ r.pc \notin Promoting
    <3> HIDE DEF ds
    <3>1. r \in JobStates /\ r.pc \in {"verdict", "group"} /\ r.work = me.work /\ me.work # {}
      BY <1>0, <1>3, <2>1 DEF LoadDs, JobRecs, JobStates, JobPhases
    <3> HIDE DEF r
    <3> QED
      BY <3>1 DEF JobRecs, Promoting
  <2>3. job' = [job EXCEPT ![j] = r]
    BY <1>3 DEF LoadDs
  <2> HIDE DEF r
  <2>4. JobInv' /\ KeepsKeys
    BY <1>0, <1>3, <2>2, <2>3, QuietStep DEF LoadDs
  <2> QED
    BY <1>3, <1>frame, <2>4 DEF LoadDs
<1>4. CASE LoadManifest(j)
  <2> DEFINE g == Min(me.todo)
             m == lman[Cur(j)][g]
             r == IF m = NoDoc THEN [me EXCEPT !.incomplete = TRUE, !.todo = @ \ {g}]
                  ELSE [me EXCEPT !.mans[g] = m, !.pc = "heads", !.left = NamesIn(m),
                          !.bad = @ \/ m # Part(me.ds, g)]
  <2>1. g \in Groups /\ g \in me.todo
    BY <1>0, <1>4, MinOfGroups DEF LoadManifest
  <2>2. m \in Docs
    BY <1>0, <1>4, <1>cur, <2>1 DEF LoadManifest, PubGood, LandingTypeOK
  <2>3. r \in JobRecs /\ r.pc \notin Promoting
    <3> HIDE DEF g, m
    <3>1. (me.bad \/ m # Part(me.ds, g)) \in BOOLEAN
      OBVIOUS
    <3>2. [me.mans EXCEPT ![g] = m] \in [Groups -> Docs] /\ NamesIn(m) \in SUBSET Files
      BY <1>0, <2>1, <2>2 DEF NamesIn
    <3>3. CASE m = NoDoc
      <4>1. r \in JobStates /\ r.pc = "group" /\ r.work = me.work /\ me.work # {}
        BY <1>0, <1>4, <3>3 DEF LoadManifest, JobRecs, JobStates, JobPhases
      <4> HIDE DEF r
      <4> QED
        BY <4>1 DEF JobRecs, Promoting
    <3>4. CASE m # NoDoc
      <4>1. /\ r \in JobStates /\ r.pc = "heads" /\ r.work = me.work /\ me.work # {}
            /\ r.todo = me.todo /\ me.todo # {}
        BY <1>0, <1>4, <3>1, <3>2, <3>4 DEF LoadManifest, JobRecs, JobStates, JobPhases
      <4> HIDE DEF r
      <4> QED
        BY <4>1 DEF JobRecs, Promoting
    <3> QED
      BY <3>3, <3>4
  <2>4. job' = [job EXCEPT ![j] = r]
    BY <1>4 DEF LoadManifest
  <2> HIDE DEF r
  <2>5. JobInv' /\ KeepsKeys
    BY <1>0, <1>4, <2>3, <2>4, QuietStep DEF LoadManifest
  <2> QED
    BY <1>4, <1>frame, <2>5 DEF LoadManifest
<1>5. CASE HeadEntry(j) \/ ListGroup(j) \/ SampleEntry(j) \/ EndGroup(j)
  <2>1. PICK r \in JobRecs :
           r.pc \in {"heads", "profile", "group"} /\ job' = [job EXCEPT ![j] = r]
    BY <1>5, GroupStep
  <2>2. UNCHANGED dataVars /\ UNCHANGED landingVars /\ UNCHANGED jobCrashes
    BY <1>5 DEF HeadEntry, ListGroup, SampleEntry, EndGroup
  <2>3. JobInv' /\ KeepsKeys
    BY <1>0, <2>1, <2>2, QuietStep DEF Promoting
  <2> QED
    BY <1>frame, <2>2, <2>3
<1>6. CASE Sweep(j)
  <2> DEFINE b == me.bad \/ (/\ ~me.incomplete
                             /\ \/ ~(NamesIn(lobj[Cur(j)]) \subseteq Listed(j))
                                \/ Cardinality(Listed(j)) # Cardinality(NamesIn(me.ds)))
             r == [me EXCEPT !.pc = "verdict", !.bad = b]
  <2>1. r \in JobRecs /\ r.pc \notin Promoting
    <3>1. b \in BOOLEAN
      OBVIOUS
    <3> HIDE DEF b
    <3>2. r \in JobStates /\ r.pc = "verdict" /\ r.work = me.work /\ me.work # {}
      BY <1>0, <1>6, <3>1 DEF Sweep, JobRecs, JobStates, JobPhases
    <3> HIDE DEF r
    <3> QED
      BY <3>2 DEF JobRecs, Promoting
  <2>2. job' = [job EXCEPT ![j] = r]
    BY <1>6 DEF Sweep
  <2> HIDE DEF r
  <2>3. JobInv' /\ KeepsKeys
    BY <1>0, <1>6, <2>1, <2>2, QuietStep DEF Sweep
  <2> QED
    BY <1>6, <1>frame, <2>3 DEF Sweep
<1>7. CASE LeaveIncomplete(j)
  BY <1>0, <1>7, <1>frame, NextKeeps DEF LeaveIncomplete
<1>8. CASE Reject(j)
  <2>1. marks' \in [Versions -> SUBSET Marks]
    BY <1>8, <1>cur DEF Reject, PubGood, LandingTypeOK, Marks
  <2>2. LandingTypeOK'
    BY <1>8, <2>1 DEF Reject, PubGood, LandingTypeOK
  <2> QED
    BY <1>0, <1>8, <2>2, NextKeeps DEF Reject
<1>9. CASE JobCrash(j)
  <2>1. jobCrashes' \in 0 .. MaxJobCrashes
    BY <1>0, <1>9 DEF JobCrash
  <2> QED
    BY <1>9, <1>frame, <2>1, DeathKeeps DEF JobCrash
<1> QED
  BY <1>1, <1>2, <1>3, <1>4, <1>5, <1>6, <1>7, <1>8, <1>9 DEF GateAStep

\* promote() up to the copies: it reads landing again and collects the keys to copy.
LEMMA ReloadKeeps ==
    ASSUME PubGood, JobInv, NEW j \in Jobs, CheckSeal(j) \/ ReloadDs(j) \/ ReloadManifest(j)
    PROVE  LandingTypeOK' /\ JobInv' /\ KeepsKeys
<1> DEFINE me == job[j]
<1>0. /\ me \in JobRecs /\ me \in JobStates /\ me.work \in SUBSET Versions
      /\ me.todo \in SUBSET Groups /\ me.mans \in [Groups -> Docs]
      /\ me.keys \in SUBSET Keys /\ me.ds \in Docs /\ jobCrashes \in 0 .. MaxJobCrashes
  BY DEF JobInv, JobGood, JobRecs, JobStates
<1>cur. ASSUME me.pc # "idle" PROVE Cur(j) \in Versions
  BY <1>0, <1>cur, MinOfVersions DEF Cur, JobRecs
<1>q. /\ UNCHANGED landingVars /\ UNCHANGED dataVars /\ UNCHANGED jobCrashes
      /\ LandingTypeOK' /\ DataTypeOK' /\ KeepsKeys
  BY KeepsKeysUnchanged
     DEF CheckSeal, ReloadDs, ReloadManifest, PubGood, LandingTypeOK, landingVars,
         JobInv, JobGood, DataTypeOK, dataVars
<1>die. ASSUME Die(j) PROVE JobInv'
  BY <1>0, <1>q, <1>die, DeathKeeps
<1>1. CASE CheckSeal(j)
  <2>1. CASE seal[Cur(j)] # NoDoc
    BY <1>1, <1>q, <1>die, <2>1 DEF CheckSeal
  <2>2. CASE seal[Cur(j)] = NoDoc
    <3> DEFINE r == [me EXCEPT !.pc = "reloadds"]
    <3>1. r \in JobRecs /\ r.pc \notin Promoting
      BY <1>0, <1>1 DEF CheckSeal, JobRecs, JobStates, JobPhases, Promoting
    <3>2. job' = [job EXCEPT ![j] = r]
      BY <1>1, <2>2 DEF CheckSeal
    <3> HIDE DEF r
    <3> QED
      BY <1>0, <1>q, <3>1, <3>2, QuietStep
  <2> QED
    BY <2>1, <2>2
<1>2. CASE ReloadDs(j)
  <2> DEFINE ds == lds[Cur(j)]
  <2>1. CASE ds = NoDoc
    BY <1>2, <1>q, <1>die, <2>1 DEF ReloadDs
  <2>2. CASE ds # NoDoc
    <3> DEFINE blank == [g \in Groups |-> NoDoc]
               r == [me EXCEPT !.ds = ds, !.todo = GroupsIn(ds), !.mans = blank, !.keys = {DsKey},
                       !.pc = IF GroupsIn(ds) = {} THEN "copy" ELSE "reloadmans"]
    <3>1. ds \in Trees /\ ds \in Docs /\ GroupsIn(ds) \subseteq Groups
      BY <1>0, <1>2, <1>cur, <2>2, TreeFacts DEF ReloadDs, PubGood, LandingTypeOK, Docs
    <3>2. blank \in [Groups -> Docs] /\ {DsKey} \in SUBSET Keys
      BY DEF Docs, Keys
    <3>3. /\ r \in JobStates /\ r.work = me.work /\ me.work # {} /\ r.ds = ds /\ r.keys = {DsKey}
          /\ r.todo = GroupsIn(ds) /\ r.mans = blank
          /\ r.pc = (IF GroupsIn(ds) = {} THEN "copy" ELSE "reloadmans")
      <4> HIDE DEF ds, blank
      <4> QED
        BY <1>0, <1>2, <3>1, <3>2 DEF ReloadDs, JobRecs, JobStates, JobPhases
    <3>4. job' = [job EXCEPT ![j] = r]
      BY <1>2, <2>2 DEF ReloadDs
    <3>5. r \in JobRecs
      <4> HIDE DEF r, ds, blank
      <4> QED
        BY <3>1, <3>3 DEF JobRecs, Promoting
    <3>6. Placed(j)'
      <4>1. job'[j] = r
        BY <3>4 DEF JobInv, JobGood
      <4>2. \A g \in Groups : job'[j].mans[g] = NoDoc
        BY <3>3, <4>1
      <4>3. Listed(j)' = {}
        BY <4>2 DEF Listed
      <4> HIDE DEF r, ds, blank
      <4> QED
        BY <3>3, <4>1, <4>3 DEF Placed
    <3> HIDE DEF r
    <3> QED
      BY <1>0, <1>q, <3>4, <3>5, <3>6, OneJobMoves
  <2> QED
    BY <2>1, <2>2
<1>3. CASE ReloadManifest(j)
  <2> DEFINE g == Min(me.todo)
             m == lman[Cur(j)][g]
  <2>1. CASE m = NoDoc
    BY <1>3, <1>q, <1>die, <2>1 DEF ReloadManifest
  <2>2. CASE m # NoDoc
    <3> DEFINE more == me.keys \cup {ManKey(g)} \cup {ObjKey(f) : f \in NamesIn(m)}
               ms   == [me.mans EXCEPT ![g] = m]
               r == [me EXCEPT !.mans = ms, !.todo = @ \ {g}, !.keys = more,
                       !.pc = IF me.todo = {g} THEN "copy" ELSE @]
    <3>1. g \in Groups /\ g \in me.todo /\ me.ds \in Trees
      BY <1>0, <1>3, MinOfGroups DEF ReloadManifest, JobRecs, Promoting
    <3>2. m \in Docs /\ m \in Trees
      <4>1. Cur(j) \in Versions
        BY <1>3, <1>cur DEF ReloadManifest
      <4>2. m \in Docs
        <5> HIDE DEF g
        <5> QED
          BY <3>1, <4>1 DEF PubGood, LandingTypeOK
      <4> QED
        BY <2>2, <4>2 DEF Docs
    <3>3. ms \in [Groups -> Docs] /\ more \in SUBSET Keys
      <4>1. NamesIn(m) \subseteq Files
        BY <3>2, TreeFacts
      <4> HIDE DEF g, m
      <4>2. ms \in [Groups -> Docs]
        BY <1>0, <3>1, <3>2
      <4>3. more \in SUBSET Keys
        BY <1>0, <3>1, <4>1 DEF Keys
      <4> QED
        BY <4>2, <4>3
    <3>4. /\ r \in JobStates /\ r.work = me.work /\ me.work # {} /\ r.ds = me.ds /\ r.keys = more
          /\ r.todo = me.todo \ {g} /\ r.mans = ms
          /\ r.pc = (IF me.todo = {g} THEN "copy" ELSE "reloadmans")
      <4> HIDE DEF g, more, ms
      <4> QED
        BY <1>0, <1>3, <3>1, <3>3 DEF ReloadManifest, JobRecs, JobStates, JobPhases
    <3>5. job' = [job EXCEPT ![j] = r]
      BY <1>3, <2>2 DEF ReloadManifest
    <3>6. r \in JobRecs
      <4> HIDE DEF r, g, ms, more
      <4> QED
        BY <3>1, <3>4 DEF JobRecs, Promoting
    <3>7. Placed(j)'
      <4>1. job'[j] = r /\ Cur(j)' = Cur(j)
        BY <3>4, <3>5 DEF JobInv, JobGood, Cur
      <4>2. /\ DsKey \in me.keys \/ dds[Cur(j)] # NoDoc
            /\ \A h \in GroupsIn(me.ds) \ me.todo :
                 ManKey(h) \in me.keys \/ dman[Cur(j)][h] # NoDoc
            /\ \A f \in Listed(j) : ObjKey(f) \in me.keys \/ dobj[Cur(j)][f] # Absent
        BY <1>3 DEF ReloadManifest, JobInv, Placed, Promoting
      <4>3. \A f \in Listed(j)' : f \in Listed(j) \/ f \in NamesIn(m)
        <5> SUFFICES ASSUME NEW f \in Listed(j)' PROVE f \in Listed(j) \/ f \in NamesIn(m)
          OBVIOUS
        <5>1. PICK h \in Groups : r.mans[h] # NoDoc /\ r.mans[h][f] # Absent
          <6> HIDE DEF r
          <6> QED
            BY <4>1 DEF Listed
        <5>2. f \in Files
          BY DEF Listed
        <5>3. CASE h = g
          BY <1>0, <3>1, <3>4, <5>1, <5>2, <5>3 DEF NamesIn
        <5>4. CASE h # g
          BY <1>0, <3>4, <5>1, <5>2, <5>4 DEF Listed
        <5> QED
          BY <5>3, <5>4
      <4>4. UNCHANGED <<dds, dman, dobj>>
        BY <1>q DEF dataVars
      <4>5. ManKey(g) \in more /\ me.keys \subseteq more
            /\ \A f \in NamesIn(m) : ObjKey(f) \in more
        OBVIOUS
      <4> HIDE DEF r, g, m, more, ms
      <4>6. r.pc \notin {"crcs", "catalog", "seal", "mark"}
        BY <3>4
      <4>7. DsKey \in more \/ dds[Cur(j)] # NoDoc
        BY <4>2, <4>5
      <4>8. \A h \in GroupsIn(me.ds) \ (me.todo \ {g}) :
              ManKey(h) \in more \/ dman[Cur(j)][h] # NoDoc
        BY <4>2, <4>5
      <4>9. \A f \in Listed(j)' : ObjKey(f) \in more \/ dobj[Cur(j)][f] # Absent
        BY <4>2, <4>3, <4>5
      <4> QED
        BY <3>4, <4>1, <4>4, <4>6, <4>7, <4>8, <4>9 DEF Placed
    <3> HIDE DEF r
    <3> QED
      BY <1>0, <1>q, <3>5, <3>6, <3>7, OneJobMoves
  <2> QED
    BY <2>1, <2>2
<1> QED
  BY <1>1, <1>2, <1>3, <1>q

\* A finished copy takes its key off the list, and the key is there.
LEMMA OneCopy ==
    ASSUME PubGood, JobInv, NEW j \in Jobs, job[j].pc = "copy", NEW k \in job[j].keys, Copied(j, k),
           DataTypeOK', KeepsKeys, UNCHANGED jobCrashes,
           k = DsKey => dds'[Cur(j)] # NoDoc,
           \A g \in Groups : k = ManKey(g) => dman'[Cur(j)][g] # NoDoc,
           \A f \in Files : k = ObjKey(f) => dobj'[Cur(j)][f] # Absent
    PROVE  JobInv'
<1> DEFINE me == job[j]
           r  == IF me.keys = {k}
                 THEN [me EXCEPT !.keys = {}, !.left = Listed(j), !.crc = Empty, !.pc = "crcs"]
                 ELSE [me EXCEPT !.keys = @ \ {k}]
<1>0. /\ me \in JobRecs /\ me \in JobStates /\ me.keys \in SUBSET Keys /\ me.ds \in Trees
      /\ me.work \in SUBSET Versions /\ me.work # {} /\ me.todo = {}
      /\ jobCrashes' \in 0 .. MaxJobCrashes
  BY DEF JobInv, JobGood, JobRecs, JobStates, Promoting
<1>1. Cur(j) \in Versions
  BY <1>0, MinOfVersions DEF Cur
<1>2. /\ r \in JobStates /\ r.work = me.work /\ r.ds = me.ds /\ r.todo = me.todo
      /\ r.mans = me.mans /\ r.keys = me.keys \ {k}
      /\ r.pc = (IF me.keys = {k} THEN "crcs" ELSE "copy")
      /\ r.pc = "crcs" => r.crc = Empty
  <2>1. Listed(j) \in SUBSET Files /\ Empty \in Trees
    BY TreeFacts DEF Listed
  <2> QED
    BY <1>0, <2>1 DEF JobStates, JobPhases
<1>3. job' = [job EXCEPT ![j] = r]
  BY DEF Copied
<1> HIDE DEF r
<1>4. r \in JobRecs
  BY <1>0, <1>2 DEF JobRecs, Promoting
<1>5. /\ job'[j] = r /\ Cur(j)' = Cur(j) /\ Listed(j)' = Listed(j)
  BY <1>2, <1>3 DEF JobInv, JobGood, Cur, Listed
<1>6. GroupsIn(me.ds) \subseteq Groups /\ Listed(j) \subseteq Files
  BY <1>0, TreeFacts DEF Listed
<1>7. /\ DsKey \in me.keys \/ dds[Cur(j)] # NoDoc
      /\ \A g \in GroupsIn(me.ds) : ManKey(g) \in me.keys \/ dman[Cur(j)][g] # NoDoc
      /\ \A f \in Listed(j) : ObjKey(f) \in me.keys \/ dobj[Cur(j)][f] # Absent
  BY <1>0 DEF JobInv, Placed, Promoting
<1>8. DsKey \in r.keys \/ dds'[Cur(j)] # NoDoc
  BY <1>1, <1>2, <1>7 DEF KeepsKeys
<1>9. \A g \in GroupsIn(r.ds) \ r.todo : ManKey(g) \in r.keys \/ dman'[Cur(j)][g] # NoDoc
  BY <1>1, <1>2, <1>6, <1>7 DEF KeepsKeys
<1>10. \A f \in Listed(j) : ObjKey(f) \in r.keys \/ dobj'[Cur(j)][f] # Absent
  BY <1>1, <1>2, <1>6, <1>7 DEF KeepsKeys
<1>11. r.pc \notin {"catalog", "seal", "mark"} /\ (r.pc = "crcs" => NamesIn(r.crc) = {})
  BY <1>2, TreeFacts
<1>12. Placed(j)'
  BY <1>5, <1>8, <1>9, <1>10, <1>11 DEF Placed
<1> QED
  BY <1>0, <1>3, <1>4, <1>12, OneJobMoves

\* The three kinds of copies.
LEMMA CopyKeeps ==
    ASSUME PubGood, JobInv, NEW j \in Jobs, CopyDs(j) \/ CopyManifest(j) \/ CopyPayload(j)
    PROVE  LandingTypeOK' /\ JobInv' /\ KeepsKeys
<1>0. /\ DataTypeOK /\ job[j].work \in SUBSET Versions /\ job[j].pc = "copy" /\ job[j].work # {}
      /\ jobCrashes' \in 0 .. MaxJobCrashes /\ UNCHANGED jobCrashes /\ LandingTypeOK'
  BY DEF CopyDs, CopyManifest, CopyPayload, JobInv, JobGood, JobRecs, JobStates,
         PubGood, LandingTypeOK, landingVars
<1>1. Cur(j) \in Versions
  BY <1>0, MinOfVersions DEF Cur
<1> DEFINE v == Cur(j)
<1>2. CASE CopyDs(j)
  <2>1. CASE lds[v] = NoDoc
    BY <1>0, <1>2, <2>1, DeathKeeps DEF CopyDs, dataVars
  <2>2. CASE lds[v] # NoDoc
    <3>1. Copied(j, DsKey) /\ dds' = [dds EXCEPT ![v] = lds[v]]
          /\ UNCHANGED <<dman, dobj, catalog, seal>>
      BY <1>2, <2>2 DEF CopyDs
    <3>2. DataTypeOK' /\ KeepsKeys /\ dds'[v] # NoDoc
      BY <1>0, <1>1, <2>2, <3>1 DEF DataTypeOK, KeepsKeys, PubGood, LandingTypeOK
    <3>3. /\ \A g \in Groups : DsKey # ManKey(g)
          /\ \A f \in Files : DsKey # ObjKey(f)
      BY DEF DsKey, ManKey, ObjKey
    <3> QED
      BY <1>0, <1>2, <3>1, <3>2, <3>3, OneCopy DEF CopyDs
  <2> QED
    BY <2>1, <2>2
<1>3. CASE CopyManifest(j)
  <2>1. PICK g \in Groups :
          /\ ManKey(g) \in job[j].keys
          /\ IF lman[v][g] = NoDoc THEN Die(j) /\ UNCHANGED dman
             ELSE Copied(j, ManKey(g)) /\ dman' = [dman EXCEPT ![v][g] = lman[v][g]]
    BY <1>3 DEF CopyManifest
  <2>2. CASE lman[v][g] = NoDoc
    BY <1>0, <1>3, <2>1, <2>2, DeathKeeps DEF CopyManifest, dataVars
  <2>3. CASE lman[v][g] # NoDoc
    <3>1. Copied(j, ManKey(g)) /\ dman' = [dman EXCEPT ![v][g] = lman[v][g]]
          /\ UNCHANGED <<dds, dobj, catalog, seal>>
      BY <1>3, <2>1, <2>3 DEF CopyManifest
    <3>2. lman[v][g] \in Docs
      BY <1>1 DEF PubGood, LandingTypeOK
    <3>3. DataTypeOK' /\ dman'[v][g] # NoDoc
      BY <1>0, <1>1, <2>3, <3>1, <3>2 DEF DataTypeOK
    <3>4. KeepsKeys
      BY <1>0, <1>1, <2>3, <3>1 DEF DataTypeOK, KeepsKeys
    <3>5. /\ ManKey(g) # DsKey
          /\ \A h \in Groups : ManKey(g) = ManKey(h) => g = h
          /\ \A f \in Files : ManKey(g) # ObjKey(f)
      BY DEF DsKey, ManKey, ObjKey
    <3> QED
      BY <1>0, <2>1, <3>1, <3>3, <3>4, <3>5, OneCopy
  <2> QED
    BY <2>2, <2>3
<1>4. CASE CopyPayload(j)
  <2>1. PICK f \in Files :
          /\ ObjKey(f) \in job[j].keys
          /\ IF lobj[v][f] = Absent THEN Die(j) /\ UNCHANGED dobj
             ELSE Copied(j, ObjKey(f)) /\ dobj' = [dobj EXCEPT ![v][f] = lobj[v][f]]
    BY <1>4 DEF CopyPayload
  <2>2. CASE lobj[v][f] = Absent
    BY <1>0, <1>4, <2>1, <2>2, DeathKeeps DEF CopyPayload, dataVars
  <2>3. CASE lobj[v][f] # Absent
    <3>1. Copied(j, ObjKey(f)) /\ dobj' = [dobj EXCEPT ![v][f] = lobj[v][f]]
          /\ UNCHANGED <<dds, dman, catalog, seal>>
      BY <1>4, <2>1, <2>3 DEF CopyPayload
    <3>2. lobj[v][f] \in Contents \cup {Absent} /\ dobj[v] \in Trees
      BY <1>0, <1>1 DEF PubGood, LandingTypeOK, Trees, DataTypeOK
    <3>3. [dobj[v] EXCEPT ![f] = lobj[v][f]] \in Trees
      BY <3>2 DEF Trees
    <3>4. DataTypeOK' /\ dobj'[v][f] # Absent
      BY <1>0, <1>1, <2>3, <3>1, <3>2, <3>3 DEF DataTypeOK, Trees
    <3>5. KeepsKeys
      BY <1>0, <1>1, <2>3, <3>1 DEF DataTypeOK, Trees, KeepsKeys
    <3>6. /\ ObjKey(f) # DsKey
          /\ \A g \in Groups : ObjKey(f) # ManKey(g)
          /\ \A e \in Files : ObjKey(f) = ObjKey(e) => e = f
      BY DEF DsKey, ManKey, ObjKey
    <3> QED
      BY <1>0, <2>1, <3>1, <3>4, <3>5, <3>6, OneCopy
  <2> QED
    BY <2>2, <2>3
<1> QED
  BY <1>2, <1>3, <1>4

\* When every copy is done, what a promoting job names is in the data bucket.
LEMMA AllPlaced ==
    ASSUME JobInv, NEW j \in Jobs, job[j].pc \in Promoting \ {"reloadmans", "copy"}
    PROVE  /\ dds[Cur(j)] # NoDoc
           /\ \A g \in GroupsIn(job[j].ds) : dman[Cur(j)][g] # NoDoc
           /\ \A f \in Listed(j) : dobj[Cur(j)][f] # Absent
  BY DEF JobInv, JobGood, JobRecs, Placed

\* From the CRCs to the landing marker.
LEMMA SealingKeeps ==
    ASSUME PubGood, JobInv, NEW j \in Jobs,
           HeadCrc(j) \/ ReadRoot(j) \/ PutCatalog(j) \/ PutSeal(j) \/ MarkValidated(j)
    PROVE  LandingTypeOK' /\ JobInv' /\ KeepsKeys
<1> DEFINE me == job[j]
           v  == Cur(j)
<1>0. /\ me \in JobRecs /\ me \in JobStates /\ me.work \in SUBSET Versions /\ me.work # {}
      /\ me.ds \in Trees /\ me.root \in Docs /\ me.crc \in Trees /\ me.keys = {} /\ me.todo = {}
      /\ me.pc \in Promoting \ {"reloadmans", "copy"} /\ DataTypeOK /\ PubGood
      /\ jobCrashes' \in 0 .. MaxJobCrashes
  BY DEF HeadCrc, ReadRoot, PutCatalog, PutSeal, MarkValidated,
         JobInv, JobGood, JobRecs, JobStates, Promoting
<1>1. v \in Versions
  BY <1>0, MinOfVersions DEF Cur
<1>2. /\ dds[v] # NoDoc
      /\ \A g \in GroupsIn(me.ds) : dman[v][g] # NoDoc
      /\ \A f \in Listed(j) : dobj[v][f] # Absent
  BY <1>0, AllPlaced
<1>there. ASSUME NEW r, job' = [job EXCEPT ![j] = r], r.work = me.work, r.ds = me.ds,
                 r.mans = me.mans, KeepsKeys,
                 r.pc \in {"crcs", "catalog", "seal"} =>
                    \A f \in NamesIn(r.crc) : f \in Files /\ dobj[v][f] # Absent,
                 r.pc = "seal" => catalog'[v] # NoDoc,
                 r.pc = "mark" => seal'[v] # NoDoc
          PROVE  Placed(j)'
  <2>1. job'[j] = r /\ Cur(j)' = v /\ Listed(j)' = Listed(j)
    BY <1>there DEF JobInv, JobGood, Cur, Listed
  <2>2. GroupsIn(me.ds) \subseteq Groups /\ Listed(j) \subseteq Files
    BY <1>0, TreeFacts DEF Listed
  <2>3. /\ dds'[v] # NoDoc
        /\ \A g \in GroupsIn(r.ds) : dman'[v][g] # NoDoc
        /\ \A f \in Listed(j) : dobj'[v][f] # Absent
    BY <1>1, <1>2, <1>there, <2>2 DEF KeepsKeys
  <2>4. r.pc \in {"crcs", "catalog", "seal"} => \A f \in NamesIn(r.crc) : dobj'[v][f] # Absent
    BY <1>1, <1>there DEF KeepsKeys
  <2> QED
    BY <1>there, <2>1, <2>3, <2>4 DEF Placed
<1>crc. me.pc \in {"crcs", "catalog", "seal"} =>
          \A f \in NamesIn(me.crc) : f \in Files /\ dobj[v][f] # Absent
  BY DEF JobInv, Placed, NamesIn
<1>3. CASE HeadCrc(j)
  <2>a. PICK f \in me.left : \E c \in {dobj[v][f], Absent} :
           job' = [job EXCEPT ![j] = [me EXCEPT !.crc[f] = c, !.left = @ \ {f}]]
    BY <1>3 DEF HeadCrc
  <2>0. PICK c \in {dobj[v][f], Absent} :
           job' = [job EXCEPT ![j] = [me EXCEPT !.crc[f] = c, !.left = @ \ {f}]]
    BY <2>a
  <2> DEFINE r == [me EXCEPT !.crc[f] = c, !.left = @ \ {f}]
             d == [me.crc EXCEPT ![f] = c]
  <2>1. d \in Trees /\ \A e \in NamesIn(d) : e \in Files /\ dobj[v][e] # Absent
    <3>1. me.left \in SUBSET Files /\ dobj[v] \in Trees /\ me.pc = "crcs"
      BY <1>0, <1>1, <1>3 DEF JobStates, DataTypeOK, HeadCrc
    <3>2. d \in Trees
      BY <1>0, <3>1 DEF Trees
    <3>3. ASSUME NEW e \in Files, d[e] # Absent PROVE dobj[v][e] # Absent
      <4>1. CASE e = f
        BY <1>0, <2>0, <3>1, <3>3, <4>1 DEF Trees
      <4>2. CASE e # f
        BY <1>0, <1>crc, <3>1, <3>3, <4>2 DEF Trees, NamesIn
      <4> QED
        BY <4>1, <4>2
    <3> QED
      BY <3>2, <3>3 DEF NamesIn
  <2>2. /\ r \in JobStates /\ r.pc = "crcs" /\ r.crc = d /\ r.work = me.work /\ r.ds = me.ds
        /\ r.mans = me.mans /\ r.keys = {} /\ r.todo = {}
    <3> HIDE DEF d
    <3> QED
      BY <1>0, <1>3, <2>1 DEF HeadCrc, JobStates, JobPhases, d
  <2>3. job' = [job EXCEPT ![j] = r] /\ UNCHANGED dataVars /\ UNCHANGED landingVars
    BY <1>3, <2>0 DEF HeadCrc
  <2> HIDE DEF r, d
  <2>4. r \in JobRecs
    BY <1>0, <2>2 DEF JobRecs, Promoting
  <2>5. KeepsKeys /\ DataTypeOK' /\ LandingTypeOK'
    BY <1>0, <2>3, KeepsKeysUnchanged
       DEF DataTypeOK, dataVars, PubGood, LandingTypeOK, landingVars
  <2>6. Placed(j)'
    BY <1>there, <2>1, <2>2, <2>3, <2>5
  <2> QED
    BY <1>0, <2>3, <2>4, <2>5, <2>6, OneJobMoves
<1>4. CASE ReadRoot(j)
  <2> DEFINE r == [me EXCEPT !.pc = "catalog", !.root = dds[v]]
  <2>1. /\ r \in JobStates /\ r.pc = "catalog" /\ r.crc = me.crc /\ r.work = me.work
        /\ r.ds = me.ds /\ r.mans = me.mans /\ r.keys = {} /\ r.todo = {} /\ r.root # NoDoc
    BY <1>0, <1>1, <1>2 DEF JobStates, JobPhases, DataTypeOK
  <2>2. job' = [job EXCEPT ![j] = r] /\ UNCHANGED dataVars /\ UNCHANGED landingVars
        /\ me.pc = "crcs"
    BY <1>4 DEF ReadRoot
  <2> HIDE DEF r
  <2>3. r \in JobRecs
    BY <1>0, <2>1 DEF JobRecs, Promoting
  <2>4. KeepsKeys /\ DataTypeOK' /\ LandingTypeOK'
    BY <1>0, <2>2, KeepsKeysUnchanged
       DEF DataTypeOK, dataVars, PubGood, LandingTypeOK, landingVars
  <2>5. Placed(j)'
    BY <1>there, <1>crc, <2>1, <2>2, <2>4
  <2> QED
    BY <1>0, <2>2, <2>3, <2>4, <2>5, OneJobMoves
<1>5. CASE PutCatalog(j)
  <2> DEFINE r == [me EXCEPT !.pc = "seal"]
  <2>1. /\ me.pc = "catalog" /\ me.root # NoDoc
        /\ job' = [job EXCEPT ![j] = r] /\ catalog' = [catalog EXCEPT ![v] = me.root]
        /\ UNCHANGED <<dds, dman, dobj, seal>> /\ UNCHANGED landingVars
    BY <1>0, <1>5 DEF PutCatalog, JobRecs
  <2>2. /\ r \in JobStates /\ r.pc = "seal" /\ r.crc = me.crc /\ r.work = me.work
        /\ r.ds = me.ds /\ r.mans = me.mans /\ r.keys = {} /\ r.todo = {} /\ r.root # NoDoc
    BY <1>0, <2>1 DEF JobStates, JobPhases
  <2> HIDE DEF r
  <2>3. r \in JobRecs
    BY <1>0, <2>2 DEF JobRecs, Promoting
  <2>4. DataTypeOK' /\ KeepsKeys /\ catalog'[v] # NoDoc
    BY <1>0, <1>1, <2>1 DEF DataTypeOK, KeepsKeys
  <2>5. LandingTypeOK'
    BY <1>0, <2>1 DEF PubGood, LandingTypeOK, landingVars
  <2>6. Placed(j)'
    BY <1>there, <1>crc, <2>1, <2>2, <2>4
  <2> QED
    BY <1>0, <2>1, <2>3, <2>4, <2>5, <2>6, OneJobMoves
<1>6. CASE PutSeal(j)
  <2> DEFINE r == [me EXCEPT !.pc = "mark"]
             s == [root |-> me.root, pinned |-> me.ds, crc |-> me.crc]
  <2>1. /\ job' = [job EXCEPT ![j] = r] /\ seal' = [seal EXCEPT ![v] = s]
        /\ UNCHANGED <<dds, dman, dobj, catalog>> /\ UNCHANGED landingVars
    BY <1>6 DEF PutSeal
  <2>2. /\ r \in JobStates /\ r.pc = "mark" /\ r.work = me.work
        /\ r.ds = me.ds /\ r.mans = me.mans /\ r.keys = {} /\ r.todo = {}
    BY <1>0 DEF JobStates, JobPhases
  <2>3. s \in Seals /\ s # NoDoc
    <3>1. s \in Seals
      BY <1>0 DEF Seals
    <3> HIDE DEF s
    <3> QED
      BY <3>1, BucketsAssumption
  <2> HIDE DEF r, s
  <2>4. r \in JobRecs
    BY <1>0, <2>2 DEF JobRecs, Promoting
  <2>5. DataTypeOK' /\ KeepsKeys /\ seal'[v] # NoDoc
    BY <1>0, <1>1, <2>1, <2>3 DEF DataTypeOK, KeepsKeys
  <2>6. LandingTypeOK'
    BY <1>0, <2>1 DEF PubGood, LandingTypeOK, landingVars
  <2>7. Placed(j)'
    BY <1>there, <2>1, <2>2, <2>5
  <2> QED
    BY <1>0, <2>1, <2>4, <2>5, <2>6, <2>7, OneJobMoves
<1>7. CASE MarkValidated(j)
  <2>1. marks' \in [Versions -> SUBSET Marks]
    BY <1>1, <1>7 DEF MarkValidated, PubGood, LandingTypeOK, Marks
  <2>2. LandingTypeOK'
    BY <1>7, <2>1 DEF MarkValidated, PubGood, LandingTypeOK
  <2> QED
    BY <1>0, <1>7, <2>2, NextKeeps DEF MarkValidated
<1> QED
  BY <1>3, <1>4, <1>5, <1>6, <1>7

-----------------------------------------------------------------------------
(* The inductive invariant and the theorems. *)

\* SealImpliesPresent alone is not inductive: that PutSeal finds everything in place is known
\* from what the job has copied, and that from the shape of its record.
IInv == PubGood /\ JobInv /\ SealImpliesPresent /\ MarkedImpliesSealed

\* It holds before anything has been published.
LEMMA InitIInv == Init => IInv
<1> SUFFICES ASSUME Init PROVE IInv
  OBVIOUS
<1> USE DEF Init
<1>1. LandingTypeOK /\ DataTypeOK
  BY TreeFacts DEF BucketsInit, LandingTypeOK, DataTypeOK, Docs
<1>2. staging \in Trees /\ pubFaults \in 0 .. MaxPubFaults
  BY TreeFacts, PublishAssumption DEF PublishInit
<1>3. [pc |-> "idle", kind |-> "s3", src |-> Empty, files |-> {},
       todo |-> {}, plan |-> Empty, ver |-> 0, tries |-> 0] \in RunStates
  BY TreeFacts, PublishAssumption, BucketsAssumption DEF RunStates, PubStates, PubPhases
<1>4. pub \in [Publishers -> RunStates]
  BY <1>3 DEF PublishInit
<1>5. Begin({}) = IdleJob /\ IdleJob \in JobRecs /\ IdleJob.pc \notin Promoting
  BY BeginIsFresh DEF Begin
<1>6. job \in [Jobs -> JobRecs] /\ \A j \in Jobs : job[j].pc \notin Promoting
  BY <1>5 DEF PromoteInit
<1>7. jobCrashes \in 0 .. MaxJobCrashes
  BY PromoteAssumption DEF PromoteInit
<1>8. \A j \in Jobs : Placed(j)
  BY <1>6 DEF Placed, Promoting
<1>9. SealImpliesPresent /\ MarkedImpliesSealed
  BY DEF BucketsInit, SealImpliesPresent, MarkedImpliesSealed, Sealed
<1> QED
  BY <1>1, <1>2, <1>4, <1>6, <1>7, <1>8, <1>9 DEF IInv, PubGood, JobInv, JobGood

\* Where no step touches a seal, a sealed version keeps what it needs.
LEMMA SealsStayGood ==
    ASSUME IInv, KeepsKeys, UNCHANGED seal
    PROVE  SealImpliesPresent'
<1> SUFFICES ASSUME NEW v \in Versions, seal[v] # NoDoc
             PROVE  /\ catalog'[v] # NoDoc /\ dds'[v] # NoDoc
                    /\ \A g \in GroupsIn(seal[v].pinned) : dman'[v][g] # NoDoc
                    /\ \A f \in NamesIn(seal[v].crc) : dobj'[v][f] # Absent
  BY DEF SealImpliesPresent, Sealed
<1>1. seal[v] \in Seals
  BY DEF IInv, JobInv, JobGood, DataTypeOK
<1>2. GroupsIn(seal[v].pinned) \subseteq Groups /\ NamesIn(seal[v].crc) \subseteq Files
  BY <1>1, TreeFacts DEF Seals
<1> QED
  BY <1>2 DEF IInv, SealImpliesPresent, Sealed, KeepsKeys

\* A step that adds no VALIDATED marker keeps marked versions sealed.
LEMMA MarksStayGood ==
    ASSUME IInv, KeepsKeys, \A v \in Versions : "VALIDATED" \in marks'[v] => "VALIDATED" \in marks[v]
    PROVE  MarkedImpliesSealed'
  BY DEF IInv, MarkedImpliesSealed, Sealed, KeepsKeys

\* PutSeal writes a seal over what its job has placed.
LEMMA SealedAsPlaced ==
    ASSUME IInv, NEW j \in Jobs, PutSeal(j), KeepsKeys
    PROVE  SealImpliesPresent'
<1> DEFINE me == job[j]
           v  == Cur(j)
           s  == [root |-> me.root, pinned |-> me.ds, crc |-> me.crc]
<1>1. /\ me.pc = "seal" /\ seal' = [seal EXCEPT ![v] = s]
      /\ UNCHANGED <<dds, dman, dobj, catalog>>
  BY DEF PutSeal
<1>a. /\ me \in JobRecs /\ me.work \in SUBSET Versions
      /\ seal \in [Versions -> Seals \cup {NoDoc}]
  BY DEF IInv, JobInv, JobGood, JobRecs, JobStates, DataTypeOK
<1>2. /\ seal \in [Versions -> Seals \cup {NoDoc}] /\ v \in Versions
      /\ s.pinned = me.ds /\ s.crc = me.crc
  BY <1>1, <1>a, MinOfVersions DEF JobRecs, Cur
<1>3. /\ catalog[v] # NoDoc /\ dds[v] # NoDoc
      /\ \A g \in GroupsIn(me.ds) : dman[v][g] # NoDoc
      /\ \A f \in NamesIn(me.crc) : dobj[v][f] # Absent
  BY <1>1, AllPlaced DEF IInv, JobInv, Placed, Promoting
<1> HIDE DEF s
<1> SUFFICES ASSUME NEW w \in Versions, seal'[w] # NoDoc
             PROVE  /\ catalog[w] # NoDoc /\ dds[w] # NoDoc
                    /\ \A g \in GroupsIn(seal'[w].pinned) : dman[w][g] # NoDoc
                    /\ \A f \in NamesIn(seal'[w].crc) : dobj[w][f] # Absent
  BY <1>1 DEF SealImpliesPresent, Sealed
<1>4. CASE w = v
  BY <1>1, <1>2, <1>3, <1>4
<1>5. CASE w # v
  BY <1>1, <1>2, <1>5 DEF IInv, SealImpliesPresent, Sealed
<1> QED
  BY <1>4, <1>5

\* Where no step touches a marker, marked versions stay sealed.
LEMMA NoNewMarks ==
    ASSUME IInv, KeepsKeys, UNCHANGED marks
    PROVE  MarkedImpliesSealed'
  BY MarksStayGood

\* Producers write no marker.
LEMMA ProducersMarkNothing ==
    ASSUME NEW p \in Publishers, Start(p) \/ PublisherStep(p) \/ PubCrash(p)
    PROVE  UNCHANGED marks
<1>1. Start(p) \/ Stage(p) \/ Enumerate(p) => UNCHANGED marks
  BY Zenon DEF Start, Stage, Enumerate, landingVars
<1>2. NextVersion(p) \/ Hash(p) \/ Head(p) => UNCHANGED marks
  BY DEF NextVersion, Hash, Head, landingVars
<1>3. Reserve(p) \/ Copy(p) => UNCHANGED marks
  BY DEF Reserve, Copy
<1>4. PutManifest(p) => UNCHANGED marks
  BY Zenon DEF PutManifest
<1>5. Cleanup(p) \/ PubCrash(p) => UNCHANGED marks
  BY DEF Cleanup, PubCrash, landingVars
<1> QED
  BY <1>1, <1>2, <1>3, <1>4, <1>5 DEF PublisherStep

\* Only PutSeal writes a seal.
LEMMA OnlyPutSealSeals ==
    ASSUME NEW j \in Jobs, JobStep(j) \/ RunNamed(j) \/ JobCrash(j), ~PutSeal(j)
    PROVE  UNCHANGED seal
<1>1. Discover(j) \/ RunNamed(j) \/ JobCrash(j) => UNCHANGED seal
  BY DEF Discover, RunNamed, JobCrash, dataVars
<1>2. GateAStep(j) => UNCHANGED seal
  BY DEF GateAStep, LoadDs, LoadManifest, HeadEntry, ListGroup, SampleEntry, EndGroup, Sweep,
         LeaveIncomplete, Reject, dataVars
<1>3. CheckSeal(j) \/ ReloadDs(j) \/ ReloadManifest(j) => UNCHANGED seal
  BY DEF CheckSeal, ReloadDs, ReloadManifest, dataVars
<1>4. CopyDs(j) \/ CopyManifest(j) \/ CopyPayload(j) => UNCHANGED seal
  BY DEF CopyDs, CopyManifest, CopyPayload
<1>5. HeadCrc(j) \/ ReadRoot(j) \/ PutCatalog(j) \/ MarkValidated(j) => UNCHANGED seal
  BY DEF HeadCrc, ReadRoot, PutCatalog, MarkValidated, dataVars
<1> QED
  BY <1>1, <1>2, <1>3, <1>4, <1>5 DEF JobStep, PromoteStep

\* Only a verdict writes a marker.
LEMMA OnlyVerdictsMark ==
    ASSUME NEW j \in Jobs, JobStep(j) \/ RunNamed(j) \/ JobCrash(j),
           ~MarkValidated(j), ~Reject(j)
    PROVE  UNCHANGED marks
<1>1. Discover(j) \/ RunNamed(j) \/ JobCrash(j) => UNCHANGED marks
  BY DEF Discover, RunNamed, JobCrash, landingVars
<1>2. \/ LoadDs(j) \/ LoadManifest(j) \/ HeadEntry(j) \/ ListGroup(j) \/ SampleEntry(j)
      \/ EndGroup(j) \/ Sweep(j) \/ LeaveIncomplete(j)
      => UNCHANGED marks
  BY DEF LoadDs, LoadManifest, HeadEntry, ListGroup, SampleEntry, EndGroup, Sweep,
         LeaveIncomplete, landingVars
<1>3. CheckSeal(j) \/ ReloadDs(j) \/ ReloadManifest(j) => UNCHANGED marks
  BY DEF CheckSeal, ReloadDs, ReloadManifest, landingVars
<1>4. CopyDs(j) \/ CopyManifest(j) \/ CopyPayload(j) => UNCHANGED marks
  BY DEF CopyDs, CopyManifest, CopyPayload, landingVars
<1>5. HeadCrc(j) \/ ReadRoot(j) \/ PutCatalog(j) \/ PutSeal(j) => UNCHANGED marks
  BY DEF HeadCrc, ReadRoot, PutCatalog, PutSeal, landingVars
<1> QED
  BY <1>1, <1>2, <1>3, <1>4, <1>5 DEF JobStep, GateAStep, PromoteStep

\* Every step keeps what runs and jobs hold, and the data bucket's keys.
LEMMA NextGood ==
    ASSUME PubGood, JobInv, [Next]_vars PROVE PubGood' /\ JobInv' /\ KeepsKeys
<1>others. ASSUME UNCHANGED dataVars, UNCHANGED jobVars PROVE JobInv' /\ KeepsKeys
  <2>1. KeepsKeys
    BY <1>others, KeepsKeysUnchanged
  <2>2. JobGood'
    BY <1>others DEF JobInv, JobGood, DataTypeOK, dataVars, jobVars
  <2>3. \A k \in Jobs : Placed(k)'
    BY <1>others, <2>1, StaysPlaced DEF JobInv, jobVars
  <2> QED
    BY <2>1, <2>2, <2>3 DEF JobInv
<1>1. CASE PublishNext /\ UNCHANGED <<dataVars, jobVars>>
  BY <1>1, <1>others, PublisherKeeps DEF PublishNext
<1>2. CASE ValidatorNext /\ UNCHANGED pubVars
  <2>1. PICK j \in Jobs : JobStep(j) \/ RunNamed(j) \/ JobCrash(j)
    BY <1>2 DEF ValidatorNext
  <2>2. LandingTypeOK' /\ JobInv' /\ KeepsKeys
    BY <2>1, GateAKeeps, ReloadKeeps, CopyKeeps, SealingKeeps DEF JobStep, PromoteStep
  <2> QED
    BY <1>2, <2>2 DEF PubGood, pubVars
<1>3. ASSUME NEW v \in Versions, Expire(v) PROVE PubGood' /\ JobInv' /\ KeepsKeys
  <2>1. LandingTypeOK'
    BY <1>3, TreeFacts DEF Expire, PubGood, LandingTypeOK, Docs
  <2> QED
    BY <1>3, <1>others, <2>1 DEF Expire, PubGood, pubVars
<1>4. CASE UNCHANGED vars
  BY <1>4, <1>others DEF vars, PubGood, LandingTypeOK, landingVars, pubVars
<1> QED
  BY <1>1, <1>2, <1>3, <1>4 DEF Next

\* Every step keeps the invariant.
LEMMA NextIInv == IInv /\ [Next]_vars => IInv' /\ KeepsKeys
<1> SUFFICES ASSUME IInv, [Next]_vars PROVE IInv' /\ KeepsKeys
  OBVIOUS
<1>0. PubGood /\ JobInv /\ PubGood' /\ JobInv' /\ KeepsKeys
  BY NextGood DEF IInv
<1>1. CASE PublishNext /\ UNCHANGED <<dataVars, jobVars>>
  <2>1. UNCHANGED marks /\ UNCHANGED seal
    BY <1>1, ProducersMarkNothing DEF PublishNext, dataVars
  <2> QED
    BY <1>0, <2>1, SealsStayGood, NoNewMarks DEF IInv
<1>2. CASE ValidatorNext /\ UNCHANGED pubVars
  <2>1. PICK j \in Jobs : JobStep(j) \/ RunNamed(j) \/ JobCrash(j)
    BY <1>2 DEF ValidatorNext
  <2>2. KeepsKeys
    BY <1>0
  <2>3. SealImpliesPresent'
    <3>1. CASE PutSeal(j)
      BY <2>2, <3>1, SealedAsPlaced
    <3>2. CASE ~PutSeal(j)
      <4>1. UNCHANGED seal
        BY <2>1, <3>2, OnlyPutSealSeals
      <4> QED
        BY <2>2, <4>1, SealsStayGood
    <3> QED
      BY <3>1, <3>2
  <2>4. MarkedImpliesSealed'
    <3>1. CASE MarkValidated(j)
      <4>1. marks' = [marks EXCEPT ![Cur(j)] = @ \cup {"VALIDATED"}] /\ UNCHANGED seal
        BY <3>1 DEF MarkValidated, dataVars
      <4>2. seal[Cur(j)] # NoDoc
        BY <1>0, <3>1 DEF MarkValidated, JobInv, Placed
      <4>3. marks \in [Versions -> SUBSET Marks]
        BY <1>0 DEF PubGood, LandingTypeOK
      <4> QED
        BY <4>1, <4>2, <4>3 DEF IInv, MarkedImpliesSealed, Sealed
    <3>2. CASE Reject(j)
      <4>1. marks' = [marks EXCEPT ![Cur(j)] = @ \cup {"REJECTED"}]
        BY <3>2 DEF Reject
      <4>2. marks \in [Versions -> SUBSET Marks]
        BY <1>0 DEF PubGood, LandingTypeOK
      <4>3. \A v \in Versions : "VALIDATED" \in marks'[v] => "VALIDATED" \in marks[v]
        BY <4>1, <4>2
      <4> QED
        BY <2>2, <4>3, MarksStayGood
    <3>3. CASE ~MarkValidated(j) /\ ~Reject(j)
      <4>1. UNCHANGED marks
        BY <2>1, <3>3, OnlyVerdictsMark
      <4> QED
        BY <2>2, <4>1, NoNewMarks
    <3> QED
      BY <3>1, <3>2, <3>3
  <2> QED
    BY <1>0, <2>3, <2>4 DEF IInv
<1>3. ASSUME NEW v \in Versions, Expire(v) PROVE IInv' /\ KeepsKeys
  <2>1. \A w \in Versions : "VALIDATED" \in marks'[w] => "VALIDATED" \in marks[w]
    BY <1>0, <1>3 DEF Expire, PubGood, LandingTypeOK
  <2>2. UNCHANGED seal
    BY <1>3 DEF Expire, dataVars
  <2> QED
    BY <1>0, <2>1, <2>2, SealsStayGood, MarksStayGood DEF IInv
<1>4. CASE UNCHANGED vars
  BY <1>0, <1>4, SealsStayGood, NoNewMarks DEF IInv, vars, dataVars, landingVars
<1> QED
  BY <1>1, <1>2, <1>3, <1>4 DEF Next

\* So it holds in every reachable state.
LEMMA Invariance == Spec => []IInv
  BY InitIInv, NextIInv, PTL DEF Spec

\* Every variable keeps the shape the code gives it, however runs, jobs, crashes and expiry
\* interleave; no run of publish() numbers a version or counts an attempt past its bound.
THEOREM TypeCorrect == Spec => []TypeOK
<1>1. IInv => TypeOK
  BY DEF IInv, JobInv, PubGood, JobGood, LandingTypeOK, DataTypeOK, RunStates, JobRecs,
         TypeOK, BucketsTypeOK, PublishTypeOK, PromoteTypeOK
<1> QED
  BY <1>1, Invariance, PTL

\* promote() writes the seal last: a version a reader finds sealed is catalogued and has its
\* dataset.json, the manifests it pins and every object it has a CRC for.
THEOREM SealIsNeverAhead == Spec => []SealImpliesPresent
<1>1. IInv => SealImpliesPresent
  BY DEF IInv
<1> QED
  BY <1>1, Invariance, PTL

\* promote() reads no CRC before every copy it has to make is made.
THEOREM CopiesComeFirst == Spec => []PromotedIsThere
<1>1. IInv => PromotedIsThere
  BY AllPlaced DEF IInv, PromotedIsThere, Promoting
<1> QED
  BY <1>1, Invariance, PTL

\* The landing marker that takes a prefix off the work list is written after the seal.
THEOREM MarkerComesLast == Spec => []MarkedImpliesSealed
<1>1. IInv => MarkedImpliesSealed
  BY DEF IInv
<1> QED
  BY <1>1, Invariance, PTL

\* No step of a producer, a job or the lifecycle rules removes a key of the data bucket.
THEOREM DataBucketOnlyGrows == Spec => NothingDeleted
<1>1. IInv /\ [Next]_vars => [KeepsKeys]_vars
  BY NextIInv
<1> QED
  BY <1>1, Invariance, PTL DEF Spec, NothingDeleted
=============================================================================
