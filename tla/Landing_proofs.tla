--------------------------- MODULE Landing_proofs ---------------------------
(***************************************************************************)
(* Theorems about what runs of publish() leave in landing: that a run      *)
(* publishes the tree it was given, and that a version whose manifests are *)
(* all there is complete.  The second needs producers that do not overlap, *)
(* the first needs a source that nobody else writes.                       *)
(***************************************************************************)
EXTENDS Airlock_proofs

-----------------------------------------------------------------------------
(* How far a run has come, and what lies under its version. *)

\* Nothing but markers lies under a version.
Blank(v) == lds[v] = NoDoc /\ lman[v] = [g \in Groups |-> NoDoc] /\ lobj[v] = Empty

\* All of a version is there, and dataset.json, the manifests and the payload agree.
Whole(v) ==
    /\ lds[v] \in Trees /\ NamesIn(lds[v]) # {}
    /\ lobj[v] = lds[v]
    /\ \A g \in GroupsIn(lds[v]) : lman[v][g] = Part(lds[v], g)

\* A manifest that is there is the right one, and the whole payload came before it.
Settled(v) ==
    lds[v] # NoDoc =>
        /\ NamesIn(lds[v]) # {}
        /\ \A g \in Groups : lman[v][g] # NoDoc =>
              lobj[v] = lds[v] /\ lman[v][g] = Part(lds[v], g)

\* A run plans what its source holds, file by file.
Hashing(p) ==
    /\ pub[p].pc \in {"version", "hash", "head", "reserve", "copy"} =>
          pub[p].files = NamesIn(SourceOf(p))
    /\ pub[p].pc = "hash" =>
          pub[p].plan = [f \in Files |-> IF f \in pub[p].todo THEN Absent ELSE SourceOf(p)[f]]
    /\ pub[p].pc \in {"head", "reserve", "copy", "manifest"} => pub[p].plan = SourceOf(p)
    /\ pub[p].pc = "copy" => pub[p].todo \subseteq pub[p].files

\* Before it reserves the version nothing is there, afterwards what it has written so far.
Writing(p) ==
    /\ pub[p].pc \in {"hash", "head", "reserve", "copy", "manifest"} => pub[p].ver \in Versions
    /\ pub[p].pc \in {"copy", "manifest"} => lds[pub[p].ver] = pub[p].plan
    /\ pub[p].pc = "copy" =>
          /\ lman[pub[p].ver] = [g \in Groups |-> NoDoc]
          /\ lobj[pub[p].ver] = [f \in Files |->
                                   IF f \in pub[p].todo THEN Absent ELSE pub[p].plan[f]]
    /\ pub[p].pc = "manifest" =>
          /\ lobj[pub[p].ver] = pub[p].plan
          /\ pub[p].todo \subseteq GroupsIn(pub[p].plan)
          /\ \A g \in Groups :
                lman[pub[p].ver][g] = IF g \in GroupsIn(pub[p].plan) \ pub[p].todo
                                      THEN Part(pub[p].plan, g) ELSE NoDoc
Unwritten(p) == pub[p].pc \in {"hash", "head", "reserve"} => Blank(pub[p].ver)

\* One run at a time.
Alone == \A p, q \in Publishers : InFlight(p) /\ InFlight(q) => p = q

\* With runs that do not overlap, what landing holds is what they have written so far.
LandingInv ==
    /\ Alone
    /\ \A p \in Publishers : Hashing(p) /\ Writing(p) /\ Unwritten(p)
    /\ \A v \in Versions : Settled(v)

-----------------------------------------------------------------------------
\* The number that _next_version picks is free.
LEMMA NextIsFree ==
    ASSUME NEW v \in Versions, v = Max(Taken \cup {0}) + 1
    PROVE  v \notin Taken
<1>1. MaxVersion \in Nat /\ Taken \cup {0} \in SUBSET (0 .. MaxVersion) /\ Taken \cup {0} # {}
  BY BucketsAssumption DEF Taken, Versions
<1>2. \A y \in Taken \cup {0} : Max(Taken \cup {0}) >= y
  BY <1>1, MaxIn
<1>3. Max(Taken \cup {0}) \in Nat
  BY MaxTaken
<1> QED
  BY <1>2, <1>3 DEF Versions

\* Under a free number nothing lies.
LEMMA FreeIsBlank ==
    ASSUME LandingTypeOK, NEW v \in Versions, v \notin Taken
    PROVE  Blank(v)
  BY DEF LandingTypeOK, Taken, Blank

\* What is not written to stays settled.
LEMMA StaysSettled ==
    ASSUME NEW v \in Versions, Settled(v), lds'[v] = lds[v], lman'[v] = lman[v], lobj'[v] = lobj[v]
    PROVE  Settled(v)'
  BY DEF Settled

\* A version with all its manifests is whole.
LEMMA AllManifests ==
    ASSUME LandingTypeOK, NEW v \in Versions, Settled(v), lds[v] # NoDoc,
           \A g \in GroupsIn(lds[v]) : lman[v][g] # NoDoc
    PROVE  Whole(v)
<1>1. lds[v] \in Trees
  BY DEF LandingTypeOK, Docs
<1>2. GroupsIn(lds[v]) # {} /\ GroupsIn(lds[v]) \subseteq Groups
  BY <1>1, TreeFacts DEF Settled
<1> QED
  BY <1>1, <1>2 DEF Settled, Whole

\* A step of one run leaves the records of the others alone.
LEMMA OneRunAtATime ==
    ASSUME PubGood, NEW p \in Publishers, Start(p) \/ PublisherStep(p) \/ PubCrash(p)
    PROVE  \A q \in Publishers \ {p} : pub'[q] = pub[q]
<1>0. pub \in [Publishers -> RunStates]
  BY DEF PubGood
<1>1. Start(p) \/ Stage(p) \/ Enumerate(p) \/ NextVersion(p)
        => \A q \in Publishers \ {p} : pub'[q] = pub[q]
  BY <1>0, Zenon DEF Start, Stage, Enumerate, NextVersion, Fail
<1>2. Hash(p) \/ Head(p) \/ Reserve(p) \/ Copy(p) => \A q \in Publishers \ {p} : pub'[q] = pub[q]
  BY <1>0 DEF Hash, Head, Reserve, Copy, Fail
<1>3. PutManifest(p) \/ Cleanup(p) \/ PubCrash(p) => \A q \in Publishers \ {p} : pub'[q] = pub[q]
  BY <1>0 DEF PutManifest, Cleanup, PubCrash, Fail
<1> QED
  BY <1>1, <1>2, <1>3 DEF PublisherStep

\* While a run is in flight no other run moves.
LEMMA OthersRest ==
    ASSUME PubGood, Alone, ~Overlap, NEW p \in Publishers, Start(p) \/ PublisherStep(p) \/ PubCrash(p)
    PROVE  \A q \in Publishers \ {p} : ~InFlight(q)
<1>1. CASE Start(p)
  BY <1>1 DEF Start
<1>2. CASE PubCrash(p)
  BY <1>2 DEF PubCrash, Alone
<1>3. CASE PublisherStep(p)
  <2>1. InFlight(p)
    BY <1>3 DEF PublisherStep, Stage, Enumerate, NextVersion, Hash, Head, Reserve, Copy, PutManifest,
                Cleanup, InFlight
  <2> QED
    BY <2>1 DEF Alone
<1> QED
  BY <1>1, <1>2, <1>3

\* What the run p, moving from me to r, has to show for landing to be in order again.
LEMMA OneRunMoves ==
    ASSUME PubGood, LandingInv, ~Overlap, NEW p \in Publishers,
           Start(p) \/ PublisherStep(p) \/ PubCrash(p),
           NEW r, pub' = [pub EXCEPT ![p] = r],
           Hashing(p)', Writing(p)', Unwritten(p)', \A v \in Versions : Settled(v)'
    PROVE  LandingInv'
<1>1. \A q \in Publishers \ {p} : ~InFlight(q) /\ pub'[q] = pub[q]
  BY OthersRest DEF LandingInv, PubGood
<1>2. Alone'
  BY <1>1 DEF Alone, InFlight
<1>3. \A q \in Publishers \ {p} : Hashing(q)' /\ Writing(q)' /\ Unwritten(q)'
  BY <1>1 DEF InFlight, Hashing, Writing, Unwritten
<1> QED
  BY <1>2, <1>3 DEF LandingInv

\* A run that is not between the listing and the last manifest has nothing to show.
LEMMA NothingToShow ==
    ASSUME NEW p \in Publishers,
           pub[p].pc \notin {"version", "hash", "head", "reserve", "copy", "manifest"}
    PROVE  Hashing(p) /\ Writing(p) /\ Unwritten(p)
  BY DEF Hashing, Writing, Unwritten

\* So a step to such a record that leaves landing alone keeps it in order.
LEMMA IdleStep ==
    ASSUME PubGood, LandingInv, ~Overlap, NEW p \in Publishers,
           Start(p) \/ PublisherStep(p) \/ PubCrash(p),
           NEW r, pub' = [pub EXCEPT ![p] = r], UNCHANGED landingVars,
           r.pc \notin {"version", "hash", "head", "reserve", "copy", "manifest"}
    PROVE  LandingInv'
<1>1. \A v \in Versions : Settled(v)'
  BY StaysSettled DEF LandingInv, landingVars
<1>2. pub'[p].pc \notin {"version", "hash", "head", "reserve", "copy", "manifest"}
  BY DEF PubGood
<1>3. Hashing(p)' /\ Writing(p)' /\ Unwritten(p)'
  BY <1>2 DEF Hashing, Writing, Unwritten
<1> QED
  BY <1>1, <1>3, OneRunMoves

\* Every step of a run keeps its plan in line with its source, and what it returns with is what
\* the source held.
LEMMA RunHashes ==
    ASSUME PubGood, NEW p \in Publishers, Hashing(p), Start(p) \/ PublisherStep(p) \/ PubCrash(p)
    PROVE  /\ Hashing(p)'
           /\ pub[p].pc # "idle" => pub'[p].kind = pub[p].kind /\ pub'[p].src = pub[p].src
           /\ pub'[p].pc \in {"cleanup", "done"} =>
                 \/ pub[p].pc = "cleanup" /\ pub'[p].plan = pub[p].plan
                 \/ pub[p].pc = "manifest" /\ pub'[p].plan = SourceOf(p)
<1> DEFINE me == pub[p]
           S  == SourceOf(p)
<1>0. /\ me \in RunStates /\ me \in PubStates /\ me.plan \in Trees /\ S \in Trees
      /\ me.files \subseteq Files /\ pub \in [Publishers -> RunStates]
  BY SourceIsTree DEF PubGood, RunStates, PubStates
<1>idle. ASSUME NEW r, pub' = [pub EXCEPT ![p] = r], r.kind = me.kind, r.src = me.src,
                r.pc \in {"enumerate", "stage", "failed"}
         PROVE  /\ Hashing(p)' /\ pub'[p].kind = me.kind /\ pub'[p].src = me.src
                /\ pub'[p].pc \notin {"cleanup", "done"}
  <2>1. pub'[p] = r
    BY <1>0, <1>idle
  <2> QED
    BY <1>idle, <2>1 DEF Hashing
<1>fail. ASSUME Fail(p)
         PROVE  /\ Hashing(p)' /\ pub'[p].kind = me.kind /\ pub'[p].src = me.src
                /\ pub'[p].pc \notin {"cleanup", "done"}
  <2> DEFINE r == [me EXCEPT !.pc = "failed"]
  <2>1. pub' = [pub EXCEPT ![p] = r] /\ r.pc = "failed" /\ r.kind = me.kind /\ r.src = me.src
    BY <1>0, <1>fail DEF Fail, PubStates
  <2> HIDE DEF r
  <2> QED
    BY <1>idle, <2>1
<1>1. CASE Start(p)
  <2>1. PICK t \in Sources, k \in SourceKinds :
          LET staged == IF k = "local" THEN NamesIn(t) ELSE {}
          IN  pub' = [pub EXCEPT ![p].src = t, ![p].kind = k, ![p].todo = staged,
                        ![p].pc = IF staged = {} THEN "enumerate" ELSE "stage"]
    BY <1>1 DEF Start
  <2>2. pub'[p].pc \in {"enumerate", "stage"}
    BY <1>0, <2>1 DEF PubStates
  <2>3. me.pc = "idle"
    BY <1>1 DEF Start
  <2> QED
    BY <2>2, <2>3 DEF Hashing
<1>2. CASE Stage(p)
  <2> DEFINE r == [me EXCEPT !.todo = @ \ {Min(me.todo)},
                     !.pc = IF me.todo = {Min(me.todo)} THEN "enumerate" ELSE @]
  <2>1. pub' = [pub EXCEPT ![p] = r]
    BY <1>2 DEF Stage
  <2>2. r.pc \in {"enumerate", "stage"} /\ r.kind = me.kind /\ r.src = me.src
    BY <1>0, <1>2 DEF PubStates, Stage
  <2> HIDE DEF r
  <2> QED
    BY <1>idle, <2>1, <2>2
<1>move. ASSUME NEW r, pub' = [pub EXCEPT ![p] = r], r.kind = me.kind, r.src = me.src,
                UNCHANGED staging, r.pc \notin {"cleanup", "done"},
                r.pc \in {"version", "hash", "head", "reserve", "copy"} => r.files = NamesIn(S),
                r.pc = "hash" => r.plan = [f \in Files |-> IF f \in r.todo THEN Absent ELSE S[f]],
                r.pc \in {"head", "reserve", "copy", "manifest"} => r.plan = S,
                r.pc = "copy" => r.todo \subseteq r.files
         PROVE  /\ Hashing(p)' /\ pub'[p].kind = me.kind /\ pub'[p].src = me.src
                /\ pub'[p].pc \notin {"cleanup", "done"}
  <2>1. pub'[p] = r
    BY <1>0, <1>move
  <2>2. S' = S
    BY <1>move, <2>1 DEF SourceOf
  <2> QED
    BY <1>move, <2>1, <2>2 DEF Hashing
<1>3. CASE Enumerate(p)
  <2> DEFINE r == [me EXCEPT !.files = NamesIn(S), !.pc = "version"]
  <2>1. UNCHANGED staging
    BY <1>3 DEF Enumerate
  <2>2. CASE NamesIn(S) = {}
    BY <1>3, <1>fail, <2>2 DEF Enumerate
  <2>3. CASE NamesIn(S) # {}
    <3>1. pub' = [pub EXCEPT ![p] = r]
      BY <1>3, <2>3 DEF Enumerate
    <3>2. r.pc = "version" /\ r.files = NamesIn(S) /\ r.kind = me.kind /\ r.src = me.src
      BY <1>0 DEF PubStates
    <3> HIDE DEF r
    <3> QED
      BY <1>move, <2>1, <3>1, <3>2
  <2> QED
    BY <2>2, <2>3
<1>4. CASE NextVersion(p)
  <2> DEFINE v == Max(Taken \cup {0}) + 1
             r == [me EXCEPT !.ver = v, !.plan = Empty, !.todo = me.files, !.pc = "hash"]
  <2>1. /\ UNCHANGED staging /\ pub' = [pub EXCEPT ![p] = r] /\ me.files = NamesIn(S)
    BY <1>4 DEF NextVersion, Hashing
  <2> HIDE DEF v
  <2>2. /\ r.pc = "hash" /\ r.files = me.files /\ r.kind = me.kind /\ r.src = me.src
        /\ r.plan = Empty /\ r.todo = me.files
    BY <1>0 DEF PubStates
  <2> HIDE DEF r
  <2>3. Empty = [f \in Files |-> IF f \in me.files THEN Absent ELSE S[f]]
    BY <1>0, <2>1 DEF Empty, NamesIn, Trees
  <2> QED
    BY <1>move, <2>1, <2>2, <2>3
<1>5. CASE Hash(p)
  <2>1. UNCHANGED staging /\ me.pc = "hash"
    BY <1>5 DEF Hash
  <2>2. PICK f \in me.todo :
          IF S[f] = Absent THEN Fail(p)
          ELSE pub' = [pub EXCEPT ![p].plan[f] = S[f], ![p].todo = @ \ {f},
                         ![p].pc = IF pub[p].todo = {f} THEN "head" ELSE @]
    BY <1>5 DEF Hash
  <2> DEFINE r == [me EXCEPT !.plan[f] = S[f], !.todo = @ \ {f},
                     !.pc = IF me.todo = {f} THEN "head" ELSE @]
  <2>3. CASE S[f] = Absent
    BY <1>fail, <2>2, <2>3
  <2>4. CASE S[f] # Absent
    <3>1. pub' = [pub EXCEPT ![p] = r]
      BY <2>2, <2>4
    <3>2. /\ r.pc = (IF me.todo = {f} THEN "head" ELSE "hash") /\ r.files = me.files
          /\ r.kind = me.kind /\ r.src = me.src
          /\ r.plan = [me.plan EXCEPT ![f] = S[f]] /\ r.todo = me.todo \ {f}
      BY <1>0, <2>1 DEF PubStates
    <3> HIDE DEF r
    <3>3. me.plan = [e \in Files |-> IF e \in me.todo THEN Absent ELSE S[e]] /\ f \in Files
          /\ me.files = NamesIn(S)
      BY <1>0, <2>1 DEF Hashing, RunStates
    <3>4. r.plan = [e \in Files |-> IF e \in r.todo THEN Absent ELSE S[e]]
      BY <1>0, <3>2, <3>3
    <3>5. r.pc = "head" => r.plan = S
      <4> SUFFICES ASSUME me.todo = {f} PROVE r.plan = S
        BY <3>2
      <4>1. r.plan = [e \in Files |-> S[e]]
        BY <3>2, <3>4
      <4> QED
        BY <1>0, <4>1 DEF Trees
    <3> QED
      BY <1>move, <2>1, <3>1, <3>2, <3>3, <3>4, <3>5
  <2> QED
    BY <2>3, <2>4
<1>6. CASE Head(p)
  <2>1. UNCHANGED staging /\ me.pc = "head"
    BY <1>6 DEF Head
  <2>2. PICK r : /\ pub' = [pub EXCEPT ![p] = r] /\ r.pc \in {"reserve", "version", "failed"}
                 /\ r.files = me.files /\ r.kind = me.kind /\ r.src = me.src /\ r.plan = me.plan
    <3> DEFINE r1 == [me EXCEPT !.pc = "reserve"]
               r2 == [me EXCEPT !.tries = @ + 1,
                        !.pc = IF me.tries + 1 = MaxAttempts THEN "failed" ELSE "version"]
    <3>1. pub' = [pub EXCEPT ![p] = r1] \/ pub' = [pub EXCEPT ![p] = r2]
      BY <1>6 DEF Head
    <3>2. /\ r1.pc = "reserve" /\ r1.files = me.files /\ r1.kind = me.kind /\ r1.src = me.src
          /\ r1.plan = me.plan
      BY <1>0 DEF PubStates
    <3>3. /\ r2.pc \in {"version", "failed"} /\ r2.files = me.files /\ r2.kind = me.kind
          /\ r2.src = me.src /\ r2.plan = me.plan
      BY <1>0 DEF PubStates
    <3> HIDE DEF r1, r2
    <3> QED
      BY <3>1, <3>2, <3>3
  <2> QED
    BY <1>move, <2>1, <2>2 DEF Hashing
<1>7. CASE Reserve(p)
  <2> DEFINE r == [me EXCEPT !.todo = me.files, !.pc = "copy"]
  <2>1. pub' = [pub EXCEPT ![p] = r] /\ UNCHANGED staging /\ me.pc = "reserve"
    BY <1>7 DEF Reserve
  <2>2. /\ r.pc = "copy" /\ r.files = me.files /\ r.kind = me.kind /\ r.src = me.src
        /\ r.plan = me.plan /\ r.todo = me.files
    BY <1>0 DEF PubStates
  <2> HIDE DEF r
  <2> QED
    BY <1>move, <2>1, <2>2 DEF Hashing
<1>8. CASE Copy(p)
  <2>1. UNCHANGED staging /\ me.pc = "copy"
    BY <1>8 DEF Copy
  <2>2. PICK f \in me.todo :
          IF S[f] = Absent
          THEN Fail(p) /\ UNCHANGED lobj
          ELSE /\ lobj' = [lobj EXCEPT ![me.ver][f] = S[f]]
               /\ pub' = IF me.todo = {f}
                         THEN [pub EXCEPT ![p].todo = GroupsIn(me.plan), ![p].pc = "manifest"]
                         ELSE [pub EXCEPT ![p].todo = @ \ {f}]
    BY <1>8 DEF Copy
  <2> DEFINE r == IF me.todo = {f}
                  THEN [me EXCEPT !.todo = GroupsIn(me.plan), !.pc = "manifest"]
                  ELSE [me EXCEPT !.todo = @ \ {f}]
  <2>3. CASE S[f] = Absent
    BY <1>fail, <2>2, <2>3
  <2>4. CASE S[f] # Absent
    <3>1. pub' = [pub EXCEPT ![p] = r]
      BY <2>2, <2>4
    <3>2. /\ r.pc = (IF me.todo = {f} THEN "manifest" ELSE "copy") /\ r.files = me.files
          /\ r.kind = me.kind /\ r.src = me.src /\ r.plan = me.plan
          /\ r.todo = (IF me.todo = {f} THEN GroupsIn(me.plan) ELSE me.todo \ {f})
      BY <1>0, <2>1 DEF PubStates
    <3> HIDE DEF r
    <3> QED
      BY <1>move, <2>1, <3>1, <3>2 DEF Hashing
  <2> QED
    BY <2>3, <2>4
<1>9. CASE PutManifest(p)
  <2> DEFINE g == Min(me.todo)
             r == IF me.todo # {g} THEN [me EXCEPT !.todo = @ \ {g}]
                  ELSE IF me.kind = "s3" THEN [me EXCEPT !.todo = {}, !.pc = "done"]
                  ELSE [me EXCEPT !.todo = me.files, !.pc = "cleanup"]
  <2>1. /\ me.pc = "manifest" /\ UNCHANGED staging /\ pub' = [pub EXCEPT ![p] = r]
    BY <1>9 DEF PutManifest
  <2>2. /\ r.kind = me.kind /\ r.src = me.src /\ r.plan = me.plan
        /\ r.pc \in {"manifest", "done", "cleanup"}
    BY <1>0, <2>1 DEF PubStates
  <2> HIDE DEF r
  <2>3. CASE r.pc = "manifest"
    BY <1>move, <2>1, <2>2, <2>3 DEF Hashing
  <2>4. CASE r.pc \in {"done", "cleanup"}
    <3>1. pub'[p] = r
      BY <1>0, <2>1
    <3> QED
      BY <2>1, <2>2, <2>4, <3>1 DEF Hashing
  <2> QED
    BY <2>2, <2>3, <2>4
<1>10. CASE Cleanup(p)
  <2> DEFINE f == Min(me.todo)
             r == [me EXCEPT !.todo = @ \ {f}, !.pc = IF me.todo = {f} THEN "done" ELSE @]
  <2>1. pub' = [pub EXCEPT ![p] = r] /\ me.pc = "cleanup"
    BY <1>10 DEF Cleanup
  <2>2. r.pc \in {"done", "cleanup"} /\ r.kind = me.kind /\ r.src = me.src /\ r.plan = me.plan
    BY <1>0, <2>1 DEF PubStates
  <2> HIDE DEF r
  <2>3. pub'[p] = r
    BY <1>0, <2>1
  <2> QED
    BY <2>1, <2>2, <2>3 DEF Hashing
<1>11. CASE PubCrash(p)
  BY <1>11, <1>fail DEF PubCrash
<1> QED
  BY <1>1, <1>2, <1>3, <1>4, <1>5, <1>6, <1>7, <1>8, <1>9, <1>10, <1>11 DEF PublisherStep

\* A run that has reserved its version writes there, and nowhere else, what it planned.
LEMMA RunWrites ==
    ASSUME PubGood, NEW p \in Publishers, Hashing(p), Writing(p), Copy(p) \/ PutManifest(p)
    PROVE  /\ Writing(p)' /\ pub'[p].ver = pub[p].ver /\ pub'[p].plan = pub[p].plan
           /\ pub'[p].pc \in {"copy", "manifest", "cleanup", "done"}
           /\ pub'[p].pc \in {"cleanup", "done"} =>
                 /\ lds'[pub[p].ver] = pub[p].plan /\ lobj'[pub[p].ver] = pub[p].plan
                 /\ \A g \in Groups : lman'[pub[p].ver][g] = IF g \in GroupsIn(pub[p].plan)
                                                        THEN Part(pub[p].plan, g) ELSE NoDoc
           /\ lds'[pub[p].ver] = lds[pub[p].ver]
           /\ \A v \in Versions : v # pub[p].ver =>
                 lds'[v] = lds[v] /\ lman'[v] = lman[v] /\ lobj'[v] = lobj[v]
<1> DEFINE me == pub[p]
           S  == SourceOf(p)
           V  == me.ver
<1>0. /\ me \in RunStates /\ me \in PubStates /\ me.plan \in Trees /\ S \in Trees
      /\ me.files \subseteq Files /\ LandingTypeOK /\ pub \in [Publishers -> RunStates]
  BY SourceIsTree DEF PubGood, RunStates, PubStates
<1>1. CASE Copy(p)
  <2>1. UNCHANGED <<lds, lman, marks, staging>> /\ me.pc = "copy"
    BY <1>1 DEF Copy
  <2>2. PICK f \in me.todo :
          IF S[f] = Absent
          THEN Fail(p) /\ UNCHANGED lobj
          ELSE /\ lobj' = [lobj EXCEPT ![V][f] = S[f]]
               /\ pub' = IF me.todo = {f}
                         THEN [pub EXCEPT ![p].todo = GroupsIn(me.plan), ![p].pc = "manifest"]
                         ELSE [pub EXCEPT ![p].todo = @ \ {f}]
    BY <1>1 DEF Copy
  <2>3. /\ V \in Versions /\ lds[V] = me.plan /\ lman[V] = [g \in Groups |-> NoDoc]
        /\ lobj[V] = [e \in Files |-> IF e \in me.todo THEN Absent ELSE me.plan[e]]
        /\ me.files = NamesIn(S) /\ me.plan = S /\ me.todo \subseteq me.files
    BY <2>1 DEF Hashing, Writing
  <2>4. S[f] # Absent /\ f \in Files
    BY <2>3 DEF NamesIn
  <2> DEFINE r == IF me.todo = {f}
                  THEN [me EXCEPT !.todo = GroupsIn(me.plan), !.pc = "manifest"]
                  ELSE [me EXCEPT !.todo = @ \ {f}]
  <2>5. pub' = [pub EXCEPT ![p] = r] /\ lobj' = [lobj EXCEPT ![V][f] = S[f]]
    BY <2>2, <2>4
  <2>6. /\ r.pc = (IF me.todo = {f} THEN "manifest" ELSE "copy")
        /\ r.ver = me.ver /\ r.plan = me.plan
        /\ r.todo = (IF me.todo = {f} THEN GroupsIn(me.plan) ELSE me.todo \ {f})
    BY <1>0, <2>1 DEF PubStates
  <2> HIDE DEF r
  <2>7. pub'[p] = r
    BY <1>0, <2>5
  <2>8. lobj'[V] = [e \in Files |-> IF e \in me.todo \ {f} THEN Absent ELSE me.plan[e]]
    <3>1. lobj'[V] = [lobj[V] EXCEPT ![f] = S[f]]
      BY <1>0, <2>3, <2>5 DEF LandingTypeOK
    <3> QED
      BY <2>3, <3>1
  <2>9. me.todo = {f} => lobj'[V] = me.plan
    <3> SUFFICES ASSUME me.todo = {f} PROVE lobj'[V] = me.plan
      OBVIOUS
    <3>1. lobj'[V] = [e \in Files |-> me.plan[e]]
      BY <2>8
    <3> QED
      BY <1>0, <3>1 DEF Trees
  <2>10. Writing(p)'
    <3>1. CASE me.todo = {f}
      BY <2>1, <2>3, <2>6, <2>7, <2>9, <3>1 DEF Writing
    <3>2. CASE me.todo # {f}
      BY <2>1, <2>3, <2>6, <2>7, <2>8, <3>2 DEF Writing
    <3> QED
      BY <3>1, <3>2
  <2> QED
    BY <1>0, <2>1, <2>3, <2>5, <2>6, <2>7, <2>10 DEF LandingTypeOK
<1>2. CASE PutManifest(p)
  <2>1. /\ me.pc = "manifest" /\ UNCHANGED <<lds, lobj, marks, staging>>
    BY <1>2 DEF PutManifest
  <2>2. PICK g \in me.todo : g \in Groups /\ g = Min(me.todo)
    BY <1>0, <2>1, MinOfGroups DEF RunStates
  <2> DEFINE r == IF me.todo # {g} THEN [me EXCEPT !.todo = @ \ {g}]
                  ELSE IF me.kind = "s3" THEN [me EXCEPT !.todo = {}, !.pc = "done"]
                  ELSE [me EXCEPT !.todo = me.files, !.pc = "cleanup"]
  <2>3. pub' = [pub EXCEPT ![p] = r] /\ lman' = [lman EXCEPT ![V][g] = Part(me.plan, g)]
    BY <1>2, <2>2 DEF PutManifest
  <2>4. /\ V \in Versions /\ lds[V] = me.plan /\ lobj[V] = me.plan
        /\ me.todo \subseteq GroupsIn(me.plan)
        /\ \A h \in Groups : lman[V][h] = IF h \in GroupsIn(me.plan) \ me.todo
                                         THEN Part(me.plan, h) ELSE NoDoc
    BY <2>1 DEF Writing
  <2>5. /\ r.ver = me.ver /\ r.plan = me.plan
        /\ me.todo # {g} => r.pc = "manifest" /\ r.todo = me.todo \ {g}
        /\ me.todo = {g} => r.pc \in {"done", "cleanup"}
    BY <1>0, <2>1 DEF PubStates
  <2> HIDE DEF r
  <2>6. pub'[p] = r
    BY <1>0, <2>3
  <2>7. \A h \in Groups : lman'[V][h] = IF h \in GroupsIn(me.plan) \ (me.todo \ {g})
                                       THEN Part(me.plan, h) ELSE NoDoc
    <3>1. \A h \in Groups : lman'[V][h] = IF h = g THEN Part(me.plan, g) ELSE lman[V][h]
      BY <1>0, <2>2, <2>3, <2>4 DEF LandingTypeOK
    <3> QED
      BY <2>2, <2>4, <3>1
  <2>8. Writing(p)'
    <3>1. CASE me.todo = {g}
      BY <2>5, <2>6, <3>1 DEF Writing
    <3>2. CASE me.todo # {g}
      BY <2>1, <2>4, <2>5, <2>6, <2>7, <3>2 DEF Writing
    <3> QED
      BY <3>1, <3>2
  <2>9. pub'[p].pc \in {"cleanup", "done"} => me.todo = {g}
    BY <2>5, <2>6
  <2>10. me.todo = {g} => \A h \in Groups : lman'[V][h] = IF h \in GroupsIn(me.plan)
                                                       THEN Part(me.plan, h) ELSE NoDoc
    BY <2>7
  <2> QED
    BY <1>0, <2>1, <2>3, <2>4, <2>5, <2>6, <2>8, <2>9, <2>10 DEF LandingTypeOK
<1> QED
  BY <1>1, <1>2

\* Every step of a run keeps landing in order.
LEMMA LandingKeeps ==
    ASSUME PubGood, LandingInv, ~Overlap, NEW p \in Publishers,
           Start(p) \/ PublisherStep(p) \/ PubCrash(p)
    PROVE  LandingInv'
<1> DEFINE me == pub[p]
           S  == SourceOf(p)
           V  == me.ver
<1>0. /\ me \in RunStates /\ me \in PubStates /\ me.plan \in Trees /\ me.src \in Trees
      /\ me.files \subseteq Files /\ S \in Trees
      /\ Hashing(p) /\ Writing(p) /\ Unwritten(p) /\ LandingTypeOK
      /\ \A v \in Versions : Settled(v)
      /\ pub \in [Publishers -> RunStates]
  BY SourceIsTree DEF PubGood, RunStates, PubStates, LandingInv
<1>h. Hashing(p)'
  BY <1>0, RunHashes
<1>still. ASSUME UNCHANGED landingVars PROVE \A v \in Versions : Settled(v)'
  BY <1>0, <1>still, StaysSettled DEF landingVars
<1>1. CASE Start(p)
  <2>1. PICK t \in Sources, k \in SourceKinds :
          LET staged == IF k = "local" THEN NamesIn(t) ELSE {}
          IN  pub' = [pub EXCEPT ![p].src = t, ![p].kind = k, ![p].todo = staged,
                        ![p].pc = IF staged = {} THEN "enumerate" ELSE "stage"]
    BY <1>1 DEF Start
  <2> DEFINE staged == IF k = "local" THEN NamesIn(t) ELSE {}
             r == [me EXCEPT !.src = t, !.kind = k, !.todo = staged,
                     !.pc = IF staged = {} THEN "enumerate" ELSE "stage"]
  <2>2. pub' = [pub EXCEPT ![p] = r]
    BY <2>1
  <2>3. r.pc \in {"enumerate", "stage"}
    BY <1>0 DEF PubStates
  <2>4. UNCHANGED landingVars
    BY <1>1 DEF Start
  <2> HIDE DEF r
  <2> QED
    BY <1>1, <2>2, <2>3, <2>4, IdleStep
<1>2. CASE Stage(p)
  <2> DEFINE f == Min(me.todo)
             r == [me EXCEPT !.todo = @ \ {f},
                     !.pc = IF me.todo = {f} THEN "enumerate" ELSE @]
  <2>1. pub' = [pub EXCEPT ![p] = r] /\ UNCHANGED landingVars
    BY <1>2 DEF Stage
  <2>2. r.pc \in {"enumerate", "stage"}
    BY <1>0, <1>2 DEF PubStates, Stage
  <2> HIDE DEF r
  <2> QED
    BY <1>2, <2>1, <2>2, IdleStep DEF PublisherStep
<1>fail. ASSUME Fail(p), UNCHANGED landingVars PROVE LandingInv'
  <2> DEFINE r == [me EXCEPT !.pc = "failed"]
  <2>1. pub' = [pub EXCEPT ![p] = r] /\ r.pc = "failed"
    BY <1>0, <1>fail DEF Fail, PubStates
  <2> HIDE DEF r
  <2> QED
    BY <1>fail, <2>1, IdleStep
<1>3. CASE Enumerate(p)
  <2> DEFINE r == [me EXCEPT !.files = NamesIn(S), !.pc = "version"]
  <2>1. UNCHANGED landingVars /\ UNCHANGED staging
    BY <1>3 DEF Enumerate
  <2>2. CASE NamesIn(S) = {}
    BY <1>3, <1>fail, <2>1, <2>2 DEF Enumerate
  <2>3. CASE NamesIn(S) # {}
    <3>1. pub' = [pub EXCEPT ![p] = r]
      BY <1>3, <2>3 DEF Enumerate
    <3>2. r.pc = "version" /\ r.files = NamesIn(S) /\ r.kind = me.kind /\ r.src = me.src
      BY <1>0 DEF PubStates
    <3> HIDE DEF r
    <3>3. pub'[p] = r
      BY <1>0, <3>1
    <3>4. Writing(p)' /\ Unwritten(p)'
      BY <3>2, <3>3 DEF Writing, Unwritten
    <3> QED
      BY <1>3, <1>h, <1>still, <2>1, <3>1, <3>4, OneRunMoves DEF PublisherStep
  <2> QED
    BY <2>2, <2>3
<1>4. CASE NextVersion(p)
  <2>1. /\ UNCHANGED landingVars /\ UNCHANGED staging /\ me.pc = "version"
        /\ Max(Taken \cup {0}) + 1 <= MaxVersion
    BY <1>4 DEF NextVersion
  <2>2. PICK v \in Versions : v = Max(Taken \cup {0}) + 1
    <3>1. Max(Taken \cup {0}) \in Nat /\ MaxVersion \in Nat
      BY MaxTaken, BucketsAssumption
    <3> QED
      BY <2>1, <3>1 DEF Versions
  <2>3. Blank(v)
    BY <1>0, <2>2, NextIsFree, FreeIsBlank
  <2> DEFINE r == [me EXCEPT !.ver = v, !.plan = Empty, !.todo = me.files, !.pc = "hash"]
  <2>4. /\ r.pc = "hash" /\ r.files = me.files /\ r.kind = me.kind /\ r.src = me.src
        /\ r.ver = v /\ r.plan = Empty /\ r.todo = me.files
    BY <1>0 DEF PubStates
  <2>p. pub' = [pub EXCEPT ![p] = r]
    BY <1>4, <2>2 DEF NextVersion
  <2> HIDE DEF r
  <2>5. pub'[p] = r
    BY <1>0, <2>p
  <2>6. Writing(p)'
    BY <2>2, <2>4, <2>5 DEF Writing
  <2>7. Unwritten(p)'
    BY <2>1, <2>3, <2>4, <2>5 DEF Unwritten, Blank, landingVars
  <2> QED
    BY <1>4, <1>h, <1>still, <2>1, <2>p, <2>6, <2>7, OneRunMoves DEF PublisherStep
<1>5. CASE Hash(p)
  <2>1. /\ UNCHANGED landingVars /\ UNCHANGED staging /\ me.pc = "hash"
    BY <1>5 DEF Hash
  <2>2. PICK f \in me.todo :
          IF S[f] = Absent THEN Fail(p)
          ELSE pub' = [pub EXCEPT ![p].plan[f] = S[f], ![p].todo = @ \ {f},
                         ![p].pc = IF pub[p].todo = {f} THEN "head" ELSE @]
    BY <1>5 DEF Hash
  <2> DEFINE r == [me EXCEPT !.plan[f] = S[f], !.todo = @ \ {f},
                     !.pc = IF me.todo = {f} THEN "head" ELSE @]
  <2>3. CASE S[f] = Absent
    BY <1>fail, <2>1, <2>2, <2>3
  <2>4. CASE S[f] # Absent
    <3>1. pub' = [pub EXCEPT ![p] = r]
      BY <2>2, <2>4
    <3>2. /\ r.pc = (IF me.todo = {f} THEN "head" ELSE "hash") /\ r.files = me.files
          /\ r.kind = me.kind /\ r.src = me.src /\ r.ver = me.ver
          /\ r.plan = [me.plan EXCEPT ![f] = S[f]] /\ r.todo = me.todo \ {f}
      BY <1>0, <2>1 DEF PubStates
    <3> HIDE DEF r
    <3>3. pub'[p] = r
      BY <1>0, <3>1
    <3>4. Writing(p)' /\ Unwritten(p)'
      <4>1. Unwritten(p)'
        BY <1>0, <2>1, <3>2, <3>3 DEF Unwritten, Blank, landingVars
      <4> QED
        BY <1>0, <2>1, <3>2, <3>3, <4>1 DEF Writing
    <3> QED
      BY <1>5, <1>h, <1>still, <2>1, <3>1, <3>4, OneRunMoves DEF PublisherStep
  <2> QED
    BY <2>3, <2>4
<1>6. CASE Head(p)
  <2> DEFINE r == [me EXCEPT !.pc = "reserve"]
  <2>1. UNCHANGED landingVars /\ UNCHANGED staging /\ me.pc = "head"
    BY <1>6 DEF Head
  <2>2. lds[V] = NoDoc
    BY <1>0, <2>1 DEF Unwritten, Blank
  <2>3. pub' = [pub EXCEPT ![p] = r]
    BY <1>6, <2>2 DEF Head
  <2>4. /\ r.pc = "reserve" /\ r.files = me.files /\ r.kind = me.kind /\ r.src = me.src
        /\ r.ver = me.ver /\ r.plan = me.plan
    BY <1>0 DEF PubStates
  <2> HIDE DEF r
  <2>5. pub'[p] = r
    BY <1>0, <2>3
  <2>6. Unwritten(p)'
    BY <1>0, <2>1, <2>4, <2>5 DEF Unwritten, Blank, landingVars
  <2>7. Writing(p)'
    BY <1>0, <2>1, <2>4, <2>5 DEF Writing
  <2> QED
    BY <1>6, <1>h, <1>still, <2>1, <2>3, <2>6, <2>7, OneRunMoves DEF PublisherStep
<1>7. CASE Reserve(p)
  <2> DEFINE r == [me EXCEPT !.todo = me.files, !.pc = "copy"]
  <2>1. /\ lds' = [lds EXCEPT ![V] = me.plan] /\ pub' = [pub EXCEPT ![p] = r]
        /\ UNCHANGED <<lman, lobj, marks, staging>> /\ me.pc = "reserve"
    BY <1>7 DEF Reserve
  <2>2. /\ V \in Versions /\ Blank(V) /\ NamesIn(me.plan) = me.files /\ me.files # {}
        /\ me.files = NamesIn(S) /\ me.plan = S
    BY <1>0, <2>1 DEF Hashing, Writing, Unwritten, RunStates
  <2>3. /\ r.pc = "copy" /\ r.files = me.files /\ r.kind = me.kind /\ r.src = me.src
        /\ r.ver = me.ver /\ r.plan = me.plan /\ r.todo = me.files
    BY <1>0 DEF PubStates
  <2> HIDE DEF r
  <2>4. pub'[p] = r
    BY <1>0, <2>1
  <2>7. lds'[V] = me.plan /\ lman'[V] = [g \in Groups |-> NoDoc] /\ lobj'[V] = Empty
    BY <1>0, <2>1, <2>2 DEF LandingTypeOK, Blank
  <2>8. Empty = [f \in Files |-> IF f \in me.files THEN Absent ELSE me.plan[f]]
    BY <1>0, <2>2 DEF Empty, NamesIn, Trees
  <2>9. Writing(p)'
    BY <2>2, <2>3, <2>4, <2>7, <2>8 DEF Writing
  <2>10. Unwritten(p)'
    BY <2>3, <2>4 DEF Unwritten
  <2>11. \A v \in Versions : Settled(v)'
    <3> SUFFICES ASSUME NEW v \in Versions PROVE Settled(v)'
      OBVIOUS
    <3>1. CASE v # V
      BY <1>0, <2>1, <3>1, StaysSettled
    <3>2. CASE v = V
      <4>1. GroupsIn(me.plan) # {} /\ GroupsIn(me.plan) \subseteq Groups
        BY <1>0, <2>2, TreeFacts
      <4> QED
        BY <2>2, <2>7, <3>2, <4>1 DEF Settled
    <3> QED
      BY <3>1, <3>2
  <2> QED
    BY <1>7, <1>h, <2>1, <2>9, <2>10, <2>11, OneRunMoves DEF PublisherStep
<1>8. CASE Copy(p) \/ PutManifest(p)
  <2>1. /\ Writing(p)' /\ pub'[p].ver = V /\ pub'[p].plan = me.plan /\ V \in Versions
        /\ pub'[p].pc \in {"copy", "manifest", "cleanup", "done"}
        /\ pub'[p].pc \in {"cleanup", "done"} =>
              /\ lds'[V] = me.plan /\ lobj'[V] = me.plan
              /\ \A g \in Groups : lman'[V][g] = IF g \in GroupsIn(me.plan)
                                                THEN Part(me.plan, g) ELSE NoDoc
        /\ lds'[V] = me.plan /\ NamesIn(me.plan) # {}
        /\ \A v \in Versions : v # V =>
              lds'[v] = lds[v] /\ lman'[v] = lman[v] /\ lobj'[v] = lobj[v]
    <3>1. me.pc \in {"copy", "manifest"}
      BY <1>8 DEF Copy, PutManifest
    <3>2. lds[V] = me.plan /\ V \in Versions /\ NamesIn(me.plan) # {}
      BY <1>0, <3>1 DEF Writing, RunStates
    <3> QED
      BY <1>0, <1>8, <3>2, RunWrites
  <2>2. Settled(V)'
    <3>1. \A g \in Groups : lman'[V][g] # NoDoc =>
            lobj'[V] = lds'[V] /\ lman'[V][g] = Part(lds'[V], g)
      BY <2>1 DEF Writing
    <3> QED
      BY <2>1, <3>1 DEF Settled
  <2>3. \A v \in Versions : Settled(v)'
    BY <1>0, <2>1, <2>2, StaysSettled
  <2>4. Unwritten(p)'
    BY <2>1 DEF Unwritten
  <2>5. PICK r : pub' = [pub EXCEPT ![p] = r]
    <3>1. pub' = [pub EXCEPT ![p] = pub'[p]]
      <4>1. \A q \in Publishers \ {p} : pub'[q] = pub[q]
        BY <1>8, OneRunAtATime DEF PublisherStep
      <4>2. pub' \in [Publishers -> RunStates]
        BY <1>8, PublisherKeeps DEF PublisherStep, PubGood
      <4> QED
        BY <1>0, <4>1, <4>2
    <3> QED
      BY <3>1
  <2> QED
    BY <1>8, <1>h, <2>1, <2>3, <2>4, <2>5, OneRunMoves DEF PublisherStep
<1>9. CASE Cleanup(p)
  <2> DEFINE f == Min(me.todo)
             r == [me EXCEPT !.todo = @ \ {f}, !.pc = IF me.todo = {f} THEN "done" ELSE @]
  <2>1. pub' = [pub EXCEPT ![p] = r] /\ UNCHANGED landingVars
    BY <1>9 DEF Cleanup
  <2>2. r.pc \in {"done", "cleanup"}
    BY <1>0, <1>9 DEF PubStates, Cleanup
  <2> HIDE DEF r
  <2> QED
    BY <1>9, <2>1, <2>2, IdleStep DEF PublisherStep
<1>10. CASE PubCrash(p)
  BY <1>10, <1>fail DEF PubCrash
<1> QED
  BY <1>1, <1>2, <1>3, <1>4, <1>5, <1>6, <1>7, <1>8, <1>9, <1>10 DEF PublisherStep

\* Whoever leaves the documents, the payload and the runs alone leaves landing in order ...
LEMMA LandingStays ==
    ASSUME LandingInv, UNCHANGED <<lds, lman, lobj>>, UNCHANGED pubVars
    PROVE  LandingInv'
<1>1. Alone'
  BY DEF LandingInv, Alone, InFlight, pubVars
<1>2. \A p \in Publishers : Hashing(p)' /\ Writing(p)' /\ Unwritten(p)'
  <2> SUFFICES ASSUME NEW p \in Publishers PROVE Hashing(p)' /\ Writing(p)' /\ Unwritten(p)'
    OBVIOUS
  <2>1. SourceOf(p)' = SourceOf(p)
    BY DEF SourceOf, pubVars
  <2>2. Hashing(p)'
    BY <2>1 DEF LandingInv, Hashing, pubVars
  <2>3. Writing(p)' /\ Unwritten(p)'
    BY DEF LandingInv, Writing, Unwritten, Blank, pubVars
  <2> QED
    BY <2>2, <2>3
<1>3. \A v \in Versions : Settled(v)'
  BY StaysSettled DEF LandingInv
<1> QED
  BY <1>1, <1>2, <1>3 DEF LandingInv

\* ... as validator jobs do ...
LEMMA JobsOnlyMark ==
    ASSUME NEW j \in Jobs, JobStep(j) \/ RunNamed(j) \/ JobCrash(j)
    PROVE  UNCHANGED <<lds, lman, lobj>>
<1>1. Discover(j) \/ RunNamed(j) \/ JobCrash(j) => UNCHANGED <<lds, lman, lobj>>
  BY DEF Discover, RunNamed, JobCrash, landingVars
<1>2. GateAStep(j) => UNCHANGED <<lds, lman, lobj>>
  BY DEF GateAStep, LoadDs, LoadManifest, HeadEntry, ListGroup, SampleEntry, EndGroup, Sweep,
         LeaveIncomplete, Reject, landingVars
<1>3. CheckSeal(j) \/ ReloadDs(j) \/ ReloadManifest(j) => UNCHANGED <<lds, lman, lobj>>
  BY DEF CheckSeal, ReloadDs, ReloadManifest, landingVars
<1>4. CopyDs(j) \/ CopyManifest(j) \/ CopyPayload(j) => UNCHANGED <<lds, lman, lobj>>
  BY DEF CopyDs, CopyManifest, CopyPayload, landingVars
<1>5. HeadCrc(j) \/ ReadRoot(j) \/ PutCatalog(j) \/ PutSeal(j) \/ MarkValidated(j)
        => UNCHANGED <<lds, lman, lobj>>
  BY DEF HeadCrc, ReadRoot, PutCatalog, PutSeal, MarkValidated, landingVars
<1> QED
  BY <1>1, <1>2, <1>3, <1>4, <1>5 DEF JobStep, PromoteStep

\* ... and a version that expires is one that nobody is writing.
LEMMA ExpiryKeeps ==
    ASSUME PubGood, LandingInv, NEW v \in Versions, Expire(v)
    PROVE  LandingInv'
<1>1. /\ UNCHANGED pubVars
      /\ \A p \in Publishers : ~(InFlight(p) /\ pub[p].ver = v)
      /\ lds'  = [lds EXCEPT ![v] = NoDoc]
      /\ lman' = [lman EXCEPT ![v] = [g \in Groups |-> NoDoc]]
      /\ lobj' = [lobj EXCEPT ![v] = Empty]
  BY DEF Expire
<1>2. LandingTypeOK
  BY DEF PubGood
<1>3. Alone'
  BY <1>1 DEF LandingInv, Alone, InFlight, pubVars
<1>4. \A w \in Versions : Settled(w)'
  <2> SUFFICES ASSUME NEW w \in Versions PROVE Settled(w)'
    OBVIOUS
  <2>1. CASE w # v
    BY <1>1, <1>2, <2>1, StaysSettled DEF LandingInv, LandingTypeOK
  <2>2. CASE w = v
    BY <1>1, <1>2, <2>2 DEF LandingTypeOK, Settled
  <2> QED
    BY <2>1, <2>2
<1>5. ASSUME NEW p \in Publishers PROVE Hashing(p)' /\ Writing(p)' /\ Unwritten(p)'
  <2>1. Hashing(p)'
    <3>1. SourceOf(p)' = SourceOf(p)
      BY <1>1 DEF SourceOf, pubVars
    <3> QED
      BY <1>1, <3>1 DEF LandingInv, Hashing, pubVars
  <2>2. pub'[p].pc \in {"hash", "head", "reserve", "copy", "manifest"}
          => /\ pub[p].ver \in Versions
             /\ lds'[pub[p].ver] = lds[pub[p].ver] /\ lman'[pub[p].ver] = lman[pub[p].ver]
             /\ lobj'[pub[p].ver] = lobj[pub[p].ver]
    BY <1>1, <1>2 DEF LandingInv, Writing, LandingTypeOK, InFlight, pubVars
  <2>3. Writing(p)'
    BY <1>1, <2>2 DEF LandingInv, Writing, pubVars
  <2>4. Unwritten(p)'
    BY <1>1, <2>2 DEF LandingInv, Unwritten, Blank, pubVars
  <2> QED
    BY <2>1, <2>3, <2>4
<1> QED
  BY <1>3, <1>4, <1>5 DEF LandingInv

\* Landing is in order to begin with, and stays so.
LEMMA InitLanding == Init => LandingInv
<1> SUFFICES ASSUME Init PROVE LandingInv
  OBVIOUS
<1>1. \A p \in Publishers : pub[p].pc = "idle"
  BY DEF Init, PublishInit
<1>2. \A p \in Publishers : Hashing(p) /\ Writing(p) /\ Unwritten(p)
  BY <1>1, NothingToShow
<1>3. Alone
  BY <1>1 DEF Alone, InFlight
<1>4. \A v \in Versions : Settled(v)
  BY DEF Init, BucketsInit, Settled
<1> QED
  BY <1>2, <1>3, <1>4 DEF LandingInv

\* No step of anybody disturbs it.
LEMMA NextLanding ==
    ASSUME ~Overlap, PubGood, LandingInv, [Next]_vars PROVE LandingInv'
<1>1. CASE PublishNext
  BY <1>1, LandingKeeps DEF PublishNext
<1>2. CASE ValidatorNext /\ UNCHANGED pubVars
  BY <1>2, JobsOnlyMark, LandingStays DEF ValidatorNext
<1>3. ASSUME NEW v \in Versions, Expire(v) PROVE LandingInv'
  BY <1>3, ExpiryKeeps
<1>4. CASE UNCHANGED vars
  BY <1>4, LandingStays DEF vars, landingVars
<1> QED
  BY <1>1, <1>2, <1>3, <1>4 DEF Next

\* Publications that do not overlap leave landing in order.
LEMMA LandingInvariance == ASSUME ~Overlap PROVE Spec => []LandingInv
<1>1. IInv /\ LandingInv /\ [Next]_vars => LandingInv'
  BY NextLanding DEF IInv
<1> QED
  BY <1>1, InitLanding, Invariance, PTL DEF Spec

-----------------------------------------------------------------------------
(* What is finished stays. *)

\* The documents of a version that has a dataset.json stay.
DocumentsKept(v) ==
    lds[v] # NoDoc =>
        /\ lds'[v] = lds[v]
        /\ \A g \in Groups : lman[v][g] # NoDoc => lman'[v][g] = lman[v][g]

\* A run of publish() replaces no document: it found the version without a dataset.json, and
\* writes each manifest once.
LEMMA RunsKeepDocuments ==
    ASSUME PubGood, LandingInv, ~Overlap, NEW p \in Publishers,
           Start(p) \/ PublisherStep(p) \/ PubCrash(p)
    PROVE  \A v \in Versions : DocumentsKept(v)
<1> DEFINE me == pub[p]
           V  == me.ver
<1>0. /\ me \in RunStates /\ Writing(p) /\ Unwritten(p) /\ LandingTypeOK
  BY DEF PubGood, LandingInv
<1>1. CASE Start(p) \/ Stage(p) \/ Enumerate(p) \/ NextVersion(p)
  <2>1. UNCHANGED landingVars
    BY <1>1, Zenon DEF Start, Stage, Enumerate, NextVersion
  <2> QED
    BY <2>1 DEF DocumentsKept, landingVars
<1>2. CASE Hash(p) \/ Head(p) \/ Cleanup(p) \/ PubCrash(p)
  <2>1. UNCHANGED landingVars
    BY <1>2 DEF Hash, Head, Cleanup, PubCrash, landingVars
  <2> QED
    BY <2>1 DEF DocumentsKept, landingVars
<1>3. CASE Reserve(p)
  <2>1. lds[V] = NoDoc /\ V \in Versions /\ lds' = [lds EXCEPT ![V] = me.plan] /\ UNCHANGED lman
    BY <1>0, <1>3 DEF Reserve, Writing, Unwritten, Blank
  <2> QED
    BY <1>0, <2>1 DEF DocumentsKept, LandingTypeOK
<1>4. CASE Copy(p)
  BY <1>4 DEF Copy, DocumentsKept
<1>5. CASE PutManifest(p)
  <2>1. me.pc = "manifest" /\ UNCHANGED lds
    BY <1>5 DEF PutManifest
  <2>2. PICK g \in me.todo : g \in Groups /\ g = Min(me.todo)
    BY <1>0, <2>1, MinOfGroups DEF RunStates
  <2>3. lman' = [lman EXCEPT ![V][g] = Part(me.plan, g)]
    BY <1>5, <2>2 DEF PutManifest
  <2>4. V \in Versions /\ lman[V][g] = NoDoc
    BY <1>0, <2>1, <2>2 DEF Writing
  <2>5. \A v \in Versions, h \in Groups : ~(v = V /\ h = g) => lman'[v][h] = lman[v][h]
    BY <1>0, <2>2, <2>3, <2>4 DEF LandingTypeOK
  <2> QED
    BY <2>1, <2>4, <2>5 DEF DocumentsKept
<1> QED
  BY <1>1, <1>2, <1>3, <1>4, <1>5 DEF PublisherStep

\* So a version that is whole stays as it is.
LEMMA WholeStays ==
    ASSUME LandingTypeOK, NEW v \in Versions, Whole(v), DocumentsKept(v), Settled(v)'
    PROVE  Whole(v)' /\ lds'[v] = lds[v]
<1>1. lds[v] # NoDoc /\ lds'[v] = lds[v]
  BY BucketsAssumption DEF Whole, DocumentsKept
<1>2. /\ GroupsIn(lds[v]) # {} /\ GroupsIn(lds[v]) \subseteq Groups
      /\ \A g \in Groups : Part(lds[v], g) # NoDoc
  BY BucketsAssumption, TreeFacts DEF Whole
<1>3. \A g \in GroupsIn(lds[v]) : lman'[v][g] = Part(lds[v], g)
  BY <1>1, <1>2 DEF Whole, DocumentsKept
<1>4. lobj'[v] = lds[v]
  BY <1>1, <1>2, <1>3 DEF Settled
<1> QED
  BY <1>1, <1>3, <1>4 DEF Whole

-----------------------------------------------------------------------------
(* A run publishes the tree it was given. *)

\* From the listing on, the source of a run is the tree its producer meant.
Sourced(p) ==
    /\ pub[p].pc # "idle" => pub[p].src \in Sources
    /\ InFlight(p) /\ pub[p].pc \notin {"stage", "cleanup"} => SourceOf(p) = pub[p].src
    /\ pub[p].pc \in {"cleanup", "done"} => pub[p].plan = pub[p].src

\* And only such trees are ever reserved.
SourceInv ==
    /\ \A p \in Publishers : Hashing(p) /\ Sourced(p)
    /\ \A v \in Versions : lds[v] # NoDoc => lds[v] \in Sources

\* A local run fills the staging area, reads it back and clears it.
Staged(p) ==
    /\ pub[p].pc # "idle" => pub[p].src \in Sources
    /\ pub[p].pc = "stage" =>
          /\ pub[p].kind = "local" /\ pub[p].todo \subseteq NamesIn(pub[p].src)
          /\ staging = [f \in Files |-> IF f \in pub[p].todo THEN Absent ELSE pub[p].src[f]]
    /\ InFlight(p) /\ pub[p].pc \notin {"stage", "cleanup"} =>
          staging = IF pub[p].kind = "local" THEN pub[p].src ELSE Empty
    /\ pub[p].pc = "cleanup" =>
          staging = [f \in Files |-> IF f \in pub[p].todo THEN pub[p].src[f] ELSE Absent]
    /\ pub[p].pc \in {"cleanup", "done"} => pub[p].plan = pub[p].src

\* Between runs the staging area is empty.
Swept == (\A p \in Publishers : ~InFlight(p)) => staging = Empty

StagingInv == Swept /\ \A p \in Publishers : Staged(p)

\* Where runs do not overlap and no run and no delete fails, the staging area holds what the run
\* in flight has to do with it, and nothing once it is over.
LEMMA StagingKeeps ==
    ASSUME PubGood, LandingInv, StagingInv, ~Overlap, MaxPubFaults = 0,
           NEW p \in Publishers, Start(p) \/ PublisherStep(p) \/ PubCrash(p)
    PROVE  StagingInv'
<1> DEFINE me == pub[p]
           S  == SourceOf(p)
<1>0. /\ me \in RunStates /\ me \in PubStates /\ me.src \in Trees /\ me.files \subseteq Files
      /\ S \in Trees /\ staging \in Trees /\ pub \in [Publishers -> RunStates] /\ pubFaults = 0
      /\ Hashing(p) /\ Writing(p) /\ Unwritten(p) /\ Staged(p) /\ Swept
  BY SourceIsTree DEF PubGood, RunStates, PubStates, LandingInv, StagingInv
<1>1. \A q \in Publishers \ {p} : ~InFlight(q) /\ pub'[q] = pub[q]
  BY OthersRest, OneRunAtATime DEF LandingInv
<1>2. \A q \in Publishers \ {p} : Staged(q)'
  BY <1>1 DEF StagingInv, Staged, InFlight
<1>so. ASSUME Staged(p)', ~InFlight(p)' => staging' = Empty PROVE StagingInv'
  BY <1>2, <1>so DEF StagingInv, Swept
<1>mid. ASSUME UNCHANGED staging, InFlight(p), me.pc \notin {"stage", "cleanup"},
               pub'[p].kind = me.kind, pub'[p].src = me.src,
               pub'[p].pc \notin {"idle", "stage", "cleanup", "done", "failed"}
        PROVE  StagingInv'
  <2>1. Staged(p)' /\ InFlight(p)'
    BY <1>0, <1>mid DEF Staged, InFlight
  <2> QED
    BY <1>so, <2>1
<1>3. CASE Start(p)
  <2>1. PICK t \in Sources, k \in SourceKinds :
          LET staged == IF k = "local" THEN NamesIn(t) ELSE {}
          IN  pub' = [pub EXCEPT ![p].src = t, ![p].kind = k, ![p].todo = staged,
                        ![p].pc = IF staged = {} THEN "enumerate" ELSE "stage"]
    BY <1>3 DEF Start
  <2> DEFINE staged == IF k = "local" THEN NamesIn(t) ELSE {}
  <2>2. /\ pub'[p].src = t /\ pub'[p].kind = k /\ pub'[p].todo = staged
        /\ pub'[p].pc = (IF staged = {} THEN "enumerate" ELSE "stage")
    BY <1>0, <2>1 DEF PubStates
  <2>3. staging = Empty /\ UNCHANGED staging
    <3>1. \A q \in Publishers : ~InFlight(q)
      BY <1>3 DEF Start
    <3> QED
      BY <1>0, <1>3, <3>1 DEF Start, Swept
  <2>4. t \in Trees
    BY PublishAssumption
  <2>5. CASE staged = {}
    <3>1. k = "local" => t = Empty
      BY <2>4, <2>5 DEF NamesIn, Empty, Trees
    <3> QED
      BY <1>so, <2>2, <2>3, <2>5, <3>1 DEF Staged, InFlight
  <2>6. CASE staged # {}
    <3>1. k = "local" /\ Empty = [f \in Files |-> IF f \in NamesIn(t) THEN Absent ELSE t[f]]
      BY <2>4, <2>6 DEF NamesIn, Empty, Trees
    <3> QED
      BY <1>so, <2>2, <2>3, <2>6, <3>1 DEF Staged, InFlight
  <2> QED
    BY <2>5, <2>6
<1>4. CASE Stage(p)
  <2>1. PICK f \in me.todo : f \in Files /\ f = Min(me.todo)
    BY <1>0, <1>4, MinOfFiles DEF Stage, RunStates
  <2>2. /\ pub'[p].src = me.src /\ pub'[p].kind = me.kind /\ pub'[p].todo = me.todo \ {f}
        /\ pub'[p].pc = (IF me.todo = {f} THEN "enumerate" ELSE "stage")
        /\ staging' = [staging EXCEPT ![f] = me.src[f]]
    BY <1>0, <1>4, <2>1 DEF Stage, PubStates
  <2>3. /\ me.kind = "local" /\ me.todo \subseteq NamesIn(me.src) /\ me.src \in Sources
        /\ staging = [e \in Files |-> IF e \in me.todo THEN Absent ELSE me.src[e]]
    BY <1>0, <1>4 DEF Stage, Staged
  <2>4. staging' = [e \in Files |-> IF e \in me.todo \ {f} THEN Absent ELSE me.src[e]]
    BY <2>1, <2>2, <2>3
  <2>5. me.todo = {f} => staging' = me.src
    <3> SUFFICES ASSUME me.todo = {f} PROVE staging' = me.src
      OBVIOUS
    <3>1. staging' = [e \in Files |-> me.src[e]]
      BY <2>4
    <3> QED
      BY <1>0, <3>1 DEF Trees
  <2> QED
    BY <1>so, <2>2, <2>3, <2>4, <2>5 DEF Staged, InFlight
<1>5. CASE Enumerate(p)
  <2>1. me.pc = "enumerate" /\ UNCHANGED staging /\ InFlight(p)
    BY <1>5 DEF Enumerate, InFlight
  <2>2. CASE NamesIn(S) = {}
    <3>1. pub'[p].pc = "failed" /\ pub'[p].src = me.src
      BY <1>0, <1>5, <2>2 DEF Enumerate, Fail, PubStates
    <3>2. S = Empty
      BY <1>0, <2>2 DEF NamesIn, Empty, Trees
    <3>3. staging = Empty
      BY <1>0, <2>1, <3>2 DEF Staged, SourceOf
    <3> QED
      BY <1>0, <1>so, <2>1, <3>1, <3>3 DEF Staged, InFlight
  <2>3. CASE NamesIn(S) # {}
    <3>1. pub'[p].pc = "version" /\ pub'[p].src = me.src /\ pub'[p].kind = me.kind
      BY <1>0, <1>5, <2>3 DEF Enumerate, PubStates
    <3> QED
      BY <1>mid, <2>1, <3>1
  <2> QED
    BY <2>2, <2>3
<1>6. CASE NextVersion(p)
  <2>1. /\ me.pc = "version" /\ UNCHANGED staging /\ InFlight(p)
        /\ pub'[p].pc = "hash" /\ pub'[p].src = me.src /\ pub'[p].kind = me.kind
    BY <1>0, <1>6 DEF NextVersion, InFlight, PubStates
  <2> QED
    BY <1>mid, <2>1
<1>7. CASE Hash(p)
  <2>1. me.pc = "hash" /\ UNCHANGED staging /\ InFlight(p)
    BY <1>7 DEF Hash, InFlight
  <2>2. PICK f \in me.todo :
          IF S[f] = Absent THEN Fail(p)
          ELSE pub' = [pub EXCEPT ![p].plan[f] = S[f], ![p].todo = @ \ {f},
                         ![p].pc = IF pub[p].todo = {f} THEN "head" ELSE @]
    BY <1>7 DEF Hash
  <2>3. S[f] # Absent
    BY <1>0, <2>1 DEF Hashing, RunStates, NamesIn
  <2>4. pub'[p].pc \in {"hash", "head"} /\ pub'[p].src = me.src /\ pub'[p].kind = me.kind
    BY <1>0, <2>1, <2>2, <2>3 DEF PubStates
  <2> QED
    BY <1>mid, <2>1, <2>4
<1>8. CASE Head(p)
  <2>1. me.pc = "head" /\ UNCHANGED staging /\ InFlight(p) /\ lds[me.ver] = NoDoc
    BY <1>0, <1>8 DEF Head, InFlight, Unwritten, Blank
  <2>2. pub'[p].pc = "reserve" /\ pub'[p].src = me.src /\ pub'[p].kind = me.kind
    BY <1>0, <1>8, <2>1 DEF Head, PubStates
  <2> QED
    BY <1>mid, <2>1, <2>2
<1>9. CASE Reserve(p)
  <2>1. /\ me.pc = "reserve" /\ UNCHANGED staging /\ InFlight(p)
        /\ pub'[p].pc = "copy" /\ pub'[p].src = me.src /\ pub'[p].kind = me.kind
    BY <1>0, <1>9 DEF Reserve, InFlight, PubStates
  <2> QED
    BY <1>mid, <2>1
<1>10. CASE Copy(p)
  <2>1. me.pc = "copy" /\ UNCHANGED staging /\ InFlight(p)
    BY <1>10 DEF Copy, InFlight
  <2>2. PICK f \in me.todo :
          IF S[f] = Absent
          THEN Fail(p) /\ UNCHANGED lobj
          ELSE /\ lobj' = [lobj EXCEPT ![me.ver][f] = S[f]]
               /\ pub' = IF me.todo = {f}
                         THEN [pub EXCEPT ![p].todo = GroupsIn(me.plan), ![p].pc = "manifest"]
                         ELSE [pub EXCEPT ![p].todo = @ \ {f}]
    BY <1>10 DEF Copy
  <2>3. S[f] # Absent
    BY <1>0, <2>1 DEF Hashing, NamesIn
  <2>4. pub'[p].pc \in {"copy", "manifest"} /\ pub'[p].src = me.src /\ pub'[p].kind = me.kind
    BY <1>0, <2>1, <2>2, <2>3 DEF PubStates
  <2> QED
    BY <1>mid, <2>1, <2>4
<1>11. CASE PutManifest(p)
  <2>1. me.pc = "manifest" /\ UNCHANGED staging /\ InFlight(p)
    BY <1>11 DEF PutManifest, InFlight
  <2> DEFINE g == Min(me.todo)
             r == IF me.todo # {g} THEN [me EXCEPT !.todo = @ \ {g}]
                  ELSE IF me.kind = "s3" THEN [me EXCEPT !.todo = {}, !.pc = "done"]
                  ELSE [me EXCEPT !.todo = me.files, !.pc = "cleanup"]
  <2>2. pub' = [pub EXCEPT ![p] = r]
    BY <1>11 DEF PutManifest
  <2>3. /\ r.src = me.src /\ r.kind = me.kind /\ r.plan = me.plan
        /\ \/ r.pc = "manifest"
           \/ r.pc = "done" /\ me.kind = "s3"
           \/ r.pc = "cleanup" /\ me.kind # "s3" /\ r.todo = me.files
    BY <1>0, <2>1 DEF PubStates
  <2> HIDE DEF r
  <2>4. pub'[p] = r
    BY <1>0, <2>2
  <2>5. /\ staging = (IF me.kind = "local" THEN me.src ELSE Empty) /\ me.src \in Sources
        /\ me.plan = S /\ me.files = NamesIn(me.plan) /\ me.kind \in {"local", "s3"}
    BY <1>0, <2>1 DEF Staged, Hashing, InFlight, RunStates, PubStates
  <2>6. me.plan = me.src
    BY <2>5 DEF SourceOf
  <2>7. CASE r.pc = "manifest"
    BY <1>mid, <2>1, <2>3, <2>4, <2>7
  <2>8. CASE r.pc = "done"
    BY <1>so, <2>1, <2>3, <2>4, <2>5, <2>6, <2>8 DEF Staged, InFlight
  <2>9. CASE r.pc = "cleanup"
    <3>1. me.src = [f \in Files |-> IF f \in me.files THEN me.src[f] ELSE Absent]
      BY <1>0, <2>5, <2>6 DEF NamesIn, Trees
    <3> QED
      BY <1>so, <2>1, <2>3, <2>4, <2>5, <2>6, <2>9, <3>1 DEF Staged, InFlight
  <2> QED
    BY <2>3, <2>7, <2>8, <2>9
<1>12. CASE Cleanup(p)
  <2>1. PICK f \in me.todo : f \in Files /\ f = Min(me.todo)
    BY <1>0, <1>12, MinOfFiles DEF Cleanup, RunStates
  <2>2. /\ pub'[p].src = me.src /\ pub'[p].plan = me.plan /\ pub'[p].todo = me.todo \ {f}
        /\ pub'[p].pc = (IF me.todo = {f} THEN "done" ELSE "cleanup")
    BY <1>0, <1>12, <2>1 DEF Cleanup, PubStates
  <2>3. staging' = [staging EXCEPT ![f] = Absent]
    BY <1>0, <1>12, <2>1 DEF Cleanup
  <2>4. /\ me.src \in Sources /\ me.plan = me.src
        /\ staging = [e \in Files |-> IF e \in me.todo THEN me.src[e] ELSE Absent]
    BY <1>0, <1>12 DEF Cleanup, Staged
  <2>5. staging' = [e \in Files |-> IF e \in me.todo \ {f} THEN me.src[e] ELSE Absent]
    BY <2>1, <2>3, <2>4
  <2>6. me.todo = {f} => staging' = Empty
    BY <2>5 DEF Empty
  <2> QED
    BY <1>so, <2>2, <2>4, <2>5, <2>6 DEF Staged, InFlight
<1>13. CASE PubCrash(p)
  BY <1>0, <1>13 DEF PubCrash
<1> QED
  BY <1>3, <1>4, <1>5, <1>6, <1>7, <1>8, <1>9, <1>10, <1>11, <1>12, <1>13 DEF PublisherStep

\* What a run reserves is the tree of its producer.
LEMMA OnlySourcesReserved ==
    ASSUME PubGood, SourceInv, NEW p \in Publishers, Start(p) \/ PublisherStep(p) \/ PubCrash(p)
    PROVE  \A v \in Versions : lds'[v] # NoDoc => lds'[v] \in Sources
<1>1. Start(p) \/ Stage(p) \/ Enumerate(p) \/ NextVersion(p) => UNCHANGED lds
  BY Zenon DEF Start, Stage, Enumerate, NextVersion, landingVars
<1>2. Hash(p) \/ Head(p) \/ Copy(p) \/ PutManifest(p) => UNCHANGED lds
  BY DEF Hash, Head, Copy, PutManifest, landingVars
<1>3. Cleanup(p) \/ PubCrash(p) => UNCHANGED lds
  BY DEF Cleanup, PubCrash, landingVars
<1>4. CASE Reserve(p)
  <2>1. pub[p].plan \in Sources
    BY <1>4 DEF Reserve, SourceInv, Hashing, Sourced, InFlight
  <2>2. lds' = [lds EXCEPT ![pub[p].ver] = pub[p].plan]
    BY <1>4 DEF Reserve
  <2>3. lds \in [Versions -> Docs]
    BY DEF PubGood, LandingTypeOK
  <2> QED
    BY <2>1, <2>2, <2>3 DEF SourceInv
<1> QED
  BY <1>1, <1>2, <1>3, <1>4 DEF PublisherStep, SourceInv

\* Every run reads its own s3:// prefix.
AllS3 == \A p \in Publishers : pub[p].kind = "s3"

\* Then it does not matter who else runs.
LEMMA PrefixKeeps ==
    ASSUME PubGood, SourceInv, AllS3, SourceKinds \subseteq {"s3"},
           NEW p \in Publishers, Start(p) \/ PublisherStep(p) \/ PubCrash(p)
    PROVE  SourceInv' /\ AllS3'
<1>0. pub \in [Publishers -> RunStates] /\ Hashing(p) /\ Sourced(p) /\ pub[p].kind = "s3"
  BY DEF PubGood, SourceInv, AllS3
<1>1. \A q \in Publishers \ {p} : pub'[q] = pub[q]
  BY OneRunAtATime
<1>2. /\ Hashing(p)'
      /\ pub[p].pc # "idle" => pub'[p].kind = pub[p].kind /\ pub'[p].src = pub[p].src
      /\ pub'[p].pc \in {"cleanup", "done"} =>
            \/ pub[p].pc = "cleanup" /\ pub'[p].plan = pub[p].plan
            \/ pub[p].pc = "manifest" /\ pub'[p].plan = SourceOf(p)
  BY <1>0, RunHashes
<1>3. pub'[p].kind = "s3" /\ pub'[p].src \in Sources
  <2>1. CASE pub[p].pc # "idle"
    BY <1>0, <1>2, <2>1 DEF Sourced
  <2>2. CASE Start(p)
    <3>1. PICK t \in Sources, k \in SourceKinds :
            LET staged == IF k = "local" THEN NamesIn(t) ELSE {}
            IN  pub' = [pub EXCEPT ![p].src = t, ![p].kind = k, ![p].todo = staged,
                          ![p].pc = IF staged = {} THEN "enumerate" ELSE "stage"]
      BY <2>2 DEF Start
    <3>2. pub'[p].src = t /\ pub'[p].kind = k
      BY <1>0, <3>1 DEF RunStates, PubStates
    <3> QED
      BY <3>2
  <2>3. CASE PublisherStep(p) \/ PubCrash(p)
    <3>1. pub[p].pc # "idle"
      BY <2>3 DEF PublisherStep, Stage, Enumerate, NextVersion, Hash, Head, Reserve, Copy,
                  PutManifest, Cleanup, PubCrash, InFlight
    <3> QED
      BY <2>1, <3>1
  <2> QED
    BY <2>2, <2>3
<1>4. Sourced(p)'
  <2>1. pub'[p].pc \in {"cleanup", "done"} => pub[p].pc \in {"cleanup", "manifest"}
    BY <1>2
  <2>2. SourceOf(p) = pub[p].src
    BY <1>0 DEF SourceOf
  <2>3. pub[p].pc = "cleanup" => pub[p].plan = pub[p].src
    BY <1>0 DEF Sourced
  <2>4. SourceOf(p)' = pub'[p].src
    BY <1>3 DEF SourceOf
  <2>5. pub'[p].pc \in {"cleanup", "done"} => pub'[p].plan = pub'[p].src
    BY <1>2, <2>1, <2>2, <2>3
  <2> QED
    BY <1>3, <2>4, <2>5 DEF Sourced
<1>5. ASSUME NEW q \in Publishers \ {p} PROVE Hashing(q)' /\ Sourced(q)' /\ pub'[q].kind = "s3"
  <2>1. Hashing(q) /\ Sourced(q) /\ pub[q].kind = "s3" /\ pub'[q] = pub[q]
    BY <1>1 DEF SourceInv, AllS3
  <2>2. SourceOf(q)' = SourceOf(q)
    BY <2>1 DEF SourceOf
  <2> QED
    BY <2>1, <2>2 DEF Hashing, Sourced, InFlight
<1> QED
  BY <1>2, <1>3, <1>4, <1>5, OnlySourcesReserved DEF SourceInv, AllS3

\* Steps of others neither touch a run nor put a dataset.json.
LEMMA SourcesStay ==
    ASSUME SourceInv, UNCHANGED pubVars, \A v \in Versions : lds'[v] \in {lds[v], NoDoc}
    PROVE  SourceInv'
<1>1. ASSUME NEW p \in Publishers PROVE Hashing(p)' /\ Sourced(p)'
  <2>1. SourceOf(p)' = SourceOf(p) /\ Hashing(p) /\ Sourced(p) /\ pub' = pub
    BY DEF SourceOf, pubVars, SourceInv
  <2> QED
    BY <2>1 DEF Hashing, Sourced, InFlight
<1> QED
  BY <1>1 DEF SourceInv

\* Only publish() puts a dataset.json in landing.
LEMMA OthersPutNoDataset ==
    ASSUME PubGood,
           \/ ValidatorNext
           \/ \E v \in Versions : Expire(v)
           \/ UNCHANGED vars
    PROVE  \A v \in Versions : lds'[v] \in {lds[v], NoDoc}
<1>1. ValidatorNext => UNCHANGED lds
  BY JobsOnlyMark DEF ValidatorNext
<1>2. UNCHANGED vars => UNCHANGED lds
  BY DEF vars, landingVars
<1>3. ASSUME NEW w \in Versions, Expire(w) PROVE \A v \in Versions : lds'[v] \in {lds[v], NoDoc}
  BY <1>3 DEF Expire, PubGood, LandingTypeOK
<1> QED
  BY <1>1, <1>2, <1>3

\* A source nobody else writes: s3:// prefixes only, or a staging area that one run at a time
\* uses and clears.
CleanSources == SourceKinds \subseteq {"s3"} \/ (~Overlap /\ MaxPubFaults = 0)

\* No run has a source at first.
LEMMA InitSources == Init => SourceInv /\ AllS3 /\ StagingInv
<1> SUFFICES ASSUME Init PROVE SourceInv /\ AllS3 /\ StagingInv
  OBVIOUS
<1>1. /\ staging = Empty
      /\ \A p \in Publishers : pub[p].pc = "idle" /\ pub[p].kind = "s3"
      /\ \A v \in Versions : lds[v] = NoDoc
  BY DEF Init, PublishInit, BucketsInit
<1>2. \A p \in Publishers : Staged(p) /\ Hashing(p) /\ Sourced(p)
  BY <1>1 DEF Staged, Hashing, Sourced, InFlight
<1> QED
  BY <1>1, <1>2 DEF SourceInv, AllS3, StagingInv, Swept

\* With clean sources, runs read what their producers meant.
LEMMA SourcesInvariance == ASSUME CleanSources PROVE Spec => []SourceInv
<1> DEFINE others == \/ ValidatorNext /\ UNCHANGED pubVars
                     \/ \E v \in Versions : Expire(v)
                     \/ UNCHANGED vars
<1>0. [Next]_vars => PublishNext \/ others
  BY DEF Next
<1>1. PubGood /\ SourceInv /\ others => SourceInv' /\ UNCHANGED pubVars
  <2>1. others => UNCHANGED pubVars
    BY DEF Expire, vars
  <2> QED
    BY <2>1, SourcesStay, OthersPutNoDataset
<1>2. CASE SourceKinds \subseteq {"s3"}
  <2>1. IInv /\ SourceInv /\ AllS3 /\ PublishNext => SourceInv' /\ AllS3'
    BY <1>2, PrefixKeeps DEF PublishNext, IInv
  <2>2. IInv /\ SourceInv /\ AllS3 /\ others => SourceInv' /\ AllS3'
    BY <1>1 DEF AllS3, pubVars, IInv
  <2> HIDE DEF others
  <2>3. IInv /\ SourceInv /\ AllS3 /\ [Next]_vars => SourceInv' /\ AllS3'
    BY <1>0, <2>1, <2>2
  <2> QED
    BY <2>3, InitSources, Invariance, PTL DEF Spec
<1>3. CASE ~Overlap /\ MaxPubFaults = 0
  <2>0. Spec => []LandingInv
    BY <1>3, LandingInvariance
  <2>1. IInv /\ LandingInv /\ SourceInv /\ StagingInv /\ PublishNext => SourceInv' /\ StagingInv'
    <3> SUFFICES ASSUME IInv, LandingInv, SourceInv, StagingInv,
                        NEW p \in Publishers, Start(p) \/ PublisherStep(p) \/ PubCrash(p)
                 PROVE  SourceInv' /\ StagingInv'
      BY DEF PublishNext
    <3>1. PubGood
      BY DEF IInv
    <3>2. StagingInv'
      BY <1>3, <3>1, StagingKeeps
    <3>3. \A q \in Publishers : Sourced(q)'
      BY <3>2 DEF StagingInv, Staged, Sourced, SourceOf, InFlight
    <3>4. \A q \in Publishers : Hashing(q)'
      <4>1. LandingInv'
        BY <1>3, <3>1, LandingKeeps
      <4> QED
        BY <4>1 DEF LandingInv
    <3> QED
      BY <3>1, <3>2, <3>3, <3>4, OnlySourcesReserved DEF SourceInv
  <2>2. IInv /\ SourceInv /\ StagingInv /\ others => SourceInv' /\ StagingInv'
    <3>1. StagingInv /\ UNCHANGED pubVars => StagingInv'
      BY DEF StagingInv, Swept, Staged, InFlight, pubVars
    <3> QED
      BY <1>1, <3>1 DEF IInv
  <2> HIDE DEF others
  <2>3. IInv /\ LandingInv /\ SourceInv /\ StagingInv /\ [Next]_vars => SourceInv' /\ StagingInv'
    BY <1>0, <2>1, <2>2
  <2> QED
    BY <2>0, <2>3, InitSources, Invariance, PTL DEF Spec
<1> QED
  BY <1>2, <1>3 DEF CleanSources

\* A run that returns has published the tree its producer gave it, however validator jobs,
\* crashes and expiry interleave with it; where all sources are s3:// prefixes, other runs too.
THEOREM PublishesItsSource == ASSUME CleanSources PROVE Spec => []SourceFaithful
<1>1. SourceInv => SourceFaithful
  BY DEF SourceInv, Sourced, SourceFaithful
<1> QED
  BY <1>1, SourcesInvariance, PTL

-----------------------------------------------------------------------------
(* What a run that returned left in landing, when runs do overlap. *)

\* No other run has reserved the version of p.
Sole(p)   == Owns(p) /\ \A q \in Publishers \ {p} : Owns(q) => pub[q].ver # pub[p].ver
Nobody(v) == \A q \in Publishers : Owns(q) => pub[q].ver # v

\* All that was planned has been written.
Written(p) ==
    /\ lds[pub[p].ver] = pub[p].plan
    /\ lobj[pub[p].ver] = pub[p].plan
    /\ \A g \in GroupsIn(pub[p].plan) : lman[pub[p].ver][g] = Part(pub[p].plan, g)

\* A version nobody has reserved is blank; one run alone has there what it has written so far.
SoleInv ==
    /\ \A p \in Publishers :
          /\ pub[p].pc \in {"hash", "head", "reserve"} \/ Owns(p) => pub[p].ver \in Versions
          /\ Sole(p) => Writing(p) /\ (pub[p].pc \in {"cleanup", "done"} => Written(p))
    /\ \A v \in Versions : Nobody(v) => Blank(v)

\* A step that reserves nothing and leaves landing alone disturbs nobody.
LEMMA NoReservation ==
    ASSUME PubGood, SoleInv, NEW p \in Publishers, UNCHANGED <<lds, lman, lobj>>,
           \A q \in Publishers \ {p} : pub'[q] = pub[q], ~Owns(p), ~Owns(p)',
           pub'[p].pc \in {"hash", "head", "reserve"} => pub'[p].ver \in Versions
    PROVE  SoleInv'
<1>1. \A v \in Versions : Nobody(v)' => Nobody(v)
  BY DEF Nobody, Owns
<1>2. \A q \in Publishers \ {p} : Sole(q)' => Sole(q)
  BY DEF Sole, Owns
<1>3. ASSUME NEW q \in Publishers \ {p}
      PROVE  /\ pub'[q].pc \in {"hash", "head", "reserve"} \/ Owns(q)' => pub'[q].ver \in Versions
             /\ Sole(q)' => Writing(q)' /\ (pub'[q].pc \in {"cleanup", "done"} => Written(q)')
  BY <1>2, <1>3 DEF SoleInv, Writing, Written, Owns
<1>4. \A v \in Versions : Nobody(v)' => Blank(v)'
  BY <1>1 DEF SoleInv, Blank
<1>5. ~Sole(p)'
  BY DEF Sole
<1> QED
  BY <1>3, <1>4, <1>5 DEF SoleInv

\* Neither overlapping runs nor lost attempts disturb what a run alone has written: whoever
\* reserves the version too is not alone there any more.
LEMMA SoleKeeps ==
    ASSUME PubGood, SourceInv, AllS3, SoleInv, MaxPubFaults = 0,
           NEW p \in Publishers, Start(p) \/ PublisherStep(p) \/ PubCrash(p)
    PROVE  SoleInv'
<1> DEFINE me == pub[p]
           S  == SourceOf(p)
           V  == me.ver
<1>0. /\ me \in RunStates /\ me \in PubStates /\ me.plan \in Trees
      /\ me.files \subseteq Files /\ LandingTypeOK /\ pub \in [Publishers -> RunStates]
      /\ Hashing(p) /\ me.kind = "s3" /\ pubFaults = 0
      /\ \A q \in Publishers \ {p} : pub'[q] = pub[q]
  BY OneRunAtATime DEF PubGood, RunStates, PubStates, SourceInv, AllS3
<1>1. CASE Start(p)
  <2>1. /\ ~Owns(p) /\ pub'[p].pc \in {"enumerate", "stage"} /\ UNCHANGED <<lds, lman, lobj>>
    <3>1. PICK t \in Sources, k \in SourceKinds :
            LET staged == IF k = "local" THEN NamesIn(t) ELSE {}
            IN  pub' = [pub EXCEPT ![p].src = t, ![p].kind = k, ![p].todo = staged,
                          ![p].pc = IF staged = {} THEN "enumerate" ELSE "stage"]
      BY <1>1 DEF Start
    <3>2. pub'[p].pc \in {"enumerate", "stage"}
      BY <1>0, <3>1 DEF PubStates
    <3> QED
      BY <1>1, <3>2 DEF Start, Owns, landingVars
  <2>2. ~Owns(p)'
    BY <2>1 DEF Owns
  <2> QED
    BY <1>0, <2>1, <2>2, NoReservation
<1>2. CASE Stage(p) \/ Enumerate(p)
  <2>1. /\ ~Owns(p) /\ pub'[p].pc \in {"enumerate", "stage", "version", "failed"}
        /\ UNCHANGED <<lds, lman, lobj>>
    BY <1>0, <1>2 DEF Stage, Enumerate, Fail, Owns, PubStates, landingVars
  <2>2. ~Owns(p)'
    BY <2>1 DEF Owns
  <2> QED
    BY <1>0, <2>1, <2>2, NoReservation
<1>3. CASE NextVersion(p)
  <2>1. Max(Taken \cup {0}) \in Nat /\ MaxVersion \in Nat
    BY MaxTaken, BucketsAssumption
  <2> DEFINE v == Max(Taken \cup {0}) + 1
  <2>2. v <= MaxVersion /\ v \in Versions
    BY <1>3, <2>1 DEF NextVersion, Versions
  <2> HIDE DEF v
  <2>3. pub' = [pub EXCEPT ![p].ver = v, ![p].plan = Empty, ![p].todo = me.files, ![p].pc = "hash"]
    BY <1>3 DEF NextVersion, v
  <2>4. pub'[p].pc = "hash" /\ pub'[p].ver = v
    BY <1>0, <2>3 DEF PubStates
  <2>5. ~Owns(p) /\ ~Owns(p)' /\ UNCHANGED <<lds, lman, lobj>>
    BY <1>3, <2>4 DEF NextVersion, Owns, landingVars
  <2> QED
    BY <1>0, <2>2, <2>4, <2>5, NoReservation
<1>4. CASE Hash(p)
  <2>1. PICK f \in me.todo :
          IF S[f] = Absent THEN Fail(p)
          ELSE pub' = [pub EXCEPT ![p].plan[f] = S[f], ![p].todo = @ \ {f},
                         ![p].pc = IF pub[p].todo = {f} THEN "head" ELSE @]
    BY <1>4 DEF Hash
  <2>2. pub'[p].pc \in {"failed", "hash", "head"} /\ pub'[p].ver = V
    BY <1>0, <1>4, <2>1 DEF Hash, Fail, PubStates
  <2>3. ~Owns(p) /\ ~Owns(p)' /\ UNCHANGED <<lds, lman, lobj>> /\ V \in Versions
    BY <1>4, <2>2 DEF Hash, Owns, landingVars, SoleInv
  <2> QED
    BY <1>0, <2>2, <2>3, NoReservation
<1>5. CASE Head(p)
  <2>1. pub'[p].pc \in {"failed", "version", "reserve"} /\ pub'[p].ver = V
    BY <1>0, <1>5 DEF Head, PubStates
  <2>2. ~Owns(p) /\ ~Owns(p)' /\ UNCHANGED <<lds, lman, lobj>> /\ V \in Versions
    BY <1>5, <2>1 DEF Head, Owns, landingVars, SoleInv
  <2> QED
    BY <1>0, <2>1, <2>2, NoReservation
<1>writes. ASSUME Owns(p)', pub'[p].ver = V, V \in Versions,
                  \A v \in Versions : v # V => /\ lds'[v] = lds[v] /\ lman'[v] = lman[v]
                                               /\ lobj'[v] = lobj[v],
                  Sole(p)' => Writing(p)' /\ (pub'[p].pc \in {"cleanup", "done"} => Written(p)')
           PROVE  SoleInv'
  <2>1. ASSUME NEW v \in Versions, Nobody(v)' PROVE Blank(v)'
    <3>1. v # V
      BY <1>writes, <2>1 DEF Nobody
    <3>2. Nobody(v)
      BY <1>0, <2>1, <3>1 DEF Nobody, Owns
    <3> QED
      BY <1>writes, <3>1, <3>2 DEF SoleInv, Blank
  <2>2. ASSUME NEW q \in Publishers \ {p}
        PROVE  /\ pub'[q].pc \in {"hash", "head", "reserve"} \/ Owns(q)' => pub'[q].ver \in Versions
               /\ Sole(q)' => Writing(q)' /\ (pub'[q].pc \in {"cleanup", "done"} => Written(q)')
    <3>1. pub'[q] = pub[q]
      BY <1>0
    <3>2. pub'[q].pc \in {"hash", "head", "reserve"} \/ Owns(q)' => pub'[q].ver \in Versions
      BY <3>1 DEF SoleInv, Owns
    <3>3. ASSUME Sole(q)' PROVE Writing(q)' /\ (pub'[q].pc \in {"cleanup", "done"} => Written(q)')
      <4>1. pub[q].ver # V /\ pub[q].ver \in Versions
        BY <1>writes, <3>1, <3>2, <3>3 DEF Sole
      <4>2. Owns(q) /\ \A x \in Publishers \ {p, q} : Owns(x) => pub[x].ver # pub[q].ver
        BY <1>0, <3>1, <3>3 DEF Sole, Owns
      <4>3. Sole(q)
        BY <4>1, <4>2 DEF Sole
      <4>4. /\ lds'[pub[q].ver] = lds[pub[q].ver] /\ lman'[pub[q].ver] = lman[pub[q].ver]
            /\ lobj'[pub[q].ver] = lobj[pub[q].ver]
        BY <1>writes, <4>1
      <4>5. Writing(q) /\ (pub[q].pc \in {"cleanup", "done"} => Written(q))
        BY <4>3 DEF SoleInv
      <4>6. Writing(q)'
        BY <3>1, <4>2, <4>4, <4>5 DEF Writing, Owns
      <4>7. pub'[q].pc \in {"cleanup", "done"} => Written(q)'
        BY <3>1, <4>4, <4>5 DEF Written
      <4> QED
        BY <4>6, <4>7
    <3> QED
      BY <3>2, <3>3
  <2> QED
    BY <1>writes, <2>1, <2>2 DEF SoleInv
<1>6. CASE Reserve(p)
  <2> DEFINE r == [me EXCEPT !.todo = me.files, !.pc = "copy"]
  <2>1. /\ lds' = [lds EXCEPT ![V] = me.plan] /\ pub' = [pub EXCEPT ![p] = r]
        /\ UNCHANGED <<lman, lobj, marks, staging>> /\ me.pc = "reserve" /\ ~Owns(p)
    BY <1>6 DEF Reserve, Owns
  <2>2. /\ r.pc = "copy" /\ r.files = me.files /\ r.ver = me.ver /\ r.plan = me.plan
        /\ r.todo = me.files
    BY <1>0 DEF PubStates
  <2> HIDE DEF r
  <2>3. pub'[p] = r /\ V \in Versions
    BY <1>0, <2>1 DEF SoleInv
  <2>4. Owns(p)'
    BY <2>2, <2>3 DEF Owns
  <2>5. ASSUME Sole(p)' PROVE Writing(p)'
    <3>1. Nobody(V)
      BY <1>0, <2>1, <2>2, <2>3, <2>5 DEF Sole, Nobody, Owns
    <3>2. lds'[V] = me.plan /\ lman'[V] = [g \in Groups |-> NoDoc] /\ lobj'[V] = Empty
      BY <1>0, <2>1, <2>3, <3>1 DEF SoleInv, Blank, LandingTypeOK
    <3>3. NamesIn(me.plan) = me.files
      BY <1>0, <2>1 DEF RunStates
    <3>4. Empty = [f \in Files |-> IF f \in me.files THEN Absent ELSE me.plan[f]]
      BY <1>0, <3>3 DEF Empty, NamesIn, Trees
    <3> QED
      BY <2>2, <2>3, <3>2, <3>4 DEF Writing
  <2>6. \A v \in Versions : v # V =>
          lds'[v] = lds[v] /\ lman'[v] = lman[v] /\ lobj'[v] = lobj[v]
    BY <1>0, <2>1 DEF LandingTypeOK
  <2> QED
    BY <1>writes, <2>2, <2>3, <2>4, <2>5, <2>6
<1>7. CASE Copy(p) \/ PutManifest(p)
  <2>0. me.pc \in {"copy", "manifest"} /\ Owns(p) /\ V \in Versions
    BY <1>7 DEF Copy, PutManifest, Owns, SoleInv
  <2>1. CASE Sole(p)
    <3>1. Writing(p)
      BY <2>1 DEF SoleInv
    <3>2. /\ Writing(p)' /\ pub'[p].ver = V /\ pub'[p].plan = me.plan
          /\ pub'[p].pc \in {"copy", "manifest", "cleanup", "done"}
          /\ pub'[p].pc \in {"cleanup", "done"} =>
                /\ lds'[V] = me.plan /\ lobj'[V] = me.plan
                /\ \A g \in Groups : lman'[V][g] = IF g \in GroupsIn(me.plan)
                                                  THEN Part(me.plan, g) ELSE NoDoc
          /\ \A v \in Versions : v # V =>
                lds'[v] = lds[v] /\ lman'[v] = lman[v] /\ lobj'[v] = lobj[v]
      BY <1>0, <1>7, <3>1, RunWrites
    <3>3. GroupsIn(me.plan) \subseteq Groups
      BY <1>0, TreeFacts
    <3>4. pub'[p].pc \in {"cleanup", "done"} => Written(p)'
      BY <3>2, <3>3 DEF Written
    <3>5. Owns(p)'
      BY <3>2 DEF Owns
    <3> QED
      BY <1>writes, <2>0, <3>2, <3>4, <3>5
  <2>2. CASE ~Sole(p)
    <3>1. /\ pub'[p].ver = V /\ Owns(p)'
          /\ \A v \in Versions : v # V =>
                lds'[v] = lds[v] /\ lman'[v] = lman[v] /\ lobj'[v] = lobj[v]
      <4>1. CASE Copy(p)
        <5>1. PICK f \in me.todo :
                IF S[f] = Absent
                THEN Fail(p) /\ UNCHANGED lobj
                ELSE /\ lobj' = [lobj EXCEPT ![V][f] = S[f]]
                     /\ pub' = IF me.todo = {f}
                               THEN [pub EXCEPT ![p].todo = GroupsIn(me.plan), ![p].pc = "manifest"]
                               ELSE [pub EXCEPT ![p].todo = @ \ {f}]
          BY <4>1 DEF Copy
        <5>2. S[f] # Absent /\ me.pc = "copy" /\ UNCHANGED <<lds, lman>>
          BY <1>0, <4>1 DEF Hashing, NamesIn, Copy
        <5>3. pub'[p].pc \in {"copy", "manifest"} /\ pub'[p].ver = V
          BY <1>0, <5>1, <5>2 DEF PubStates
        <5> QED
          BY <1>0, <5>1, <5>2, <5>3 DEF Owns, LandingTypeOK
      <4>2. CASE PutManifest(p)
        <5>1. /\ pub'[p].pc \in {"manifest", "done", "cleanup"} /\ pub'[p].ver = V
              /\ UNCHANGED <<lds, lobj>>
          BY <1>0, <4>2 DEF PutManifest, PubStates
        <5>2. \A v \in Versions : v # V => lman'[v] = lman[v]
          BY <1>0, <4>2 DEF PutManifest, LandingTypeOK
        <5> QED
          BY <5>1, <5>2 DEF Owns
      <4> QED
        BY <1>7, <4>1, <4>2
    <3>2. ~Sole(p)'
      BY <1>0, <2>0, <2>2, <3>1 DEF Sole, Owns
    <3> QED
      BY <1>writes, <2>0, <3>1, <3>2
  <2> QED
    BY <2>1, <2>2
<1>8. CASE Cleanup(p)
  <2>1. /\ pub'[p].ver = V /\ pub'[p].pc \in {"cleanup", "done"} /\ pub'[p].plan = me.plan
        /\ UNCHANGED <<lds, lman, lobj>> /\ me.pc = "cleanup"
    BY <1>0, <1>8 DEF Cleanup, PubStates, landingVars
  <2>2. Owns(p) /\ Owns(p)' /\ V \in Versions
    BY <2>1 DEF Owns, SoleInv
  <2>3. Sole(p)' => Sole(p)
    BY <1>0, <2>1, <2>2 DEF Sole, Owns
  <2>4. Sole(p)' => Writing(p)' /\ Written(p)'
    BY <2>1, <2>3 DEF SoleInv, Writing, Written
  <2> QED
    BY <1>writes, <2>1, <2>2, <2>4
<1>9. CASE PubCrash(p)
  BY <1>0, <1>9 DEF PubCrash
<1> QED
  BY <1>1, <1>2, <1>3, <1>4, <1>5, <1>6, <1>7, <1>8, <1>9 DEF PublisherStep

\* What a run that returned left in landing is what it hashed, unless another run reserved the
\* same version, as long as sources are s3:// prefixes, no run dies and nothing expires.
THEOREM LandsWhatItPlanned ==
    ASSUME SourceKinds \subseteq {"s3"}, MaxPubFaults = 0, Expiry = FALSE
    PROVE  Spec => []LandingMatchesPlan
<1>1. Init => SoleInv /\ SourceInv /\ AllS3
  <2> SUFFICES ASSUME Init PROVE SoleInv /\ SourceInv /\ AllS3
    OBVIOUS
  <2>1. /\ \A p \in Publishers : pub[p].pc = "idle"
        /\ \A v \in Versions : Blank(v)
    BY DEF Init, PublishInit, BucketsInit, Blank
  <2>2. SoleInv
    BY <2>1 DEF SoleInv, Sole, Owns
  <2> QED
    BY <2>2, InitSources
<1>2. IInv /\ SourceInv /\ AllS3 /\ SoleInv /\ [Next]_vars => SoleInv' /\ SourceInv' /\ AllS3'
  <2> SUFFICES ASSUME IInv, SourceInv, AllS3, SoleInv, [Next]_vars
               PROVE  SoleInv' /\ SourceInv' /\ AllS3'
    OBVIOUS
  <2>0. PubGood
    BY DEF IInv
  <2>1. CASE PublishNext
    BY <2>0, <2>1, SoleKeeps, PrefixKeeps DEF PublishNext
  <2>rest. ASSUME UNCHANGED <<lds, lman, lobj>>, UNCHANGED pubVars
           PROVE  SoleInv' /\ SourceInv' /\ AllS3'
    <3>1. \A p \in Publishers : Sole(p)' <=> Sole(p)
      BY <2>rest DEF Sole, Owns, pubVars
    <3>2. \A v \in Versions : Nobody(v)' <=> Nobody(v)
      BY <2>rest DEF Nobody, Owns, pubVars
    <3>3. SoleInv'
      BY <2>rest, <3>1, <3>2 DEF SoleInv, Writing, Written, Blank, Owns, pubVars
    <3> QED
      BY <2>rest, <3>3, SourcesStay DEF AllS3, pubVars
  <2>2. CASE ValidatorNext /\ UNCHANGED pubVars
    BY <2>2, <2>rest, JobsOnlyMark DEF ValidatorNext
  <2>3. CASE UNCHANGED vars
    BY <2>3, <2>rest DEF vars, landingVars
  <2>4. ~ \E v \in Versions : Expire(v)
    BY DEF Expire
  <2> QED
    BY <2>1, <2>2, <2>3, <2>4 DEF Next
<1>3. SoleInv => LandingMatchesPlan
  BY DEF SoleInv, Sole, Owns, Written, LandingMatchesPlan
<1> QED
  BY <1>1, <1>2, <1>3, Invariance, PTL DEF Spec
=============================================================================
