----------------------------- MODULE Fsck_proofs -----------------------------
(***************************************************************************)
(* Theorems about wu-fsck, which sweeps the catalog while producers and    *)
(* jobs are at work and old versions decay: what it reports did decay, and *)
(* what had decayed it reports.  Publications do not overlap and landing   *)
(* does not expire.                                                        *)
(***************************************************************************)
EXTENDS Fsck, Shelf_proofs

fsckVars == <<vars, decays, sweep>>

-----------------------------------------------------------------------------
(* The world around the sweep. *)

\* Either the sweep makes a request and the rest stands still, or the rest moves and it does not.
LEMMA SweepStepsOnly ==
    ASSUME [FsckNext]_fsckVars
    PROVE  \/ (([Next]_vars /\ UNCHANGED decays) \/ DecayNext) /\ UNCHANGED sweep
           \/ SweepStep /\ UNCHANGED <<vars, decays>>
  BY DEF FsckNext, fsckVars

AllRemains == \A v \in Versions : Remains(v)

\* Whatever happens, the buckets stay in order and a seal keeps what it names.
LEMMA FsckKeepsOrder ==
    ASSUME ~Overlap, ~Expiry, Order, AllRemains, [FsckNext]_fsckVars PROVE Order' /\ AllRemains'
<1>1. CASE ([Next]_vars /\ UNCHANGED decays) \/ DecayNext
  <2>1. Order'
    BY <1>1, NextOrder, DecaysOnce, DecayOrder DEF Order, JobInv
  <2> QED
    BY <1>1, <2>1, WorldRemains DEF AllRemains
<1>2. CASE UNCHANGED <<vars, decays>>
  <2>1. [Next]_vars
    BY <1>2
  <2> QED
    BY <1>2, <2>1, NextOrder, WorldRemains DEF AllRemains
<1> QED
  BY <1>1, <1>2, SweepStepsOnly

\* So the order of documents holds in the company of a sweep.
LEMMA FsckOrder == ASSUME ~Overlap, ~Expiry PROVE FsckSpec => [](Order /\ AllRemains)
<1>1. FsckInit => Order /\ AllRemains
  BY InitOrder, InitRemains DEF FsckInit, AllRemains
<1>2. Order /\ AllRemains /\ [FsckNext]_fsckVars => (Order /\ AllRemains)'
  BY FsckKeepsOrder
<1> QED
  BY <1>1, <1>2, PTL DEF FsckSpec, fsckVars

-----------------------------------------------------------------------------
(* The sweep. *)

Sweeping == sweep.pc \in {"dataset", "seal", "groups", "heads"}

\* The records a sweep goes through: it has a catalogued version in hand.
SweepGood ==
    /\ sweep \in SweepStates
    /\ Sweeping => sweep.todo # {}
    /\ \A v \in sweep.todo : catalog[v] # NoDoc
    /\ sweep.pc \in {"seal", "groups", "heads"} => sweep.ds \in Trees
    /\ sweep.pc = "heads" => /\ sweep.man \in Trees /\ sweep.groups # {}
                             /\ sweep.left # {} /\ sweep.left \subseteq NamesIn(sweep.man)
    /\ decays \subseteq Decays \X Versions
    /\ sweep.old \subseteq decays

\* The version in hand.
LEMMA InHand ==
    ASSUME SweepGood, Sweeping
    PROVE  Current \in Versions /\ Current \in sweep.todo /\ catalog[Current] # NoDoc
  BY MinOfVersions DEF SweepGood, SweepStates, Current

\* The sweep turns to what is left to do.
LEMMA TurnFacts ==
    ASSUME NEW todo \in SUBSET Versions, NEW found \in SUBSET (Codes \X Versions), SweepGood
    PROVE  /\ TurnTo(todo, found) \in SweepStates
           /\ TurnTo(todo, found).todo = todo /\ TurnTo(todo, found).findings = found
           /\ TurnTo(todo, found).old = sweep.old /\ TurnTo(todo, found).observed = Empty
           /\ TurnTo(todo, found).blind = sweep.blind
           /\ TurnTo(todo, found).pc = IF todo = {} THEN "done" ELSE "dataset"
<1>1. PICK p \in {"done", "dataset"} : p = IF todo = {} THEN "done" ELSE "dataset"
  OBVIOUS
<1>2. TurnTo(todo, found) = [NewSweep EXCEPT !.todo = todo, !.findings = found, !.old = sweep.old,
                               !.blind = sweep.blind, !.pc = p]
  BY <1>1 DEF TurnTo
<1>3. NewSweep \in SweepStates /\ NewSweep.observed = Empty
  BY TreeFacts DEF NewSweep, SweepStates, FsckPhases, Docs
<1>4. sweep.old \in SUBSET (Decays \X Versions) /\ sweep.blind \in SUBSET Versions
  BY DEF SweepGood, SweepStates
<1> QED
  BY <1>1, <1>2, <1>3, <1>4 DEF SweepStates, FsckPhases

\* What each step of the sweep does with the version v in hand.
Turns(v, found) == sweep' = TurnTo(sweep.todo \ {v}, found)
Finds(v, code)  == sweep.findings \cup {<<code, v>>}
Stays           == /\ sweep'.todo = sweep.todo /\ sweep'.old = sweep.old
                   /\ sweep.blind \subseteq sweep'.blind

SweepsDataset(v) ==
    IF dds[v] = NoDoc THEN Turns(v, Finds(v, "dataset-json-gone"))
    ELSE /\ Stays /\ sweep'.pc = "seal" /\ sweep'.ds = dds[v] /\ dds[v] \in Trees
         /\ sweep'.findings = sweep.findings /\ sweep'.observed = sweep.observed

SweepsSeal(v) ==
    /\ Stays /\ sweep'.pc = "groups" /\ sweep'.ds = sweep.ds /\ sweep'.seal = seal[v]
    /\ sweep'.groups = GroupsIn(sweep.ds)
    /\ sweep'.findings = sweep.findings /\ sweep'.observed = sweep.observed

SweepsManifest(v) == \E g \in sweep.groups :
    /\ g = Min(sweep.groups) /\ g \in Groups
    /\ Stays /\ sweep'.ds = sweep.ds /\ sweep'.seal = sweep.seal /\ sweep'.observed = sweep.observed
    /\ \/ /\ dman[v][g] = NoDoc /\ sweep'.pc = "groups" /\ sweep'.groups = sweep.groups \ {g}
          /\ sweep'.findings = Finds(v, "manifest-gone")
       \/ /\ dman[v][g] # NoDoc /\ NamesIn(dman[v][g]) = {}
          /\ sweep'.pc = "groups" /\ sweep'.groups = sweep.groups \ {g}
          /\ sweep'.findings = sweep.findings
       \/ /\ dman[v][g] \in Trees /\ dman[v][g] # NoDoc /\ NamesIn(dman[v][g]) # {}
          /\ sweep'.pc = "heads" /\ sweep'.groups = sweep.groups
          /\ sweep'.man = dman[v][g] /\ sweep'.left = NamesIn(dman[v][g])
          /\ sweep'.findings = sweep.findings

SweepsObject(v) == \E f \in sweep.left, g \in sweep.groups :
    /\ f \in Files /\ g = Min(sweep.groups) /\ g \in Groups
    /\ Stays /\ sweep'.ds = sweep.ds /\ sweep'.seal = sweep.seal /\ sweep'.man = sweep.man
    /\ \E c \in {dobj[v][f], Absent} :
          /\ sweep'.observed = [sweep.observed EXCEPT ![f] = c]
          /\ dobj[v][f] # sweep.man[f] /\ (c = Absent \/ ~Referenced(f)) => v \in sweep'.blind
    /\ sweep'.left = sweep.left \ {f}
    /\ \/ sweep.left = {f} /\ sweep'.pc = "groups" /\ sweep'.groups = sweep.groups \ {g}
       \/ sweep.left # {f} /\ sweep'.pc = "heads" /\ sweep'.groups = sweep.groups
    /\ \/ dobj[v][f] = Absent /\ sweep'.findings = Finds(v, "object-gone")
       \/ /\ dobj[v][f] # Absent /\ SizeOf[dobj[v][f]] # SizeOf[sweep.man[f]]
          /\ sweep'.findings = Finds(v, "object-resized")
       \/ /\ dobj[v][f] # Absent /\ SizeOf[dobj[v][f]] = SizeOf[sweep.man[f]]
          /\ sweep'.findings = sweep.findings

SweepsCrcs(v) ==
    /\ sweep.groups = {}
    /\ \/ ContentChanged /\ Turns(v, Finds(v, "object-content-changed"))
       \/ ~ContentChanged /\ Turns(v, sweep.findings)

Sweeps(v) ==
    \/ sweep.pc = "dataset" /\ SweepsDataset(v)
    \/ sweep.pc = "seal" /\ SweepsSeal(v)
    \/ sweep.pc = "groups" /\ SweepsManifest(v)
    \/ sweep.pc = "heads" /\ SweepsObject(v)
    \/ sweep.pc = "groups" /\ SweepsCrcs(v)

\* What one request of the sweep may do, whichever it is.
LEMMA SweepDoes ==
    ASSUME JobGood, SweepGood, SweepStep, ~StartSweep, NEW v, v = Current
    PROVE  /\ Sweeping /\ v \in Versions /\ v \in sweep.todo /\ Sweeps(v)
           /\ sweep' \in SweepStates
<1> USE DEF Sweeps
<1>0. /\ sweep \in SweepStates /\ DataTypeOK
      /\ sweep.todo \subseteq Versions /\ sweep.groups \subseteq Groups /\ sweep.left \subseteq Files
      /\ sweep.findings \in SUBSET (Codes \X Versions) /\ sweep.observed \in Trees
      /\ sweep.blind \subseteq Versions
  BY DEF SweepGood, SweepStates, JobGood
<1>1. Sweeping
  BY DEF SweepStep, CheckDataset, LoadSeal, CheckManifest, HeadObject, CompareCrcs, Sweeping
<1>2. v \in Versions /\ v \in sweep.todo
  BY <1>1, InHand
<1>3. /\ {"dataset-json-gone", "manifest-gone", "object-gone", "object-resized",
          "object-content-changed"} = Codes
      /\ \A code \in Codes : Found(code) = Finds(v, code) /\ Found(code) \in SUBSET (Codes \X Versions)
  BY <1>0, <1>2 DEF Found, Finds, Codes
<1>turn. ASSUME NEW n \in SUBSET (Codes \X Versions), Turns(v, n) PROVE sweep' \in SweepStates
  BY <1>0, <1>turn, TurnFacts DEF Turns
<1>4. CASE CheckDataset
  <2>1. PICK d \in Docs : d = dds[v]
    BY <1>0, <1>2 DEF DataTypeOK
  <2>2. CASE d = NoDoc
    <3>1. Turns(v, Finds(v, "dataset-json-gone"))
      BY <1>3, <1>4, <2>1, <2>2 DEF CheckDataset, Turns
    <3> QED
      BY <1>1, <1>2, <1>3, <1>4, <1>turn, <2>1, <2>2, <3>1 DEF CheckDataset, SweepsDataset
  <2>3. CASE d # NoDoc
    <3>1. sweep' = [sweep EXCEPT !.ds = d, !.pc = "seal"] /\ sweep.pc = "dataset" /\ d \in Trees
      BY <1>4, <2>1, <2>3 DEF CheckDataset, Docs
    <3> QED
      BY <1>0, <1>1, <1>2, <2>1, <2>3, <3>1 DEF SweepsDataset, SweepStates, FsckPhases, Stays
  <2> QED
    BY <2>2, <2>3
<1>5. CASE LoadSeal
  <2>1. sweep.pc = "seal" /\ sweep.ds \in Trees /\ GroupsIn(sweep.ds) \subseteq Groups
    BY <1>5, TreeFacts DEF LoadSeal, SweepGood
  <2>2. PICK s \in Seals \cup {NoDoc} : s = seal[v]
    BY <1>0, <1>2 DEF DataTypeOK
  <2>3. PICK n \in SUBSET Groups : n = GroupsIn(sweep.ds)
    BY <2>1
  <2>4. sweep' = [sweep EXCEPT !.seal = s, !.groups = n, !.pc = "groups"]
    BY <1>5, <2>2, <2>3 DEF LoadSeal
  <2> QED
    BY <1>0, <1>1, <1>2, <2>1, <2>2, <2>3, <2>4 DEF SweepsSeal, SweepStates, FsckPhases, Stays
<1>6. CASE CheckManifest
  <2>1. PICK g \in sweep.groups : g = Min(sweep.groups) /\ g \in Groups
    BY <1>0, <1>6, MinOfGroups DEF CheckManifest
  <2>2. PICK m \in Docs : m = dman[v][g]
    BY <1>0, <1>2, <2>1 DEF DataTypeOK
  <2>3. sweep.pc = "groups"
    BY <1>6 DEF CheckManifest
  <2>4. CASE m = NoDoc
    <3>1. PICK n \in SUBSET (Codes \X Versions) : n = Finds(v, "manifest-gone") /\ n = Found("manifest-gone")
      BY <1>3
    <3>2. sweep' = [[sweep EXCEPT !.groups = @ \ {g}] EXCEPT !.findings = n]
      BY <1>6, <2>1, <2>2, <2>4, <3>1 DEF CheckManifest
    <3>3. /\ sweep' \in SweepStates /\ Stays /\ sweep'.ds = sweep.ds /\ sweep'.seal = sweep.seal
          /\ sweep'.observed = sweep.observed /\ sweep'.pc = "groups"
          /\ sweep'.groups = sweep.groups \ {g} /\ sweep'.findings = n
      BY <1>0, <2>3, <3>2 DEF SweepStates, Stays
    <3> QED
      BY <1>1, <1>2, <2>1, <2>2, <2>3, <2>4, <3>1, <3>3 DEF SweepsManifest
  <2>5. CASE m # NoDoc /\ NamesIn(m) = {}
    <3>1. sweep' = [sweep EXCEPT !.groups = @ \ {g}]
      BY <1>6, <2>1, <2>2, <2>5 DEF CheckManifest
    <3>2. /\ sweep' \in SweepStates /\ Stays /\ sweep'.ds = sweep.ds /\ sweep'.seal = sweep.seal
          /\ sweep'.observed = sweep.observed /\ sweep'.pc = "groups"
          /\ sweep'.groups = sweep.groups \ {g} /\ sweep'.findings = sweep.findings
      BY <1>0, <2>3, <3>1 DEF SweepStates, Stays
    <3> QED
      BY <1>1, <1>2, <2>1, <2>2, <2>3, <2>5, <3>2 DEF SweepsManifest
  <2>6. CASE m # NoDoc /\ NamesIn(m) # {}
    <3>1. PICK n \in SUBSET Files : n = NamesIn(m)
      BY DEF NamesIn
    <3>2. sweep' = [sweep EXCEPT !.man = m, !.left = n, !.pc = "heads"] /\ m \in Trees
      BY <1>6, <2>1, <2>2, <2>6, <3>1 DEF CheckManifest, Docs
    <3>3. /\ sweep' \in SweepStates /\ Stays /\ sweep'.ds = sweep.ds /\ sweep'.seal = sweep.seal
          /\ sweep'.observed = sweep.observed /\ sweep'.pc = "heads" /\ sweep'.groups = sweep.groups
          /\ sweep'.man = m /\ sweep'.left = n /\ sweep'.findings = sweep.findings
      BY <1>0, <2>3, <3>2 DEF SweepStates, FsckPhases, Stays
    <3> QED
      BY <1>1, <1>2, <2>1, <2>2, <2>3, <2>6, <3>1, <3>2, <3>3 DEF SweepsManifest
  <2> QED
    BY <2>4, <2>5, <2>6
<1>7. CASE HeadObject
  <2>0. sweep.pc = "heads" /\ sweep.groups # {} /\ sweep.left # {}
    BY <1>7 DEF HeadObject, SweepGood
  <2>1. PICK g \in sweep.groups : g = Min(sweep.groups) /\ g \in Groups
    BY <1>0, <2>0, MinOfGroups
  <2>2. PICK f \in sweep.left : f = Min(sweep.left) /\ f \in Files
    BY <1>0, <2>0, MinOfFiles
  <2>3. PICK o \in Contents \cup {Absent} : o = dobj[v][f]
    BY <1>0, <1>2, <2>2 DEF DataTypeOK, Trees
  <2>4. PICK n \in SUBSET (Codes \X Versions) :
          n = IF o = Absent THEN Finds(v, "object-gone")
              ELSE IF SizeOf[o] # SizeOf[sweep.man[f]] THEN Finds(v, "object-resized")
              ELSE sweep.findings
    BY <1>0, <1>3
  <2>9. PICK c \in {o, Absent} :
          sweep' = [sweep EXCEPT
                      !.observed[f] = c,
                      !.findings = IF o = Absent THEN Found("object-gone")
                                   ELSE IF SizeOf[o] # SizeOf[sweep.man[f]]
                                   THEN Found("object-resized") ELSE @,
                      !.blind = IF o # sweep.man[f] /\ (c = Absent \/ ~Referenced(f))
                                THEN @ \cup {v} ELSE @,
                      !.left = @ \ {f},
                      !.groups = IF sweep.left = {f} THEN @ \ {Min(@)} ELSE @,
                      !.pc = IF sweep.left = {f} THEN "groups" ELSE @]
    BY <1>7, <2>2, <2>3 DEF HeadObject
  <2>5. PICK obs \in Trees : obs = [sweep.observed EXCEPT ![f] = c]
    BY <1>0, <2>2, <2>3 DEF Trees
  <2>8. PICK b \in SUBSET Versions :
          b = IF o # sweep.man[f] /\ (c = Absent \/ ~Referenced(f))
              THEN sweep.blind \cup {v} ELSE sweep.blind
    BY <1>0, <1>2
  <2>6. sweep' = [sweep EXCEPT !.observed = obs, !.findings = n, !.blind = b, !.left = @ \ {f},
                    !.groups = IF sweep.left = {f} THEN @ \ {g} ELSE @,
                    !.pc = IF sweep.left = {f} THEN "groups" ELSE @]
    BY <1>3, <2>1, <2>4, <2>5, <2>8, <2>9
  <2>7. /\ sweep' \in SweepStates /\ Stays /\ sweep'.ds = sweep.ds /\ sweep'.seal = sweep.seal
        /\ o # sweep.man[f] /\ (c = Absent \/ ~Referenced(f)) => v \in sweep'.blind
        /\ sweep'.man = sweep.man /\ sweep'.observed = obs /\ sweep'.left = sweep.left \ {f}
        /\ \/ sweep.left = {f} /\ sweep'.pc = "groups" /\ sweep'.groups = sweep.groups \ {g}
           \/ sweep.left # {f} /\ sweep'.pc = "heads" /\ sweep'.groups = sweep.groups
        /\ sweep'.findings = n
    BY <1>0, <2>0, <2>6, <2>8 DEF SweepStates, FsckPhases, Stays
  <2> QED
    BY <1>1, <1>2, <2>0, <2>1, <2>2, <2>3, <2>4, <2>5, <2>7, <2>9 DEF SweepsObject
<1>8. CASE CompareCrcs
  <2>1. /\ sweep.pc = "groups" /\ sweep.groups = {}
        /\ \/ ContentChanged /\ Turns(v, Finds(v, "object-content-changed"))
           \/ ~ContentChanged /\ Turns(v, sweep.findings)
    BY <1>3, <1>8 DEF CompareCrcs, Turns
  <2> QED
    BY <1>0, <1>1, <1>2, <1>3, <1>turn, <2>1 DEF SweepsCrcs
<1> QED
  BY <1>4, <1>5, <1>6, <1>7, <1>8 DEF SweepStep

\* The sweep stays well formed, and what it has read stays read, whoever moves.
LEMMA SweepKeepsGood ==
    ASSUME ~Overlap, ~Expiry, Order, AllRemains, SweepGood, [FsckNext]_fsckVars
    PROVE  SweepGood'
<1>0. JobGood /\ decays \subseteq Decays \X Versions /\ sweep.old \subseteq decays
  BY DEF Order, JobInv, SweepGood
<1>1. CASE (([Next]_vars /\ UNCHANGED decays) \/ DecayNext) /\ UNCHANGED sweep
  <2>1. \A v \in Versions : /\ decays \subseteq decays'
                            /\ catalog[v] # NoDoc => catalog'[v] # NoDoc
    BY <1>1, WorldRemains DEF AllRemains
  <2>2. decays' \subseteq Decays \X Versions
    <3>1. CASE DecayNext
      <4>1. PICK w \in Versions, what \in Decays : decays' = decays \cup {<<what, w>>}
        BY <1>0, <3>1, DecaysOnce DEF OneDecay
      <4> QED
        BY <1>0, <4>1
    <3> QED
      BY <1>0, <1>1, <3>1
  <2>3. sweep.todo \subseteq Versions /\ decays \subseteq decays'
    BY <1>0, <1>1, <2>1, DecaysOnce DEF SweepGood, SweepStates, OneDecay
  <2> QED
    BY <1>0, <1>1, <2>1, <2>2, <2>3 DEF SweepGood, Sweeping
<1>2. CASE SweepStep /\ UNCHANGED <<vars, decays>>
  <2>0. /\ catalog' = catalog /\ decays' = decays
        /\ sweep \in SweepStates /\ sweep.groups \subseteq Groups /\ sweep.left \subseteq Files
        /\ sweep.todo \subseteq Versions
    BY <1>2 DEF vars, dataVars, SweepGood, SweepStates
  <2>1. CASE StartSweep
    <3>1. PICK todo \in SUBSET Versions : todo = Catalogued
      BY DEF Catalogued
    <3>2. /\ TurnTo(todo, {}) \in SweepStates /\ TurnTo(todo, {}).todo = todo
          /\ TurnTo(todo, {}).pc = IF todo = {} THEN "done" ELSE "dataset"
      BY TurnFacts
    <3>3. sweep' = [TurnTo(todo, {}) EXCEPT !.old = decays, !.blind = {}]
      BY <2>1, <3>1 DEF StartSweep
    <3>4. /\ sweep' \in SweepStates /\ sweep'.todo = todo /\ sweep'.old = decays
          /\ sweep'.pc = IF todo = {} THEN "done" ELSE "dataset"
      BY <1>0, <3>2, <3>3 DEF SweepStates
    <3> QED
      BY <1>0, <2>0, <3>1, <3>4 DEF SweepGood, Sweeping, Catalogued
  <2>2. CASE ~StartSweep
    <3>1. PICK v : v = Current
      OBVIOUS
    <3>2. /\ Sweeping /\ v \in Versions /\ v \in sweep.todo /\ Sweeps(v)
          /\ sweep' \in SweepStates
      BY <1>0, <1>2, <2>2, <3>1, SweepDoes
    <3>turn. ASSUME NEW n, Turns(v, n) PROVE SweepGood'
      <4>1. n \in SUBSET (Codes \X Versions)
        <5>1. sweep' = [NewSweep EXCEPT !.todo = sweep.todo \ {v}, !.findings = n,
                           !.old = sweep.old, !.blind = sweep.blind,
                           !.pc = IF sweep.todo \ {v} = {} THEN "done" ELSE "dataset"]
          BY <3>turn DEF Turns, TurnTo
        <5>2. sweep'.findings = n
          BY <5>1 DEF NewSweep
        <5> QED
          BY <3>2, <5>2 DEF SweepStates
      <4>2. /\ sweep'.todo = sweep.todo \ {v} /\ sweep'.old = sweep.old
            /\ sweep'.pc = IF sweep.todo \ {v} = {} THEN "done" ELSE "dataset"
        BY <2>0, <3>turn, <4>1, TurnFacts DEF Turns
      <4> QED
        BY <2>0, <3>2, <4>2 DEF SweepGood, Sweeping
    <3>3. CASE sweep.pc = "dataset" /\ SweepsDataset(v)
      BY <2>0, <3>2, <3>3, <3>turn DEF SweepsDataset, SweepGood, Sweeping, Stays
    <3>4. CASE sweep.pc = "seal" /\ SweepsSeal(v)
      BY <2>0, <3>2, <3>4 DEF SweepsSeal, SweepGood, Sweeping, Stays
    <3>5. CASE sweep.pc = "groups" /\ SweepsManifest(v)
      BY <2>0, <3>2, <3>5 DEF SweepsManifest, SweepGood, Sweeping, Stays
    <3>6. CASE sweep.pc = "heads" /\ SweepsObject(v)
      BY <2>0, <3>2, <3>6 DEF SweepsObject, SweepGood, Sweeping, Stays
    <3>7. CASE sweep.pc = "groups" /\ SweepsCrcs(v)
      BY <3>7, <3>turn DEF SweepsCrcs
    <3> QED
      BY <3>2, <3>3, <3>4, <3>5, <3>6, <3>7 DEF Sweeps
  <2> QED
    BY <2>1, <2>2
<1> QED
  BY <1>1, <1>2, SweepStepsOnly

-----------------------------------------------------------------------------
(* What the sweep reports did decay. *)

\* The sweep knows the version v, with the tree t in landing, as it is or as it decayed.
Knows(v, t) ==
    /\ sweep.pc \in {"seal", "groups", "heads"} => sweep.ds = t \/ Had("dataset-rewritten", v)
    /\ sweep.pc \in {"groups", "heads"} => /\ sweep.groups \subseteq GroupsIn(sweep.ds)
                                           /\ sweep.seal = NoDoc \/ CrcsOf(sweep.seal.crc, t)
    /\ sweep.pc = "heads" => sweep.man = Part(t, Min(sweep.groups)) \/ Had("manifest-rewritten", v)
    /\ \A f \in NamesIn(t) : \/ sweep.observed[f] \in {Absent, t[f]}
                             \/ Had("object-content-changed", v) \/ Had("object-resized", v)

InSweep(v, t) == Sweeping /\ v = Current /\ t = lds[v]

SoundInv == SweepSound /\ \A v \in Versions, t \in Trees : InSweep(v, t) => Knows(v, t)

\* What there is a finding for has a cause.
Caused(code, v) == \E what \in Causes(code) : Had(what, v)

\* The causes of a finding that the sweep reads off what is missing below.
LEMMA CausesAre ==
    /\ \A code \in Codes : code \in Causes(code)
    /\ "object-resized" \in Causes("object-content-changed")
    /\ "dataset-rewritten" \in Causes("manifest-gone")
    /\ "manifest-rewritten" \in Causes("object-gone")
    /\ "manifest-rewritten" \in Causes("object-resized")
  BY DEF Causes, Codes

\* One more finding, with a cause.
LEMMA OneMoreFinding ==
    ASSUME SweepSound, decays' = decays, NEW v \in Versions, NEW code \in Codes, Caused(code, v),
           sweep'.findings \in {sweep.findings, Finds(v, code)}
    PROVE  SweepSound'
  BY DEF SweepSound, Caused, Had, Finds

\* A part of a tree has the tree's files.
LEMMA PartNames ==
    ASSUME NEW t \in Trees, NEW g \in Groups, NEW f \in NamesIn(Part(t, g))
    PROVE  f \in Files /\ f \in NamesIn(t) /\ Part(t, g)[f] = t[f]
  BY DEF NamesIn, Part, Trees

\* The version in hand as the world has it.
LEMMA InHandRemains ==
    ASSUME AllRemains, SweepGood, Sweeping, NEW v, v = Current
    PROVE  /\ v \in Versions /\ v \in sweep.todo /\ catalog[v] # NoDoc
           /\ lds[v] \in Trees /\ LeftOf(v, lds[v]) /\ Remains(v)
  BY InHand DEF AllRemains, Remains, Whole

\* A sweep that turned to the next version knows nothing of it yet.
LEMMA TurnSound ==
    ASSUME SweepGood, SweepSound', NEW todo \in SUBSET Versions,
           NEW found \in SUBSET (Codes \X Versions), sweep'.observed = Empty,
           sweep'.pc \in {"done", "dataset"}
    PROVE  SoundInv'
<1>1. \A f \in Files : Empty[f] = Absent
  BY DEF Empty
<1>2. ASSUME NEW v \in Versions, NEW t \in Trees PROVE Knows(v, t)'
  BY <1>1 DEF Knows, NamesIn
<1> QED
  BY <1>2 DEF SoundInv

\* A request of the sweep adds no finding without a cause.
LEMMA SweepStepSound ==
    ASSUME Order, AllRemains, SweepGood, SoundInv, SweepStep, UNCHANGED <<vars, decays>>
    PROVE  SoundInv'
<1>0. /\ JobGood /\ lds' = lds /\ decays' = decays /\ SweepSound
      /\ sweep \in SweepStates /\ sweep.groups \subseteq Groups /\ sweep.left \subseteq Files
      /\ sweep.todo \subseteq Versions /\ sweep.findings \in SUBSET (Codes \X Versions)
      /\ decays \in SUBSET (Decays \X Versions) /\ sweep.observed \in Trees
  BY DEF Order, JobInv, vars, landingVars, SoundInv, SweepGood, SweepStates
<1>1. CASE StartSweep
  <2>1. PICK todo \in SUBSET Versions : todo = Catalogued
    BY DEF Catalogued
  <2>2. /\ TurnTo(todo, {}) \in SweepStates /\ TurnTo(todo, {}).findings = {}
        /\ TurnTo(todo, {}).observed = Empty /\ TurnTo(todo, {}).pc \in {"done", "dataset"}
    BY TurnFacts
  <2>3. sweep' = [TurnTo(todo, {}) EXCEPT !.old = decays, !.blind = {}]
    BY <1>1, <2>1 DEF StartSweep
  <2>4. sweep'.findings = {} /\ sweep'.observed = Empty /\ sweep'.pc \in {"done", "dataset"}
    BY <2>2, <2>3 DEF SweepStates
  <2>5. SweepSound'
    BY <2>4 DEF SweepSound
  <2> QED
    BY <2>4, <2>5, TurnSound
<1>2. CASE ~StartSweep
  <2>1. PICK v : v = Current
    OBVIOUS
  <2>2. /\ Sweeping /\ v \in Versions /\ v \in sweep.todo /\ Sweeps(v) /\ Remains(v)
    BY <1>0, <1>2, <2>1, SweepDoes, InHandRemains
  <2>3. PICK t \in Trees : t = lds[v] /\ LeftOf(v, t)
    BY <2>1, <2>2, InHandRemains
  <2>4. /\ Knows(v, t) /\ GroupsIn(t) \subseteq Groups
        /\ \A x : Had(x, v)' <=> Had(x, v)
    BY <1>0, <2>1, <2>2, <2>3, TreeFacts DEF SoundInv, InSweep, Had
  \* The findings of the step.
  <2>find. ASSUME NEW code \in Codes, Caused(code, v), NEW n \in {sweep.findings, Finds(v, code)}
           PROVE  /\ n \in SUBSET (Codes \X Versions)
                  /\ sweep'.findings = n => SweepSound'
    BY <1>0, <2>2, <2>find, OneMoreFinding DEF Finds
  <2>turn. ASSUME NEW n \in SUBSET (Codes \X Versions), Turns(v, n)
           PROVE  sweep'.findings = n /\ (SweepSound' => SoundInv')
    <3>1. /\ sweep'.findings = n /\ sweep'.observed = Empty /\ sweep'.pc \in {"done", "dataset"}
          /\ sweep.todo \ {v} \in SUBSET Versions
      BY <1>0, <2>turn, TurnFacts DEF Turns
    <3> QED
      BY <3>1, TurnSound
  <2>stay. ASSUME Stays, SweepSound', Knows(v, t)' PROVE SoundInv'
    <3>1. Current' = v
      BY <2>1, <2>stay DEF Stays, Current
    <3> QED
      BY <1>0, <2>3, <2>stay, <3>1 DEF SoundInv, InSweep
  <2>5. CASE sweep.pc = "dataset" /\ SweepsDataset(v)
    <3>1. CASE dds[v] = NoDoc
      <4>1. Caused("dataset-json-gone", v) /\ "dataset-json-gone" \in Codes
        BY <2>3, <3>1, CausesAre DEF LeftOf, Caused, Codes
      <4> QED
        BY <2>5, <2>find, <2>turn, <3>1, <4>1 DEF SweepsDataset
    <3>2. CASE dds[v] # NoDoc
      <4>1. SweepSound'
        BY <1>0, <2>5, <3>2 DEF SweepsDataset, SweepSound
      <4>2. Knows(v, t)'
        BY <2>3, <2>4, <2>5, <3>2 DEF SweepsDataset, Knows, LeftOf
      <4> QED
        BY <2>5, <2>stay, <3>2, <4>1, <4>2 DEF SweepsDataset
    <3> QED
      BY <3>1, <3>2
  <2>6. CASE sweep.pc = "seal" /\ SweepsSeal(v)
    <3>1. SweepSound'
      BY <1>0, <2>6 DEF SweepsSeal, SweepSound
    <3>2. seal[v] = NoDoc \/ CrcsOf(seal[v].crc, t)
      BY <2>2, <2>3 DEF Remains, Sealed, Claims
    <3>3. Knows(v, t)'
      BY <2>4, <2>6, <3>2 DEF SweepsSeal, Knows, CrcsOf
    <3> QED
      BY <2>6, <2>stay, <3>1, <3>3 DEF SweepsSeal
  <2>7. CASE sweep.pc = "groups" /\ SweepsManifest(v)
    <3>1. PICK g \in sweep.groups :
            /\ g = Min(sweep.groups) /\ g \in Groups
            /\ Stays /\ sweep'.ds = sweep.ds /\ sweep'.seal = sweep.seal
            /\ sweep'.observed = sweep.observed
            /\ \/ /\ dman[v][g] = NoDoc /\ sweep'.pc = "groups" /\ sweep'.groups = sweep.groups \ {g}
                  /\ sweep'.findings = Finds(v, "manifest-gone")
               \/ /\ dman[v][g] # NoDoc
                  /\ sweep'.pc = "groups" /\ sweep'.groups = sweep.groups \ {g}
                  /\ sweep'.findings = sweep.findings
               \/ /\ dman[v][g] \in Trees /\ dman[v][g] # NoDoc
                  /\ sweep'.pc = "heads" /\ sweep'.groups = sweep.groups
                  /\ sweep'.man = dman[v][g] /\ sweep'.findings = sweep.findings
      BY <2>7 DEF SweepsManifest
    <3>2. dman[v][g] = NoDoc => Caused("manifest-gone", v)
      <4>1. sweep.ds = t \/ Had("dataset-rewritten", v)
        BY <2>4, <2>7 DEF Knows
      <4>2. sweep.ds = t => g \in GroupsIn(t)
        BY <2>4, <2>7, <3>1 DEF Knows
      <4> QED
        BY <2>3, <4>1, <4>2, CausesAre DEF LeftOf, Caused, Codes
    <3>3. dman[v][g] # NoDoc => dman[v][g] = Part(t, g) \/ Had("manifest-rewritten", v)
      BY <2>2, <2>3, <3>1 DEF Remains, LeftOf
    <3>4. SweepSound'
      BY <1>0, <2>find, <3>1, <3>2 DEF Codes, SweepSound
    <3>5. sweep'.groups \subseteq sweep.groups
      BY <3>1
    <3>6. Knows(v, t)'
      BY <2>4, <2>7, <3>1, <3>3, <3>5 DEF Knows, CrcsOf
    <3> QED
      BY <2>stay, <3>1, <3>4, <3>6
  <2>8. CASE sweep.pc = "heads" /\ SweepsObject(v)
    <3>1. PICK f \in sweep.left : \E g \in sweep.groups :
            /\ f \in Files /\ g = Min(sweep.groups) /\ g \in Groups
            /\ Stays /\ sweep'.ds = sweep.ds /\ sweep'.seal = sweep.seal /\ sweep'.man = sweep.man
            /\ \E c \in {dobj[v][f], Absent} : sweep'.observed = [sweep.observed EXCEPT ![f] = c]
            /\ \/ sweep.left = {f} /\ sweep'.pc = "groups" /\ sweep'.groups = sweep.groups \ {g}
               \/ sweep.left # {f} /\ sweep'.pc = "heads" /\ sweep'.groups = sweep.groups
            /\ \/ dobj[v][f] = Absent /\ sweep'.findings = Finds(v, "object-gone")
               \/ /\ dobj[v][f] # Absent /\ SizeOf[dobj[v][f]] # SizeOf[sweep.man[f]]
                  /\ sweep'.findings = Finds(v, "object-resized")
               \/ sweep'.findings = sweep.findings
      BY <2>8 DEF SweepsObject
    <3>2. PICK g \in sweep.groups :
            /\ f \in Files /\ g = Min(sweep.groups) /\ g \in Groups
            /\ Stays /\ sweep'.ds = sweep.ds /\ sweep'.seal = sweep.seal /\ sweep'.man = sweep.man
            /\ \E c \in {dobj[v][f], Absent} : sweep'.observed = [sweep.observed EXCEPT ![f] = c]
            /\ \/ sweep.left = {f} /\ sweep'.pc = "groups" /\ sweep'.groups = sweep.groups \ {g}
               \/ sweep.left # {f} /\ sweep'.pc = "heads" /\ sweep'.groups = sweep.groups
            /\ \/ dobj[v][f] = Absent /\ sweep'.findings = Finds(v, "object-gone")
               \/ /\ dobj[v][f] # Absent /\ SizeOf[dobj[v][f]] # SizeOf[sweep.man[f]]
                  /\ sweep'.findings = Finds(v, "object-resized")
               \/ sweep'.findings = sweep.findings
      BY <3>1
    <3>3. \/ Had("manifest-rewritten", v)
          \/ f \in NamesIn(t) /\ sweep.man[f] = t[f]
      BY <2>4, <2>8, <3>1, <3>2, PartNames DEF Knows, SweepGood
    <3>4. /\ dobj[v][f] = Absent => Caused("object-gone", v)
          /\ dobj[v][f] # Absent /\ SizeOf[dobj[v][f]] # SizeOf[sweep.man[f]]
             => Caused("object-resized", v)
      BY <2>3, <3>3, CausesAre DEF LeftOf, Caused, Codes
    <3>5. SweepSound'
      BY <1>0, <2>find, <3>2, <3>4 DEF Codes, SweepSound
    <3>6. ASSUME NEW h \in NamesIn(t)
          PROVE  \/ sweep'.observed[h] \in {Absent, t[h]}
                 \/ Had("object-content-changed", v) \/ Had("object-resized", v)
      BY <1>0, <2>3, <2>4, <3>2, <3>6 DEF Knows, LeftOf, Trees, NamesIn
    <3>7. sweep'.groups \subseteq sweep.groups
      BY <3>2
    <3>8. Knows(v, t)'
      BY <2>4, <2>8, <3>2, <3>6, <3>7 DEF Knows, CrcsOf
    <3> QED
      BY <2>stay, <3>2, <3>5, <3>8
  <2>9. CASE sweep.pc = "groups" /\ SweepsCrcs(v)
    <3>1. ContentChanged => Caused("object-content-changed", v)
      BY <2>3, <2>4, <2>9, CausesAre
      DEF ContentChanged, Referenced, CrcsOf, Knows, Caused, Codes, NamesIn
    <3>2. PICK n \in {sweep.findings, Finds(v, "object-content-changed")} :
            Turns(v, n) /\ (n = sweep.findings \/ ContentChanged)
      BY <2>9 DEF SweepsCrcs
    <3>3. CASE n = sweep.findings
      BY <1>0, <2>turn, <3>2, <3>3 DEF SweepSound
    <3>4. CASE ContentChanged
      BY <2>find, <2>turn, <3>1, <3>2, <3>4 DEF Codes
    <3> QED
      BY <3>2, <3>3, <3>4
  <2> QED
    BY <2>2, <2>5, <2>6, <2>7, <2>8, <2>9 DEF Sweeps
<1> QED
  BY <1>1, <1>2

\* What decays, is published or restored meanwhile takes nothing from what the sweep knows.
LEMMA WorldSound ==
    ASSUME ~Overlap, ~Expiry, Order, AllRemains, SweepGood, SoundInv,
           ([Next]_vars /\ UNCHANGED decays) \/ DecayNext, UNCHANGED sweep
    PROVE  SoundInv'
<1>0. SweepSound /\ sweep.todo \subseteq Versions
  BY DEF SoundInv, SweepGood, SweepStates
<1>1. decays \subseteq decays'
  BY DecaysOnce DEF Order, JobInv, OneDecay
<1>2. SweepSound'
  BY <1>0, <1>1 DEF SweepSound
<1>3. ASSUME NEW v \in Versions, NEW t \in Trees, InSweep(v, t)' PROVE Knows(v, t)'
  <2>1. Sweeping /\ v = Current /\ t = lds'[v]
    BY <1>3 DEF InSweep, Sweeping, Current
  <2>2. catalog[v] # NoDoc
    BY <2>1, InHand
  <2>3. lds[v] = t
    BY <2>1, <2>2, WorldRemains DEF AllRemains
  <2>4. Knows(v, t)
    BY <2>1, <2>3 DEF SoundInv, InSweep
  <2>5. \A x : Had(x, v) => Had(x, v)'
    BY <1>1 DEF Had
  <2> QED
    BY <2>4, <2>5 DEF Knows, CrcsOf
<1> QED
  BY <1>2, <1>3 DEF SoundInv

\* No alarm about data that is fine: where publications do not overlap and landing does not expire,
\* whatever the sweep reports about a version did decay there, or a document of it was rewritten,
\* although the sweep runs in the middle of promotions and re-promotions.
THEOREM SweepIsSound == ASSUME ~Overlap, ~Expiry PROVE FsckSpec => []SweepSound
<1>1. FsckInit => SweepGood /\ SoundInv
  <2>1. FsckInit => NewSweep \in SweepStates /\ sweep = NewSweep /\ decays = {}
    BY TreeFacts DEF FsckInit, NewSweep, SweepStates, FsckPhases, Docs
  <2>2. FsckInit => SweepGood
    BY <2>1 DEF SweepGood, Sweeping, NewSweep
  <2>3. FsckInit => SoundInv
    BY <2>1 DEF SoundInv, SweepSound, InSweep, Sweeping, NewSweep
  <2> QED
    BY <2>2, <2>3
<1>2. Order /\ AllRemains /\ SweepGood /\ SoundInv /\ [FsckNext]_fsckVars
        => SweepGood' /\ SoundInv'
  BY SweepKeepsGood, SweepStepSound, WorldSound, SweepStepsOnly
<1>3. SoundInv => SweepSound
  BY DEF SoundInv
<1> QED
  BY <1>1, <1>2, <1>3, FsckOrder, PTL DEF FsckSpec, fsckVars

-----------------------------------------------------------------------------
(* What decayed is at rest. *)

\* A job takes up only versions without a marker, unless somebody names a prefix by hand.
LEMMA WorkIsPending ==
    ASSUME JobGood, Named = {}, NEW j \in Jobs, JobStep(j) \/ RunNamed(j) \/ JobCrash(j)
    PROVE  job'[j].work \subseteq job[j].work \cup Pending
<1> DEFINE me == job[j]
<1>0. me \in JobStates /\ job \in [Jobs -> JobRecs]
  BY DEF JobGood, JobRecs
<1>begin. ASSUME NEW w \in SUBSET (me.work \cup Pending), job' = [job EXCEPT ![j] = Begin(w)]
          PROVE  job'[j].work \subseteq me.work \cup Pending
  <2>1. Begin(w).work = w
    BY DEF Begin, IdleJob
  <2> QED
    BY <1>0, <1>begin, <2>1
<1>die. Die(j) => job'[j].work \subseteq me.work \cup Pending
  BY <1>0 DEF Die, IdleJob
<1>1. CASE Discover(j) \/ RunNamed(j) \/ JobCrash(j)
  BY <1>1, <1>begin, <1>die DEF Discover, RunNamed, JobCrash
<1>2. CASE \/ LoadDs(j) \/ LoadManifest(j) \/ HeadEntry(j) \/ ListGroup(j) \/ SampleEntry(j)
           \/ EndGroup(j) \/ Sweep(j)
  <2>1. LoadDs(j) => job'[j].work = me.work
    BY <1>0 DEF LoadDs, JobStates
  <2>2. LoadManifest(j) => job'[j].work = me.work
    BY <1>0 DEF LoadManifest, JobStates
  <2>3. HeadEntry(j) \/ ListGroup(j) \/ SampleEntry(j) \/ EndGroup(j) => job'[j].work = me.work
    BY <1>0 DEF HeadEntry, ListGroup, SampleEntry, EndGroup, JobStates
  <2>4. Sweep(j) => job'[j].work = me.work
    BY <1>0 DEF Sweep, JobStates
  <2> QED
    BY <1>2, <2>1, <2>2, <2>3, <2>4
<1>3. CASE LeaveIncomplete(j) \/ Reject(j) \/ MarkValidated(j)
  BY <1>3, <1>begin DEF LeaveIncomplete, Reject, MarkValidated, ProcessNext
<1>4. CASE CheckSeal(j) \/ ReloadDs(j) \/ ReloadManifest(j)
  <2>1. CheckSeal(j) => job'[j].work = me.work \/ Die(j)
    BY <1>0 DEF CheckSeal, JobStates
  <2>2. ReloadDs(j) => job'[j].work = me.work \/ Die(j)
    BY <1>0 DEF ReloadDs, JobStates
  <2>3. ReloadManifest(j) => job'[j].work = me.work \/ Die(j)
    <3>1. ASSUME ReloadManifest(j), ~Die(j) PROVE job'[j].work = me.work
      <4>1. PICK g, m : g = Min(me.todo) /\ m = lman[Cur(j)][g]
        OBVIOUS
      <4>2. PICK k, p : /\ k = me.keys \cup {ManKey(g)} \cup {ObjKey(f) : f \in NamesIn(m)}
                        /\ p = IF me.todo = {g} THEN "copy" ELSE me.pc
        OBVIOUS
      <4>3. job' = [job EXCEPT ![j].mans[g] = m, ![j].todo = @ \ {g}, ![j].keys = k, ![j].pc = p]
        BY <3>1, <4>1, <4>2 DEF ReloadManifest
      <4> QED
        BY <1>0, <4>3 DEF JobStates
    <3> QED
      BY <3>1
  <2> QED
    BY <1>4, <1>die, <2>1, <2>2, <2>3
<1>5. CASE CopyDs(j) \/ CopyManifest(j) \/ CopyPayload(j)
  <2>1. ASSUME NEW k, Copied(j, k) PROVE job'[j].work = me.work
    BY <1>0, <2>1 DEF Copied, JobStates
  <2> QED
    BY <1>5, <1>die, <2>1 DEF CopyDs, CopyManifest, CopyPayload
<1>6. CASE HeadCrc(j) \/ ReadRoot(j) \/ PutCatalog(j) \/ PutSeal(j)
  <2>1. CASE HeadCrc(j)
    <3>1. PICK f \in me.left : \E c :
             job' = [job EXCEPT ![j].crc[f] = c, ![j].left = @ \ {f}]
      BY <2>1 DEF HeadCrc
    <3> QED
      BY <1>0, <3>1 DEF JobStates
  <2>2. CASE ReadRoot(j) \/ PutCatalog(j) \/ PutSeal(j)
    BY <1>0, <2>2 DEF ReadRoot, PutCatalog, PutSeal, JobStates
  <2> QED
    BY <1>6, <2>1, <2>2
<1> QED
  BY <1>1, <1>2, <1>3, <1>4, <1>5, <1>6 DEF JobStep, GateAStep, PromoteStep

\* So no job comes back to an old version, which then stays as it is.
LEMMA OldIsStill ==
    ASSUME ~Overlap, ~Expiry, Named = {}, Order, [Next]_vars, NEW v \in Versions, Old(v)
    PROVE  Old(v)' /\ Still(v)
<1>0. PubGood /\ JobInv /\ JobGood /\ LandingInv /\ WorkInv /\ marks \in [Versions -> SUBSET Marks]
  BY DEF Order, JobInv, PubGood, LandingTypeOK
<1>1. CASE ValidatorNext
  <2>1. PICK j \in Jobs : JobStep(j) \/ RunNamed(j) \/ JobCrash(j)
    BY <1>1 DEF ValidatorNext
  <2>2. "VALIDATED" \in marks'[v]
    <3>1. Reject(j) \/ MarkValidated(j) => "VALIDATED" \in marks'[v]
      BY <1>0 DEF Reject, MarkValidated, Old
    <3> QED
      BY <2>1, <3>1, OnlyVerdictsMark DEF Old
  <2>3. \A k \in Jobs : v \notin job'[k].work
    BY <1>0, <2>1, OneJobAtATime, WorkIsPending DEF Old, Pending
  <2>4. Still(v)
    <3>1. \/ \A w \in Versions : Still(w)
          \/ job[j].pc \in Promoting /\ \A w \in Versions \ {Cur(j)} : Still(w)
      BY <1>0, <2>1, JobMoves DEF WorkInv
    <3>2. job[j].pc \in Promoting => Cur(j) # v
      BY <1>0, CurIsWork DEF Promoting, Old
    <3> QED
      BY <3>1, <3>2
  <2> QED
    BY <2>2, <2>3, <2>4 DEF Old
<1>2. CASE (PublishNext /\ UNCHANGED <<dataVars, jobVars>>) \/ UNCHANGED vars
  <2>1. UNCHANGED marks /\ UNCHANGED job /\ UNCHANGED dataVars
    BY <1>2, ProducersMarkNothing DEF PublishNext, jobVars, landingVars, vars
  <2> QED
    BY <2>1 DEF Old, Still, SealKept, dataVars
<1> QED
  BY <1>1, <1>2 DEF Next, Expire

OfObjects == {"object-gone", "object-resized", "object-content-changed"}

\* A HEAD shows that the file f of the tree t is lost or has another length, or its CRC that it has
\* other bytes.
Spoilt(what, v, t, f) ==
    \/ dobj[v][f] = Absent
    \/ SizeOf[dobj[v][f]] # SizeOf[t[f]]
    \/ what = "object-content-changed" /\ dobj[v][f] # t[f]

\* What decayed is of an old version, catalogued, and is not repaired: no job comes back,
\* and no second decay undoes the first.
Rests(v) ==
    /\ \A what \in Decays : Had(what, v) => Old(v)
    /\ "VALIDATED" \in marks[v] => catalog[v] # NoDoc
    /\ Had("dataset-json-gone", v) => dds[v] = NoDoc \/ Had("dataset-rewritten", v)
    /\ Had("manifest-gone", v) => \E g \in GroupsIn(lds[v]) : dman[v][g] = NoDoc
    /\ \A what \in OfObjects :
          Had(what, v) => \E f \in NamesIn(lds[v]) : Spoilt(what, v, lds[v], f)
    /\ Had("object-resized", v) /\ ~Had("object-content-changed", v) =>
          \A f \in NamesIn(lds[v]) : \/ dobj[v][f] \in {lds[v][f], Absent}
                                     \/ SizeOf[dobj[v][f]] # SizeOf[lds[v][f]]

\* A file that is spoilt stays so, whatever decays next.
LEMMA SpoiltStays ==
    ASSUME NEW v \in Versions, NEW t \in Trees, NEW f \in NamesIn(t), LeftOf(v, t),
           NEW what, Had(what, v), Spoilt(what, v, t, f), NEW next, OneDecay(next, v)
    PROVE  Spoilt(what, v, t, f)'
<1>1. /\ f \in Files /\ t[f] # Absent /\ Wears(next, v) /\ ~Had(next, v)
  BY DEF NamesIn, OneDecay, Had
<1>2. \/ dobj[v][f] = Absent \/ SizeOf[dobj[v][f]] = SizeOf[t[f]] \/ Had("object-resized", v)
  BY DEF LeftOf
<1> QED
  BY <1>1, <1>2 DEF Wears, Spoilt

\* After a decay there is what the decay did.
LEMMA DecayRests ==
    ASSUME Order, NEW w \in Versions, NEW next \in Decays, OneDecay(next, w),
           NEW v \in Versions, Rests(v), Remains(v)
    PROVE  Rests(v)'
<1>0. /\ decays' = decays \cup {<<next, w>>}
      /\ UNCHANGED <<lds, marks, job, catalog>> /\ (Old(v)' <=> Old(v))
      /\ \A x : Had(x, v) => Had(x, v)'
      /\ \A x : Had(x, v)' => Had(x, v) \/ (x = next /\ v = w)
  BY DEF OneDecay, landingVars, jobVars, Had, Old
<1>t. PICK t : t = lds[v] /\ lds'[v] = t
  BY <1>0
<1>1. CASE v # w
  <2>1. Still(v) /\ \A x : Had(x, v)' <=> Had(x, v)
    BY <1>0, <1>1 DEF OneDecay
  <2> QED
    BY <1>0, <1>t, <2>1 DEF Rests, Still, Spoilt
<1>2. CASE v = w
  <2>1. /\ Wears(next, v) /\ Bites(next, v) /\ Old(v) /\ ~Had(next, v) /\ Had(next, v)'
    BY <1>0, <1>2 DEF OneDecay, Had
  <2>2. /\ catalog[v] # NoDoc /\ LeftOf(v, t) /\ t \in Trees
        /\ GroupsIn(t) \subseteq Groups /\ NamesIn(t) \subseteq Files
    BY <1>t, <2>1, TreeFacts DEF Rests, Old, Remains, Whole
  <2>3. \A what \in Decays : Had(what, v)' => Old(v)'
    BY <1>0, <2>1
  <2>4. "VALIDATED" \in marks'[v] => catalog'[v] # NoDoc
    BY <1>0, <2>1 DEF Rests
  <2>5. Had("dataset-json-gone", v)' => dds'[v] = NoDoc \/ Had("dataset-rewritten", v)'
    BY <1>0, <2>1 DEF Rests, Wears, Bites
  <2>6. ASSUME Had("manifest-gone", v)' PROVE \E g \in GroupsIn(t) : dman'[v][g] = NoDoc
    <3>1. CASE Had("manifest-gone", v)
      BY <1>t, <2>1, <2>2, <3>1 DEF Rests, Wears
    <3>2. CASE next = "manifest-gone"
      BY <1>t, <2>1, <3>2 DEF Bites, Remains
    <3> QED
      BY <1>0, <2>6, <3>1, <3>2
  <2>7. ASSUME NEW what \in OfObjects, Had(what, v)'
        PROVE  \E f \in NamesIn(t) : Spoilt(what, v, t, f)'
    <3>1. CASE Had(what, v)
      <4>1. PICK f \in NamesIn(t) : Spoilt(what, v, t, f)
        BY <1>t, <2>7, <3>1 DEF Rests
      <4> QED
        BY <1>2, <2>2, <3>1, <4>1, SpoiltStays
    <3>2. CASE next = what
      <4>1. CASE what = "object-gone"
        BY <1>t, <2>1, <3>2, <4>1 DEF Bites, Remains, Spoilt
      <4>2. CASE what = "object-resized"
        <5>1. PICK f \in Files : /\ dobj[v][f] # Absent
                                 /\ SizeOf[dobj'[v][f]] # SizeOf[dobj[v][f]]
          BY <2>1, <3>2, <4>2 DEF Bites
        <5>2. f \in NamesIn(t) /\ SizeOf[dobj[v][f]] = SizeOf[t[f]]
          BY <1>t, <2>1, <2>2, <3>2, <4>2, <5>1 DEF LeftOf, Remains
        <5> QED
          BY <5>1, <5>2 DEF Spoilt
      <4>3. CASE what = "object-content-changed"
        <5>1. PICK f \in Files : dobj[v][f] # Absent /\ dobj'[v][f] \notin {Absent, dobj[v][f]}
          BY <2>1, <3>2, <4>3 DEF Bites
        <5>2. SizeOf[dobj'[v][f]] = SizeOf[dobj[v][f]]
          BY <2>1, <3>2, <4>3, <5>1 DEF Wears
        <5>3. f \in NamesIn(t)
          BY <1>t, <5>1 DEF Remains
        <5>4. dobj[v][f] = t[f] \/ SizeOf[dobj[v][f]] # SizeOf[t[f]]
          BY <1>t, <2>1, <2>2, <3>2, <4>3, <5>1, <5>3 DEF LeftOf, Rests
        <5> QED
          BY <4>3, <5>1, <5>2, <5>3, <5>4 DEF Spoilt
      <4> QED
        BY <2>7, <4>1, <4>2, <4>3 DEF OfObjects
    <3> QED
      BY <1>0, <2>7, <3>1, <3>2
  <2>8. ASSUME Had("object-resized", v)', ~Had("object-content-changed", v)', NEW f \in NamesIn(t)
        PROVE  dobj'[v][f] \in {t[f], Absent} \/ SizeOf[dobj'[v][f]] # SizeOf[t[f]]
    <3>1. ~Had("object-content-changed", v) /\ next # "object-content-changed"
      BY <1>0, <2>1, <2>8
    <3>2. CASE Had("object-resized", v)
      BY <1>t, <2>1, <2>2, <3>1, <3>2 DEF Rests, Wears
    <3>3. CASE ~Had("object-resized", v)
      BY <2>1, <2>2, <3>1, <3>3 DEF LeftOf, Wears
    <3> QED
      BY <3>2, <3>3
  <2> QED
    BY <1>t, <2>3, <2>4, <2>5, <2>6, <2>7, <2>8 DEF Rests
<1> QED
  BY <1>1, <1>2

\* Publications, promotions and re-promotions leave it be.
LEMMA NextRests ==
    ASSUME ~Overlap, ~Expiry, Named = {}, Order, [Next]_vars, UNCHANGED decays,
           NEW v \in Versions, Rests(v), Remains(v)
    PROVE  Rests(v)'
<1>0. /\ PubGood /\ JobInv /\ JobGood /\ KeepsKeys /\ Remains(v)'
      /\ marks \in [Versions -> SUBSET Marks]
      /\ \A x : Had(x, v)' <=> Had(x, v)
  BY NextGood, NextRemains DEF Order, JobInv, PubGood, LandingTypeOK, Had
<1>1. ASSUME "VALIDATED" \in marks'[v] PROVE catalog'[v] # NoDoc
  <2>1. CASE "VALIDATED" \in marks[v]
    BY <1>0, <2>1 DEF Rests, KeepsKeys
  <2>2. CASE "VALIDATED" \notin marks[v]
    <3>1. PICK j \in Jobs : JobStep(j) \/ RunNamed(j) \/ JobCrash(j)
      <4>1. ~ValidatorNext => UNCHANGED marks
        BY ProducersMarkNothing DEF Next, PublishNext, Expire, vars, landingVars
      <4> QED
        BY <1>1, <2>2, <4>1 DEF ValidatorNext
    <3>2. MarkValidated(j) /\ Cur(j) = v
      <4>1. Reject(j) => ("VALIDATED" \in marks'[v] <=> "VALIDATED" \in marks[v])
        BY <1>0 DEF Reject
      <4>2. MarkValidated(j) /\ Cur(j) # v => marks'[v] = marks[v]
        BY <1>0 DEF MarkValidated
      <4> QED
        BY <1>1, <2>2, <3>1, <4>1, <4>2, OnlyVerdictsMark
    <3>3. Sealed(v)
      BY <1>0, <3>2 DEF MarkValidated, JobInv, Placed, Sealed
    <3>4. Sealed(v)'
      BY <3>2, <3>3 DEF MarkValidated, dataVars, Sealed
    <3> QED
      BY <1>0, <3>4 DEF Remains
  <2> QED
    BY <2>1, <2>2
<1>2. CASE Old(v)
  <2>1. Old(v)' /\ Still(v)
    BY <1>2, OldIsStill
  <2>2. lds'[v] = lds[v]
    BY <1>2, NextRemains DEF Rests, Old, Remains
  <2>3. PICK t : t = lds[v] /\ lds'[v] = t
    BY <2>2
  <2> QED
    BY <1>0, <1>1, <2>1, <2>3 DEF Rests, Still, Spoilt
<1>3. CASE ~Old(v)
  <2>1. \A what \in Decays : ~Had(what, v)'
    BY <1>0, <1>3 DEF Rests
  <2> QED
    BY <1>1, <2>1 DEF Rests, Decays, Codes, OfObjects
<1> QED
  BY <1>2, <1>3

AllRest == \A v \in Versions : Rests(v)

\* A version that is at rest stays so.
LEMMA FsckRest ==
    ASSUME ~Overlap, ~Expiry, Named = {}, Order, AllRemains, AllRest, [FsckNext]_fsckVars
    PROVE  AllRest'
<1>1. CASE [Next]_vars /\ UNCHANGED decays
  BY <1>1, NextRests DEF AllRemains, AllRest
<1>2. CASE DecayNext
  <2>1. PICK w \in Versions, next \in Decays : OneDecay(next, w)
    BY <1>2, DecaysOnce DEF Order, JobInv
  <2> QED
    BY <2>1, DecayRests DEF AllRemains, AllRest
<1>3. CASE UNCHANGED <<vars, decays>>
  BY <1>1, <1>3
<1> QED
  BY <1>1, <1>2, <1>3, SweepStepsOnly

-----------------------------------------------------------------------------
(* What had decayed is reported. *)

Reported(v) == \E code \in Codes : <<code, v>> \in sweep.findings

\* Groups of the version in hand that the sweep has still to take up, and files to HEAD.
ToCheck   == IF sweep.pc = "heads" THEN sweep.groups \ {Min(sweep.groups)} ELSE sweep.groups
ToHead(f) == GroupOf[f] \in ToCheck \/ (sweep.pc = "heads" /\ f \in sweep.left)

\* The sweep has still to come across what decayed, or has what it needs to notice.
Ahead(what, v, t) ==
    /\ what = "dataset-json-gone" => sweep.pc = "dataset"
    /\ sweep.pc \in {"groups", "heads"} =>
          /\ what = "manifest-gone" => \E g \in ToCheck : dman[v][g] = NoDoc
          /\ what \in OfObjects => \E f \in NamesIn(t) :
                /\ Spoilt(what, v, t, f)
                /\ \/ ToHead(f)
                   \/ /\ what = "object-content-changed" /\ Referenced(f)
                      /\ sweep.observed[f] \notin {Absent, t[f]}

\* Whatever had decayed when the sweep began is reported, or the sweep comes to it.
CompleteInv ==
    /\ sweep.pc \in {"idle", "done"} => sweep.todo = {}
    /\ \A what \in Decays, v \in Versions, t \in Trees :
          <<what, v>> \in sweep.old /\ t = lds[v] =>
              \/ Silent(what, v) \/ Reported(v)
              \/ v \in sweep.todo /\ (v = Current => Ahead(what, v, t))

\* What is not left to the readers has a finding of its own, and the documents are the right ones.
LEMMA NotSilent ==
    ASSUME NEW what \in Decays, NEW v, Had(what, v), ~Silent(what, v)
    PROVE  /\ what \in Codes /\ (what \in OfObjects \/ what \in {"dataset-json-gone", "manifest-gone"})
           /\ ~Had("dataset-rewritten", v) /\ ~Had("manifest-rewritten", v)
  BY DEF Silent, Had, Decays, Codes, Rewritten, OfObjects

\* A step of the sweep that meets what decayed reports it, or has no CRC to tell it by.
LEMMA SweepNotices ==
    ASSUME SweepGood, Sweeping, UNCHANGED <<vars, decays>>,
           NEW v \in Versions, NEW t \in Trees, Sweeps(v), Knows(v, t), lds[v] = t, catalog[v] # NoDoc,
           Remains(v), Rests(v),
           NEW what \in Decays, Had(what, v), ~Silent(what, v), Ahead(what, v, t)
    PROVE  Reported(v)' \/ Silent(what, v)' \/ (Stays /\ Ahead(what, v, t)')
<1>0. /\ what \in Codes /\ (what \in OfObjects \/ what \in {"dataset-json-gone", "manifest-gone"})
      /\ ~Had("dataset-rewritten", v) /\ ~Had("manifest-rewritten", v)
  BY NotSilent
<1>1. /\ UNCHANGED <<dman, dobj>> /\ LeftOf(v, t) /\ Old(v)
      /\ GroupsIn(t) \subseteq Groups /\ NamesIn(t) \subseteq Files
  BY <1>0, TreeFacts DEF vars, dataVars, Remains, Rests, Old
<1>find. ASSUME NEW code \in Codes, sweep'.findings = Finds(v, code) PROVE Reported(v)'
  BY <1>find DEF Reported, Finds
<1>turn. ASSUME NEW code \in Codes, Turns(v, Finds(v, code)) PROVE Reported(v)'
  <2>1. /\ sweep.todo \ {v} \in SUBSET Versions
        /\ Finds(v, code) \in SUBSET (Codes \X Versions)
    BY DEF SweepGood, SweepStates, Finds
  <2>2. sweep'.findings = Finds(v, code)
    BY <1>turn, <2>1, TurnFacts DEF Turns
  <2> QED
    BY <1>find, <2>2
<1>2. CASE sweep.pc = "dataset" /\ SweepsDataset(v)
  <2>1. CASE dds[v] = NoDoc
    BY <1>2, <1>turn, <2>1 DEF SweepsDataset, Codes
  <2>2. CASE dds[v] # NoDoc
    <3>1. what # "dataset-json-gone"
      BY <1>0, <2>2 DEF Rests
    <3> QED
      BY <1>2, <2>2, <3>1 DEF SweepsDataset, Ahead
  <2> QED
    BY <2>1, <2>2
<1>3. CASE sweep.pc = "seal" /\ SweepsSeal(v)
  <2>1. /\ Stays /\ sweep'.pc = "groups" /\ sweep'.groups = GroupsIn(t) /\ sweep'.seal = seal[v]
        /\ what # "dataset-json-gone"
    BY <1>0, <1>3 DEF SweepsSeal, Knows, Ahead
  <2>2. ToCheck' = GroupsIn(t) /\ \A f \in NamesIn(t) : ToHead(f)'
    BY <2>1 DEF ToCheck, ToHead, GroupsIn
  <2>3. what = "manifest-gone" => \E g \in ToCheck' : dman'[v][g] = NoDoc
    BY <1>1, <2>2 DEF Rests
  <2>4. what \in OfObjects => \E f \in NamesIn(t) : Spoilt(what, v, t, f)' /\ ToHead(f)'
    <3>1. what \in OfObjects => \E f \in NamesIn(t) : Spoilt(what, v, t, f)
      BY DEF Rests
    <3> QED
      BY <1>1, <2>2, <3>1 DEF Spoilt
  <2> QED
    BY <1>1, <2>1, <2>3, <2>4 DEF Ahead
<1>4. CASE sweep.pc = "groups" /\ SweepsManifest(v)
  <2>1. PICK g \in sweep.groups :
          /\ g = Min(sweep.groups) /\ g \in Groups
          /\ Stays /\ sweep'.seal = sweep.seal /\ sweep'.observed = sweep.observed
          /\ \/ dman[v][g] = NoDoc /\ sweep'.findings = Finds(v, "manifest-gone")
             \/ dman[v][g] # NoDoc /\ NamesIn(dman[v][g]) = {}
             \/ /\ dman[v][g] # NoDoc /\ sweep'.pc = "heads" /\ sweep'.groups = sweep.groups
                /\ sweep'.left = NamesIn(dman[v][g])
    BY <1>4 DEF SweepsManifest
  <2>2. g \in GroupsIn(t)
    BY <1>0, <1>4, <2>1 DEF Knows
  <2>3. dman[v][g] # NoDoc => dman[v][g] = Part(t, g) /\ NamesIn(dman[v][g]) # {}
    BY <1>0, <1>1, <2>2 DEF LeftOf, GroupsIn, NamesIn, Part
  <2>4. CASE dman[v][g] = NoDoc
    BY <1>find, <2>1, <2>4 DEF Codes
  <2>5. CASE dman[v][g] # NoDoc
    <3>1. /\ Stays /\ sweep'.seal = sweep.seal /\ sweep'.observed = sweep.observed
          /\ sweep'.pc = "heads" /\ sweep'.groups = sweep.groups
          /\ sweep'.left = NamesIn(Part(t, g))
      BY <2>1, <2>3, <2>5
    <3>2. ToCheck' = sweep.groups \ {g} /\ ToCheck = sweep.groups
      BY <1>4, <2>1, <3>1 DEF ToCheck
    <3>3. \A f \in NamesIn(t) : ToHead(f) => ToHead(f)'
      BY <1>4, <3>1, <3>2 DEF ToHead, NamesIn, Part
    <3>4. \A f \in NamesIn(t) : Spoilt(what, v, t, f) => Spoilt(what, v, t, f)'
      BY <1>1 DEF Spoilt
    <3>5. what # "dataset-json-gone"
      BY <1>4 DEF Ahead
    <3>6. what = "manifest-gone" => \E h \in ToCheck' : dman'[v][h] = NoDoc
      BY <1>1, <1>4, <2>5, <3>2 DEF Ahead
    <3>7. what \in OfObjects => \E f \in NamesIn(t) :
             /\ Spoilt(what, v, t, f)'
             /\ \/ ToHead(f)'
                \/ /\ what = "object-content-changed" /\ Referenced(f)'
                   /\ sweep'.observed[f] \notin {Absent, t[f]}
      BY <1>4, <3>1, <3>3, <3>4 DEF Ahead, Referenced
    <3> QED
      BY <1>4, <3>1, <3>5, <3>6, <3>7 DEF Ahead
  <2> QED
    BY <2>4, <2>5
<1>5. CASE sweep.pc = "heads" /\ SweepsObject(v)
  <2>1. PICK e \in sweep.left : \E g \in sweep.groups :
          /\ e \in Files /\ g = Min(sweep.groups)
          /\ Stays /\ sweep'.seal = sweep.seal
          /\ \E c \in {dobj[v][e], Absent} :
                /\ sweep'.observed = [sweep.observed EXCEPT ![e] = c]
                /\ dobj[v][e] # sweep.man[e] /\ (c = Absent \/ ~Referenced(e)) => v \in sweep'.blind
          /\ sweep'.left = sweep.left \ {e}
          /\ \/ sweep.left = {e} /\ sweep'.pc = "groups" /\ sweep'.groups = sweep.groups \ {g}
             \/ sweep.left # {e} /\ sweep'.pc = "heads" /\ sweep'.groups = sweep.groups
          /\ \/ \E code \in Codes : sweep'.findings = Finds(v, code)
             \/ dobj[v][e] # Absent /\ SizeOf[dobj[v][e]] = SizeOf[sweep.man[e]]
    BY <1>5 DEF SweepsObject, Codes
  <2>2. PICK g \in sweep.groups :
          /\ e \in Files /\ g = Min(sweep.groups)
          /\ Stays /\ sweep'.seal = sweep.seal
          /\ \E c \in {dobj[v][e], Absent} :
                /\ sweep'.observed = [sweep.observed EXCEPT ![e] = c]
                /\ dobj[v][e] # sweep.man[e] /\ (c = Absent \/ ~Referenced(e)) => v \in sweep'.blind
          /\ sweep'.left = sweep.left \ {e}
          /\ \/ sweep.left = {e} /\ sweep'.pc = "groups" /\ sweep'.groups = sweep.groups \ {g}
             \/ sweep.left # {e} /\ sweep'.pc = "heads" /\ sweep'.groups = sweep.groups
          /\ \/ \E code \in Codes : sweep'.findings = Finds(v, code)
             \/ dobj[v][e] # Absent /\ SizeOf[dobj[v][e]] = SizeOf[sweep.man[e]]
    BY <2>1
  <2>3. CASE \E code \in Codes : sweep'.findings = Finds(v, code)
    BY <1>find, <2>3
  <2>4. CASE dobj[v][e] # Absent /\ SizeOf[dobj[v][e]] = SizeOf[sweep.man[e]]
    <3>1. sweep.man[e] = t[e] /\ SizeOf[dobj[v][e]] = SizeOf[t[e]]
      <4>1. g \in GroupsIn(t) /\ sweep.man = Part(t, g)
        BY <1>0, <1>5, <2>2 DEF Knows
      <4>2. sweep.man[e] = t[e]
        BY <1>1, <1>5, <2>1, <4>1, PartNames DEF SweepGood
      <4> QED
        BY <2>4, <4>2
    <3>2. ToCheck = sweep.groups \ {g} /\ ToCheck' = ToCheck
      BY <1>5, <2>2 DEF ToCheck
    <3>3. \A f \in NamesIn(t) : ToHead(f) => ToHead(f)' \/ f = e
      BY <1>5, <2>2, <3>2 DEF ToHead
    <3>4. \A f \in NamesIn(t) : Spoilt(what, v, t, f) => Spoilt(what, v, t, f)'
      BY <1>1 DEF Spoilt
    <3>5. /\ sweep.observed \in Trees
          /\ \/ sweep'.observed[e] = dobj[v][e] /\ Referenced(e)
             \/ dobj[v][e] = t[e]
             \/ v \in sweep'.blind
          /\ \A f \in Files : f # e => sweep'.observed[f] = sweep.observed[f]
          /\ \A f : Referenced(f)' <=> Referenced(f)
      BY <2>2, <2>4, <3>1 DEF SweepGood, SweepStates, Trees, Referenced
    <3>6. Spoilt(what, v, t, e) =>
            /\ what = "object-content-changed"
            /\ \/ Referenced(e)' /\ sweep'.observed[e] \notin {Absent, t[e]}
               \/ Silent(what, v)'
      BY <2>4, <3>1, <3>5 DEF Spoilt, Silent
    <3>7. what # "dataset-json-gone"
      BY <1>5 DEF Ahead
    <3>8. what = "manifest-gone" => \E h \in ToCheck' : dman'[v][h] = NoDoc
      BY <1>1, <1>5, <3>2 DEF Ahead
    <3>9. ASSUME what \in OfObjects, ~Silent(what, v)'
          PROVE  \E f \in NamesIn(t) :
             /\ Spoilt(what, v, t, f)'
             /\ \/ ToHead(f)'
                \/ /\ what = "object-content-changed" /\ Referenced(f)'
                   /\ sweep'.observed[f] \notin {Absent, t[f]}
      <4>1. PICK f \in NamesIn(t) :
              /\ Spoilt(what, v, t, f)
              /\ \/ ToHead(f)
                 \/ /\ what = "object-content-changed" /\ Referenced(f)
                    /\ sweep.observed[f] \notin {Absent, t[f]}
        BY <1>5, <3>9 DEF Ahead
      <4>2. CASE f = e
        BY <3>4, <3>6, <3>9, <4>1, <4>2
      <4>3. CASE f # e
        BY <1>1, <3>3, <3>4, <3>5, <4>1, <4>3
      <4> QED
        BY <4>2, <4>3
    <3> QED
      BY <1>5, <2>2, <3>7, <3>8, <3>9 DEF Ahead
  <2> QED
    BY <2>2, <2>3, <2>4
<1>6. CASE sweep.pc = "groups" /\ SweepsCrcs(v)
  <2>1. ToCheck = {} /\ \A f \in NamesIn(t) : ~ToHead(f)
    BY <1>6 DEF SweepsCrcs, ToCheck, ToHead
  <2>2. what \in OfObjects
    BY <1>0, <1>6, <2>1 DEF Ahead
  <2>3. PICK f \in NamesIn(t) : Referenced(f) /\ sweep.observed[f] \notin {Absent, t[f]}
    BY <1>6, <2>1, <2>2 DEF Ahead
  <2>4. f \in Files /\ sweep.seal.crc[f] = t[f]
    BY <1>1, <1>6, <2>3 DEF Knows, Referenced, CrcsOf
  <2>5. ContentChanged
    BY <2>3, <2>4 DEF ContentChanged
  <2> QED
    BY <1>6, <1>turn, <2>5 DEF SweepsCrcs, Codes
<1> QED
  BY <1>2, <1>3, <1>4, <1>5, <1>6 DEF Sweeps

\* A request of the sweep leaves no version behind without the finding it deserves.
LEMMA SweepStepComplete ==
    ASSUME Order, AllRemains, AllRest, SweepGood, SoundInv, CompleteInv, SweepStep,
           UNCHANGED <<vars, decays>>
    PROVE  CompleteInv'
<1>0. /\ JobGood /\ lds' = lds /\ decays' = decays /\ sweep.old \subseteq decays
      /\ sweep.todo \subseteq Versions /\ sweep.findings \in SUBSET (Codes \X Versions)
  BY DEF Order, JobInv, vars, landingVars, SweepGood, SweepStates
<1>1. CASE StartSweep
  <2>1. PICK todo \in SUBSET Versions : todo = Catalogued
    BY DEF Catalogued
  <2>2. /\ TurnTo(todo, {}) \in SweepStates /\ TurnTo(todo, {}).todo = todo
        /\ TurnTo(todo, {}).pc = IF todo = {} THEN "done" ELSE "dataset"
    BY TurnFacts
  <2>3. sweep' = [TurnTo(todo, {}) EXCEPT !.old = decays, !.blind = {}]
    BY <1>1, <2>1 DEF StartSweep
  <2>4. /\ sweep'.todo = todo /\ sweep'.old = decays
        /\ sweep'.pc = IF todo = {} THEN "done" ELSE "dataset"
    BY <2>2, <2>3 DEF SweepStates
  <2>5. ASSUME NEW what \in Decays, NEW v \in Versions, <<what, v>> \in decays PROVE v \in todo
    BY <2>1, <2>5 DEF AllRest, Rests, Had, Old, Catalogued
  <2>6. ASSUME NEW what \in Decays, NEW v \in Versions, NEW t \in Trees, sweep'.todo # {}
        PROVE  Ahead(what, v, t)'
    BY <2>4, <2>6 DEF Ahead
  <2>7. sweep'.pc \in {"idle", "done"} => sweep'.todo = {}
    BY <2>4
  <2> QED
    BY <2>4, <2>5, <2>6, <2>7 DEF CompleteInv
<1>2. CASE ~StartSweep
  <2>1. PICK v : v = Current
    OBVIOUS
  <2>2. /\ Sweeping /\ v \in Versions /\ v \in sweep.todo /\ Sweeps(v)
        /\ catalog[v] # NoDoc /\ lds[v] \in Trees /\ Remains(v) /\ Rests(v)
    BY <1>0, <1>2, <2>1, SweepDoes, InHandRemains DEF AllRest
  <2>3. PICK t \in Trees : t = lds[v]
    BY <2>2
  <2>4. Knows(v, t)
    BY <2>1, <2>2, <2>3 DEF SoundInv, InSweep
  \* Findings are kept, and a sweep that turns to the next version begins with dataset.json.
  <2>5. /\ sweep.findings \subseteq sweep'.findings /\ sweep'.old = sweep.old
        /\ sweep.blind \subseteq sweep'.blind
        /\ \/ Stays /\ sweep'.pc \notin {"idle", "done"}
           \/ /\ sweep'.todo = sweep.todo \ {v}
              /\ sweep'.pc = IF sweep'.todo = {} THEN "done" ELSE "dataset"
    <3>1. ASSUME NEW n \in SUBSET (Codes \X Versions), Turns(v, n)
          PROVE  /\ sweep'.findings = n /\ sweep'.old = sweep.old /\ sweep'.blind = sweep.blind
                 /\ sweep'.todo = sweep.todo \ {v}
                 /\ sweep'.pc = IF sweep'.todo = {} THEN "done" ELSE "dataset"
      <4>1. sweep.todo \ {v} \in SUBSET Versions
        BY <1>0
      <4> QED
        BY <3>1, <4>1, TurnFacts DEF Turns
    <3>2. \A code \in Codes : /\ Finds(v, code) \in SUBSET (Codes \X Versions)
                              /\ sweep.findings \subseteq Finds(v, code)
      BY <1>0, <2>2 DEF Finds
    <3>3. CASE sweep.pc = "dataset" /\ SweepsDataset(v)
      BY <3>1, <3>2, <3>3 DEF SweepsDataset, Stays, Codes
    <3>4. CASE sweep.pc = "seal" /\ SweepsSeal(v)
      BY <3>4 DEF SweepsSeal, Stays
    <3>5. CASE sweep.pc = "groups" /\ SweepsManifest(v)
      BY <3>2, <3>5 DEF SweepsManifest, Stays, Codes
    <3>6. CASE sweep.pc = "heads" /\ SweepsObject(v)
      BY <3>2, <3>6 DEF SweepsObject, Stays, Codes
    <3>7. CASE sweep.pc = "groups" /\ SweepsCrcs(v)
      BY <1>0, <3>1, <3>2, <3>7 DEF SweepsCrcs, Codes
    <3> QED
      BY <2>2, <3>3, <3>4, <3>5, <3>6, <3>7 DEF Sweeps
  <2>6. sweep'.pc \in {"idle", "done"} => sweep'.todo = {}
    BY <2>5
  <2>7. Stays => Current' = v
    BY <2>1 DEF Stays, Current
  <2>8. ASSUME NEW what \in Decays, NEW w \in Versions, NEW u \in Trees,
               <<what, w>> \in sweep.old, u = lds[w], ~Silent(what, w)', ~Reported(w)'
        PROVE  w \in sweep'.todo /\ (w = Current' => Ahead(what, w, u)')
    <3>0. ~Silent(what, w)
      BY <1>0, <2>5, <2>8 DEF Silent
    <3>1. w \in sweep.todo /\ (w = Current => Ahead(what, w, u))
      BY <2>5, <2>8, <3>0 DEF CompleteInv, Reported
    <3>2. CASE w = v
      <4>1. Had(what, v) /\ Ahead(what, v, t) /\ u = t
        BY <1>0, <2>1, <2>3, <2>8, <3>1, <3>2 DEF Had
      <4>2. Reported(v)' \/ Silent(what, v)' \/ (Stays /\ Ahead(what, v, t)')
        BY <2>2, <2>3, <2>4, <2>8, <3>0, <3>2, <4>1, SweepNotices
      <4>3. Stays /\ Ahead(what, w, u)'
        BY <2>8, <3>2, <4>1, <4>2
      <4> QED
        BY <3>1, <4>3 DEF Stays
    <3>3. CASE w # v
      <4>1. CASE Stays
        BY <2>7, <3>1, <3>3, <4>1 DEF Stays
      <4>2. CASE ~Stays
        <5>1. w \in sweep'.todo /\ sweep'.pc = "dataset"
          BY <2>5, <3>1, <3>3, <4>2
        <5> QED
          BY <5>1 DEF Ahead
      <4> QED
        BY <4>1, <4>2
    <3> QED
      BY <3>2, <3>3
  <2> QED
    BY <1>0, <2>5, <2>6, <2>8 DEF CompleteInv
<1> QED
  BY <1>1, <1>2

\* What goes on meanwhile takes nothing from what the sweep will come across.
LEMMA WorldComplete ==
    ASSUME ~Overlap, ~Expiry, Named = {}, Order, AllRemains, AllRest, SweepGood, CompleteInv,
           ([Next]_vars /\ UNCHANGED decays) \/ DecayNext, UNCHANGED sweep
    PROVE  CompleteInv'
<1>0. /\ JobGood /\ sweep.old \subseteq decays /\ decays \subseteq decays'
  BY DecaysOnce DEF Order, JobInv, SweepGood, OneDecay
<1>1. \A what, v : Silent(what, v) => Silent(what, v)'
  BY <1>0 DEF Silent
<1>2. ASSUME NEW what \in Decays, NEW v \in Versions, NEW t \in Trees,
             <<what, v>> \in sweep.old, t = lds'[v], ~Silent(what, v)'
      PROVE  t = lds[v] /\ (Ahead(what, v, t) => Ahead(what, v, t)')
  <2>1. Had(what, v) /\ Old(v) /\ catalog[v] # NoDoc /\ Remains(v)
    BY <1>0, <1>2 DEF AllRest, AllRemains, Rests, Had, Old
  <2>2. lds[v] = t /\ LeftOf(v, t)
    BY <1>2, <2>1, WorldRemains DEF AllRemains, Remains
  <2>3. ASSUME NEW f \in NamesIn(t), Spoilt(what, v, t, f) PROVE Spoilt(what, v, t, f)'
    <3>1. CASE Still(v)
      BY <2>3, <3>1 DEF Still, Spoilt
    <3>2. CASE DecayNext
      <4>1. PICK w \in Versions, next \in Decays : OneDecay(next, w)
        BY <1>0, <3>2, DecaysOnce
      <4>2. CASE w = v
        BY <2>1, <2>2, <2>3, <4>1, <4>2, SpoiltStays
      <4>3. CASE w # v
        BY <3>1, <4>1, <4>3 DEF OneDecay
      <4> QED
        BY <4>2, <4>3
    <3> QED
      BY <2>1, <3>1, <3>2, OldIsStill
  <2>4. ASSUME NEW g \in Groups, dman[v][g] = NoDoc PROVE dman'[v][g] = NoDoc
    <3>1. CASE Still(v)
      BY <2>4, <3>1 DEF Still
    <3>2. CASE DecayNext
      <4>1. PICK w \in Versions, next \in Decays : OneDecay(next, w)
        BY <1>0, <3>2, DecaysOnce
      <4>2. CASE w = v
        BY <2>4, <4>1, <4>2 DEF OneDecay, Wears
      <4>3. CASE w # v
        BY <3>1, <4>1, <4>3 DEF OneDecay
      <4> QED
        BY <4>2, <4>3
    <3> QED
      BY <2>1, <3>1, <3>2, OldIsStill
  <2>5. /\ ToCheck' = ToCheck /\ ToCheck \subseteq Groups
        /\ \A f : ToHead(f)' <=> ToHead(f)
    BY DEF ToCheck, ToHead, SweepGood, SweepStates
  <2> QED
    BY <2>2, <2>3, <2>4, <2>5 DEF Ahead, Referenced
<1>3. Current' = Current /\ \A v : Reported(v)' <=> Reported(v)
  BY DEF Current, Reported
<1> QED
  BY <1>1, <1>2, <1>3 DEF CompleteInv

\* Nothing is missed: where besides nobody names a prefix by hand, a sweep that ends has a finding
\* about every version that had decayed when it began, except for what it leaves to the readers,
\* although publications, promotions and further decays go on while it runs.
THEOREM SweepIsComplete ==
    ASSUME ~Overlap, ~Expiry, Named = {} PROVE FsckSpec => []SweepComplete
<1>1. FsckInit => AllRest /\ SweepGood /\ SoundInv /\ CompleteInv
  <2>1. FsckInit => AllRest
    BY DEF FsckInit, AllRest, Rests, Init, BucketsInit, Had, OfObjects, Decays, Codes
  <2>2. FsckInit => NewSweep \in SweepStates /\ sweep = NewSweep /\ decays = {}
    BY TreeFacts DEF FsckInit, NewSweep, SweepStates, FsckPhases, Docs
  <2>3. FsckInit => SweepGood
    BY <2>2 DEF SweepGood, Sweeping, NewSweep
  <2>4. FsckInit => SoundInv /\ CompleteInv
    BY <2>2 DEF SoundInv, SweepSound, InSweep, Sweeping, CompleteInv, NewSweep
  <2> QED
    BY <2>1, <2>3, <2>4
<1>2. Order /\ AllRemains /\ AllRest /\ SweepGood /\ SoundInv /\ CompleteInv /\ [FsckNext]_fsckVars
        => AllRest' /\ SweepGood' /\ SoundInv' /\ CompleteInv'
  <2> SUFFICES ASSUME Order, AllRemains, AllRest, SweepGood, SoundInv, CompleteInv,
                      [FsckNext]_fsckVars
               PROVE  AllRest' /\ SweepGood' /\ SoundInv' /\ CompleteInv'
    OBVIOUS
  <2>1. AllRest' /\ SweepGood'
    BY FsckRest, SweepKeepsGood
  <2>2. SoundInv'
    BY SweepStepSound, WorldSound, SweepStepsOnly
  <2>3. CompleteInv'
    BY SweepStepComplete, WorldComplete, SweepStepsOnly
  <2> QED
    BY <2>1, <2>2, <2>3
<1>3. Order /\ AllRemains /\ AllRest /\ SweepGood /\ CompleteInv => SweepComplete
  <2> SUFFICES ASSUME Order, AllRemains, AllRest, SweepGood, CompleteInv, sweep.pc = "done",
                      NEW what \in Decays, NEW v \in Versions, <<what, v>> \in sweep.old
               PROVE  Silent(what, v) \/ Reported(v)
    BY DEF SweepComplete, Reported
  <2>1. catalog[v] # NoDoc /\ Remains(v)
    BY DEF SweepGood, AllRest, AllRemains, Rests, Had, Old
  <2>2. PICK t \in Trees : t = lds[v]
    BY <2>1 DEF Remains, Whole
  <2> QED
    BY <2>2 DEF CompleteInv
<1> QED
  BY <1>1, <1>2, <1>3, FsckOrder, PTL DEF FsckSpec, fsckVars
=============================================================================
