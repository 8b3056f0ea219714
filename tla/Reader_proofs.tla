---------------------------- MODULE Reader_proofs ----------------------------
(***************************************************************************)
(* Theorems about a consumer that reads the data bucket while producers    *)
(* and jobs are at work and old versions decay, where publications do not  *)
(* overlap.                                                                *)
(***************************************************************************)
EXTENDS Reader, Shelf_proofs

readerVars == <<vars, decays, reader>>

-----------------------------------------------------------------------------
(* The world around the reader. *)

\* A step of the reader, or none, is a stutter of the airlock.
LEMMA ReaderStepsOnly ==
    ASSUME [ReaderNext]_readerVars
    PROVE  \/ [Next]_vars /\ UNCHANGED <<decays, reader>>
           \/ DecayNext /\ UNCHANGED reader
           \/ (Ask \/ ReaderStep) /\ UNCHANGED <<vars, decays>>
  BY DEF ReaderNext, readerVars

\* The buckets stay in order under a reader.
LEMMA ReaderOrder ==
    ASSUME ~Overlap, Order, [ReaderNext]_readerVars PROVE Order'
<1>1. CASE [Next]_vars
  BY <1>1, NextOrder
<1>2. CASE DecayNext
  BY <1>2, DecaysOnce, DecayOrder DEF Order, JobInv
<1> QED
  BY <1>1, <1>2, ReaderStepsOnly

\* So the order of documents holds in the company of readers.
LEMMA OrderInvariance == ASSUME ~Overlap PROVE ReaderSpec => []Order
<1>1. ReaderInit => Order
  BY InitOrder DEF ReaderInit
<1>2. Order /\ [ReaderNext]_readerVars => Order'
  BY ReaderOrder
<1> QED
  BY <1>1, <1>2, PTL DEF ReaderSpec, readerVars

\* A sealed version that is still makes the same claim.
LEMMA StillClaimsTheSame ==
    ASSUME NEW v \in Versions, Sealed(v), Still(v) PROVE SameClaim(seal[v], seal'[v])
  BY DEF Still, SealKept, Claims, CrcsOf, NamesIn, Sealed, SameClaim

\* Frozen means frozen: where publications do not overlap, no step of a producer, a job or the
\* lifecycle rule changes anything under a sealed version but the CRCs of its seal, whatever the
\* job read before the seal appeared and whatever decayed.
THEOREM SealedStaysFrozen == ASSUME ~Overlap PROVE ReaderSpec => Frozen
<1>1. Order /\ [ReaderNext]_readerVars => (decays' = decays => Freezes) \/ UNCHANGED readerVars
  <2> SUFFICES ASSUME Order, [ReaderNext]_readerVars, decays' = decays PROVE Freezes
    OBVIOUS
  <2>1. JobGood /\ JobGood'
    BY ReaderOrder DEF Order, JobInv
  <2>2. CASE [Next]_vars
    <3>1. OnePlaceMoves
      BY <2>2, NextOrder
    <3> QED
      BY <2>1, <3>1, SealedIsStill, StillClaimsTheSame DEF Still, Freezes
  <2>3. CASE DecayNext
    BY <2>1, <2>3, DecaysOnce DEF OneDecay
  <2> QED
    BY <2>2, <2>3, ReaderStepsOnly
<1> QED
  BY <1>1, OrderInvariance, PTL DEF ReaderSpec, Frozen, readerVars

-----------------------------------------------------------------------------
(* The reader. *)

\* The records a reader goes through.  Before it asks it has no group.
Asked == reader.pc # "ask"

ReaderGood ==
    /\ IF Asked THEN reader \in ReaderStates /\ reader.ver \in Versions ELSE reader = NewReader
    /\ reader.pc = "chain" => reader.ds \in Trees
    /\ reader.pc = "payload" => reader.man \in Trees
    /\ decays \subseteq Decays \X Versions
    /\ reader.old \subseteq decays

\* A reader begins with a question.
LEMMA InitReaderGood == ReaderInit => ReaderGood
  BY DEF ReaderInit, ReaderGood, Asked, NewReader

\* What a reader that asks begins with.
LEMMA AskIsFresh ==
    ASSUME JobGood, ReaderGood, Ask
    PROVE  /\ reader' \in ReaderStates /\ reader'.pc = "require" /\ reader'.ver \in Versions
           /\ reader'.old = decays
<1>1. PICK v \in Versions, g \in Groups :
        reader' = [NewReader EXCEPT !.ver = v, !.group = g, !.pc = "require", !.old = decays]
  BY DEF Ask
<1>2. reader' = [pc |-> "require", ver |-> v, seal |-> NoDoc, ds |-> NoDoc, todo |-> {},
                 problems |-> FALSE, group |-> g, man |-> NoDoc, got |-> Empty, old |-> decays]
  BY <1>1 DEF NewReader
<1> QED
  BY <1>2, TreeFacts, BucketsAssumption
  DEF ReaderGood, ReaderStates, ReaderPhases, Docs, Versions

\* What each step of the reader does with what is at its version: the phase it ends in, and what
\* it has learnt.
Learns(v) ==
    /\ reader.pc \in {"require", "seal", "root", "chain", "dataset", "manifest", "payload"}
    /\ reader.pc = "require" => reader'.pc = IF Sealed(v) THEN "seal" ELSE "refused"
    /\ reader.pc = "seal" => IF Sealed(v) THEN reader'.pc = "root" /\ reader'.seal = seal[v]
                             ELSE reader'.pc = "refused"
    /\ reader.pc = "root" =>
          IF dds[v] = NoDoc THEN reader'.pc = "mismatch"
          ELSE /\ reader'.pc = "chain" /\ reader'.ds = dds[v] /\ dds[v] \in Trees
               /\ reader'.todo = GroupsIn(dds[v])
               /\ reader'.problems = (dds[v] # reader.seal.root)
    /\ reader.pc = "chain" =>
          \/ /\ reader'.pc = "chain" /\ reader'.ds = reader.ds
             /\ \E g \in reader.todo :
                   /\ g \in Groups /\ reader'.todo = reader.todo \ {g}
                   /\ reader'.problems =
                         \/ reader.problems
                         \/ dman[v][g] # Part(reader.ds, g)
                         \/ /\ g \in GroupsIn(reader.seal.pinned)
                            /\ dman[v][g] # Part(reader.seal.pinned, g)
          \/ /\ reader.todo = {} /\ reader'.ds = reader.ds
             /\ reader'.pc = IF reader.problems THEN "mismatch" ELSE "dataset"
    /\ reader.pc = "dataset" =>
          reader'.pc = IF dds[v] = NoDoc THEN "lost"
                       ELSE IF reader.group \in GroupsIn(dds[v]) THEN "manifest" ELSE "refused"
    /\ reader.pc = "manifest" =>
          IF dman[v][reader.group] = NoDoc THEN reader'.pc = "lost"
          ELSE reader'.pc = "payload" /\ reader'.man = dman[v][reader.group]
    /\ reader.pc = "payload" =>
          /\ reader'.man = reader.man
          /\ \/ /\ reader'.pc = "served" /\ NamesIn(reader.man) \subseteq NamesIn(reader.got)
                /\ reader'.got = reader.got
             \/ \E f \in NamesIn(reader.man) \ NamesIn(reader.got) :
                   IF dobj[v][f] = Absent THEN reader'.pc = "lost"
                   ELSE /\ reader'.pc = "payload"
                        /\ reader'.got = [reader.got EXCEPT ![f] = dobj[v][f]]

\* What a reader knows after a request, whichever it is.
LEMMA ReaderLearns ==
    ASSUME JobGood, ReaderGood, ReaderStep, NEW v, v = reader.ver
    PROVE  /\ Asked /\ v \in Versions /\ reader' \in ReaderStates /\ reader'.pc # "ask"
           /\ reader'.ver = v /\ reader'.group = reader.group /\ reader'.old = reader.old
           /\ reader.pc # "seal" => reader'.seal = reader.seal
           /\ reader.pc # "payload" => reader'.got = reader.got
           /\ Learns(v)
<1> USE DEF Learns
<1>0. /\ DataTypeOK
      /\ Asked => reader \in ReaderStates /\ v \in Versions
  BY DEF JobGood, ReaderGood
<1>1. CASE Require
  BY <1>0, <1>1 DEF Require, Asked, ReaderStates, ReaderPhases, Sealed
<1>2. CASE GetSeal
  BY <1>0, <1>2 DEF GetSeal, Asked, ReaderStates, ReaderPhases, Sealed, DataTypeOK
<1>3. CASE GetRoot
  <2>1. PICK d : d = dds[v]
    OBVIOUS
  <2>2. Asked /\ reader.pc = "root" /\ d \in Docs
    BY <1>0, <1>3, <2>1 DEF GetRoot, Asked, DataTypeOK
  <2>3. CASE d = NoDoc
    BY <1>0, <1>3, <2>1, <2>2, <2>3 DEF GetRoot, ReaderStates, ReaderPhases
  <2>4. CASE d # NoDoc
    <3>1. d \in Trees /\ GroupsIn(d) \subseteq Groups
      BY <2>2, <2>4, TreeFacts DEF Docs
    <3>2. PICK b \in BOOLEAN : b = (d # reader.seal.root)
      OBVIOUS
    <3>3. reader' = [reader EXCEPT !.ds = d, !.todo = GroupsIn(d), !.pc = "chain", !.problems = b]
      BY <1>3, <2>1, <2>4, <3>2 DEF GetRoot
    <3> QED
      BY <1>0, <2>1, <2>2, <2>4, <3>1, <3>2, <3>3 DEF ReaderStates, ReaderPhases, Docs
  <2> QED
    BY <2>3, <2>4
<1>4. CASE GetChain
  <2>1. Asked /\ reader.pc = "chain" /\ reader.todo # {} /\ reader.todo \subseteq Groups
    BY <1>0, <1>4 DEF GetChain, Asked, ReaderStates
  <2>2. PICK g \in reader.todo : g = Min(reader.todo) /\ g \in Groups
    BY <2>1, MinOfGroups
  <2>3. PICK b \in BOOLEAN : b = (\/ reader.problems
                                  \/ dman[v][g] # Part(reader.ds, g)
                                  \/ /\ g \in GroupsIn(reader.seal.pinned)
                                     /\ dman[v][g] # Part(reader.seal.pinned, g))
    OBVIOUS
  <2>4. reader' = [reader EXCEPT !.todo = @ \ {g}, !.problems = b]
    BY <1>4, <2>2, <2>3 DEF GetChain
  <2> QED
    BY <1>0, <2>1, <2>2, <2>3, <2>4 DEF ReaderStates, ReaderPhases
<1>5. CASE Verified
  BY <1>0, <1>5 DEF Verified, Asked, ReaderStates, ReaderPhases
<1>6. CASE GetDataset
  BY <1>0, <1>6 DEF GetDataset, Asked, ReaderStates, ReaderPhases, DataTypeOK
<1>7. CASE GetManifest
  <2>1. Asked /\ reader.pc = "manifest" /\ reader.group \in Groups
    BY <1>0, <1>7 DEF GetManifest, Asked, ReaderStates
  <2>2. PICK m \in Docs : m = dman[v][reader.group]
    BY <1>0, <2>1 DEF DataTypeOK
  <2>3. reader' = IF m = NoDoc THEN [reader EXCEPT !.pc = "lost"]
                  ELSE [reader EXCEPT !.man = m, !.pc = "payload"]
    BY <1>7, <2>2 DEF GetManifest
  <2> QED
    BY <1>0, <2>1, <2>2, <2>3 DEF ReaderStates, ReaderPhases
<1>8. CASE LoadPayload
  <2>1. Asked /\ reader.pc = "payload" /\ reader.got \in Trees
    BY <1>0, <1>8 DEF LoadPayload, Asked, ReaderStates
  <2>2. PICK left : left = NamesIn(reader.man) \ NamesIn(reader.got)
    OBVIOUS
  <2>3. CASE left = {}
    BY <1>0, <1>8, <2>1, <2>2, <2>3 DEF LoadPayload, ReaderStates, ReaderPhases
  <2>4. CASE left # {}
    <3>1. PICK f \in left : f = Min(left) /\ f \in Files
      BY <2>2, <2>4, MinOfFiles DEF NamesIn
    <3>2. dobj[v] \in Trees
      BY <1>0, <2>1 DEF DataTypeOK
    <3>3. CASE dobj[v][f] = Absent
      <4>1. reader' = [reader EXCEPT !.pc = "lost"]
        BY <1>8, <2>2, <2>4, <3>1, <3>3 DEF LoadPayload
      <4> QED
        BY <1>0, <2>1, <2>2, <3>1, <3>3, <4>1 DEF ReaderStates, ReaderPhases
    <3>4. CASE dobj[v][f] # Absent
      <4> DEFINE n == [reader.got EXCEPT ![f] = dobj[v][f]]
      <4>1. n \in Trees
        BY <2>1, <3>1, <3>2 DEF Trees
      <4>2. reader' = [reader EXCEPT !.got = n]
        BY <1>8, <2>2, <2>4, <3>1, <3>4 DEF LoadPayload
      <4> HIDE DEF n
      <4>3. /\ reader' \in ReaderStates /\ reader'.pc = "payload" /\ reader'.got = n
            /\ reader'.ver = v /\ reader'.group = reader.group /\ reader'.old = reader.old
            /\ reader'.seal = reader.seal /\ reader'.man = reader.man
        BY <1>0, <2>1, <4>1, <4>2 DEF ReaderStates, ReaderPhases
      <4> QED
        BY <1>0, <2>1, <2>2, <3>1, <3>4, <4>3 DEF n
    <3> QED
      BY <3>3, <3>4
  <2> QED
    BY <2>3, <2>4
<1> QED
  BY <1>1, <1>2, <1>3, <1>4, <1>5, <1>6, <1>7, <1>8 DEF ReaderStep

\* So its record stays in order, whatever it finds.
LEMMA ReaderStaysGood ==
    ASSUME JobGood, ReaderGood, [ReaderNext]_readerVars PROVE ReaderGood'
<1>1. CASE [Next]_vars /\ UNCHANGED <<decays, reader>>
  BY <1>1 DEF ReaderGood, Asked
<1>2. CASE DecayNext /\ UNCHANGED reader
  <2>1. decays \subseteq decays' /\ decays' \subseteq Decays \X Versions
    <3>1. PICK w \in Versions, what \in Decays : decays' = decays \cup {<<what, w>>}
      BY <1>2, DecaysOnce DEF OneDecay
    <3> QED
      BY <3>1 DEF ReaderGood
  <2> QED
    BY <1>2, <2>1 DEF ReaderGood, Asked
<1>3. CASE Ask /\ UNCHANGED <<vars, decays>>
  BY <1>3, AskIsFresh DEF ReaderGood, Asked
<1>4. CASE ReaderStep /\ UNCHANGED <<vars, decays>>
  <2>1. /\ reader' \in ReaderStates /\ reader'.ver \in Versions /\ reader'.old = reader.old
        /\ reader'.pc # "ask"
        /\ reader'.pc = "chain" => reader'.ds \in Trees
    BY <1>4, ReaderLearns DEF ReaderGood, Learns
  <2>2. reader'.pc = "payload" => reader'.man \in Trees
    <3>1. reader.pc = "manifest" => dman[reader.ver][reader.group] \in Docs
      BY DEF JobGood, DataTypeOK, ReaderGood, Asked, ReaderStates
    <3> QED
      BY <1>4, <3>1, ReaderLearns DEF ReaderGood, Docs, Learns
  <2> QED
    BY <1>4, <2>1, <2>2 DEF ReaderGood, Asked
<1> QED
  BY <1>1, <1>2, <1>3, <1>4, ReaderStepsOnly

-----------------------------------------------------------------------------
(* A reader of what did not decay. *)

Fresh(v) == \A what \in Decays : ~Had(what, v)

\* What did not decay is as Gate A passed it, if it is sealed.
FreshIsShown == \A v \in Versions : Fresh(v) => Shown(v)

\* A reader of such a version has found, so far, what is there, and nothing wrong.
Undisturbed ==
    Asked /\ Fresh(reader.ver) =>
        /\ reader.pc \notin {"mismatch", "lost"}
        /\ reader.pc \in {"seal", "root", "chain", "dataset", "manifest", "payload", "served"}
              => Sealed(reader.ver)
        /\ reader.pc \in {"root", "chain"} => Claims(reader.seal, dds[reader.ver])
        /\ reader.pc = "chain" => /\ reader.ds = dds[reader.ver] /\ ~reader.problems
                                  /\ reader.todo \subseteq GroupsIn(dds[reader.ver])
        /\ reader.pc = "manifest" => reader.group \in GroupsIn(dds[reader.ver])
        /\ reader.pc = "payload" => reader.man = Part(dds[reader.ver], reader.group)

\* What did not decay stays shown, and sealed versions of it stay.
LEMMA FreshStays ==
    ASSUME ~Overlap, Order, FreshIsShown,
           ([Next]_vars /\ UNCHANGED decays) \/ DecayNext
    PROVE  /\ FreshIsShown'
           /\ \A v \in Versions : Fresh(v)' => Fresh(v) /\ (Sealed(v) => Still(v))
<1>0. JobGood
  BY DEF Order, JobInv
<1>1. CASE [Next]_vars /\ UNCHANGED decays
  <2>1. OnePlaceMoves /\ JobGood'
    BY <1>1, NextOrder DEF Order, JobInv
  <2>2. \A v \in Versions : (Fresh(v)' <=> Fresh(v)) /\ (Sealed(v) => Still(v))
    BY <1>0, <1>1, <2>1, SealedIsStill DEF Fresh, Had
  <2>3. ASSUME NEW v \in Versions, Fresh(v)' PROVE Shown(v)'
    <3>1. CASE Sealed(v)
      BY <2>2, <2>3, <3>1, StaysShown DEF FreshIsShown
    <3>2. CASE ~Sealed(v)
      BY <2>1, <3>2, NewSealIsShown DEF Shown
    <3> QED
      BY <3>1, <3>2
  <2> QED
    BY <2>2, <2>3 DEF FreshIsShown
<1>2. CASE DecayNext
  <2>1. PICK w \in Versions, what \in Decays : OneDecay(what, w)
    BY <1>0, <1>2, DecaysOnce
  <2>2. \A v \in Versions : Fresh(v)' => Fresh(v) /\ v # w
    BY <2>1 DEF OneDecay, Fresh, Had
  <2>3. \A v \in Versions : Fresh(v)' => Still(v)
    BY <2>1, <2>2 DEF OneDecay
  <2>4. \A v \in Versions : Fresh(v)' => Shown(v)'
    BY <2>2, <2>3, StaysShown DEF FreshIsShown
  <2> QED
    BY <2>2, <2>3, <2>4 DEF FreshIsShown
<1> QED
  BY <1>1, <1>2

\* So the reader finds nothing wrong.
LEMMA NothingWrong ==
    ASSUME JobGood, ReaderGood, FreshIsShown, Undisturbed, ReaderStep, UNCHANGED <<vars, decays>>
    PROVE  Undisturbed'
<1>1. PICK v : v = reader.ver
  OBVIOUS
<1>2. /\ v \in Versions /\ reader'.ver = v /\ Asked /\ Asked' /\ reader'.group = reader.group
      /\ (Fresh(v)' <=> Fresh(v)) /\ (Sealed(v)' <=> Sealed(v))
      /\ dds' = dds /\ seal' = seal /\ reader.group \in Groups
      /\ reader.todo \subseteq Groups
  BY <1>1, ReaderLearns DEF vars, dataVars, Fresh, Had, Sealed, Asked, ReaderGood, ReaderStates
<1> SUFFICES ASSUME Fresh(v)
             PROVE  /\ reader'.pc \notin {"mismatch", "lost"}
                    /\ reader'.pc \in {"seal", "root", "chain", "dataset", "manifest", "payload",
                                       "served"} => Sealed(v)
                    /\ reader'.pc \in {"root", "chain"} => Claims(reader'.seal, dds[v])
                    /\ reader'.pc = "chain" => /\ reader'.ds = dds[v] /\ ~reader'.problems
                                               /\ reader'.todo \subseteq GroupsIn(dds[v])
                    /\ reader'.pc = "manifest" => reader.group \in GroupsIn(dds[v])
                    /\ reader'.pc = "payload" => reader'.man = Part(dds[v], reader.group)
  BY <1>2 DEF Undisturbed, Claims, CrcsOf
<1>3. PICK d : d = dds[v]
  OBVIOUS
<1>4. /\ reader.pc \notin {"mismatch", "lost"}
      /\ reader.pc \in {"seal", "root", "chain", "dataset", "manifest", "payload", "served"}
            => Sealed(v)
      /\ reader.pc \in {"root", "chain"} => Claims(reader.seal, d)
      /\ reader.pc = "chain" => reader.ds = d /\ ~reader.problems /\ reader.todo \subseteq GroupsIn(d)
      /\ reader.pc = "manifest" => reader.group \in GroupsIn(d)
      /\ reader.pc = "payload" => reader.man = Part(d, reader.group)
  BY <1>1, <1>2, <1>3 DEF Undisturbed
<1>5. Sealed(v) => /\ d \in Trees /\ d # NoDoc /\ Claims(seal[v], d)
                   /\ \A g \in GroupsIn(d) : dman[v][g] = Part(d, g) /\ Part(d, g) # NoDoc
                   /\ \A f \in NamesIn(d) : dobj[v][f] = d[f] /\ d[f] # Absent
  <2> SUFFICES ASSUME Sealed(v)
               PROVE  /\ d \in Trees /\ d # NoDoc /\ Claims(seal[v], d)
                      /\ \A g \in GroupsIn(d) : dman[v][g] = Part(d, g) /\ Part(d, g) # NoDoc
                      /\ \A f \in NamesIn(d) : dobj[v][f] = d[f] /\ d[f] # Absent
    OBVIOUS
  <2>1. Shelved(v, d) /\ d \in Trees
    BY <1>2, <1>3 DEF FreshIsShown, Shown
  <2>2. \A g \in GroupsIn(d) : Part(d, g) # NoDoc
    BY <2>1, TreeFacts, BucketsAssumption
  <2> QED
    BY <2>1, <2>2, BucketsAssumption DEF Shelved, NamesIn
<1>6. NamesIn(Part(d, reader.group)) \subseteq NamesIn(d)
  BY DEF NamesIn, Part
<1>11. Learns(v) /\ (reader.pc # "seal" => reader'.seal = reader.seal)
  BY <1>1, ReaderLearns
<1>7. CASE reader.pc \in {"require", "seal", "root"}
  BY <1>2, <1>3, <1>4, <1>5, <1>7, <1>11 DEF Learns, Claims
<1>8. CASE reader.pc = "chain"
  <2>1. /\ reader.ds = d /\ ~reader.problems /\ reader.todo \subseteq GroupsIn(d) /\ Sealed(v)
        /\ Claims(reader.seal, d) /\ reader.seal.pinned = d
        /\ \A g \in GroupsIn(d) : dman[v][g] = Part(d, g)
    BY <1>4, <1>5, <1>8 DEF Claims
  <2>2. CASE reader.todo = {} /\ reader'.pc = IF reader.problems THEN "mismatch" ELSE "dataset"
    BY <2>1, <2>2
  <2>3. CASE reader'.pc = "chain" /\ reader'.ds = reader.ds
    <3>1. PICK g \in reader.todo :
             /\ reader'.todo = reader.todo \ {g}
             /\ reader'.problems = \/ reader.problems
                                   \/ dman[v][g] # Part(reader.ds, g)
                                   \/ /\ g \in GroupsIn(reader.seal.pinned)
                                      /\ dman[v][g] # Part(reader.seal.pinned, g)
      BY <1>8, <1>11, <2>3 DEF Learns
    <3>2. ~reader'.problems
      BY <2>1, <3>1
    <3> QED
      BY <1>3, <1>8, <1>11, <2>1, <2>3, <3>1, <3>2
  <2> QED
    BY <1>8, <1>11, <2>2, <2>3 DEF Learns
<1>9. CASE reader.pc \in {"dataset", "manifest"}
  BY <1>2, <1>3, <1>4, <1>5, <1>9, <1>11 DEF Learns
<1>10. CASE reader.pc = "payload"
  <2>1. reader.man = Part(d, reader.group) /\ Sealed(v) /\ reader'.man = reader.man
    BY <1>4, <1>10, <1>11 DEF Learns
  <2>2. \A f \in NamesIn(reader.man) : dobj[v][f] # Absent
    BY <1>5, <1>6, <2>1
  <2>3. reader'.pc \in {"served", "payload"}
    BY <1>10, <1>11, <2>2 DEF Learns
  <2> QED
    BY <1>3, <2>1, <2>3
<1> QED
  BY <1>7, <1>8, <1>9, <1>10, <1>11 DEF Learns

\* A reader of a dataset that did not decay is never told that it was altered, and never finds a
\* document or an object missing, at whatever moment of a promotion it asks: where publications
\* do not overlap, with any number of jobs, crashes and prefixes named by hand.
THEOREM ReaderIsNotAlarmed == ASSUME ~Overlap PROVE ReaderSpec => []NoFalseAlarm
<1> DEFINE IR == ReaderGood /\ FreshIsShown /\ Undisturbed
<1>1. ReaderInit => IR
  <2> SUFFICES ASSUME ReaderInit PROVE IR
    OBVIOUS
  <2>1. \A v \in Versions : Shown(v)
    BY InitShelf DEF ReaderInit, ShelfInv
  <2>2. ~Asked
    BY DEF ReaderInit, NewReader, Asked
  <2> QED
    BY <2>1, <2>2, InitReaderGood DEF FreshIsShown, Undisturbed
<1>2. Order /\ IR /\ [ReaderNext]_readerVars => IR'
  <2> SUFFICES ASSUME Order, IR, [ReaderNext]_readerVars PROVE IR'
    OBVIOUS
  <2>0. JobGood /\ ReaderGood'
    BY ReaderStaysGood DEF Order, JobInv
  <2>1. CASE (([Next]_vars /\ UNCHANGED decays) \/ DecayNext) /\ UNCHANGED reader
    <3>1. /\ FreshIsShown'
          /\ \A v \in Versions : Fresh(v)' => Fresh(v) /\ (Sealed(v) => Still(v))
      BY <2>1, FreshStays
    <3>2. Undisturbed'
      <4>1. CASE ~Asked
        BY <2>1, <4>1 DEF Undisturbed, Asked
      <4>2. CASE Asked
        <5>1. reader' = reader /\ reader.ver \in Versions
          BY <2>1, <4>2 DEF ReaderGood
        <5> QED
          BY <3>1, <4>2, <5>1 DEF Undisturbed, Asked, Still, Sealed, SealKept, Claims, CrcsOf
      <4> QED
        BY <4>1, <4>2
    <3> QED
      BY <2>0, <3>1, <3>2
  <2>2. CASE (Ask \/ ReaderStep) /\ UNCHANGED <<vars, decays>>
    <3>1. FreshIsShown'
      BY <2>2 DEF FreshIsShown, Fresh, Had, Shown, Shelved, Claims, CrcsOf, Sealed, Passes,
                      PassesGroup, vars, dataVars
    <3>2. CASE Ask
      <4>1. reader'.pc = "require"
        BY <2>0, <3>2, AskIsFresh
      <4> QED
        BY <2>0, <3>1, <4>1 DEF Undisturbed
    <3>3. CASE ReaderStep
      BY <2>0, <2>2, <3>1, <3>3, NothingWrong
    <3> QED
      BY <2>2, <3>2, <3>3
  <2> QED
    BY <2>1, <2>2, ReaderStepsOnly
<1>3. IR => NoFalseAlarm
  BY DEF Undisturbed, NoFalseAlarm, Happened, Fresh, Had, Asked
<1> QED
  BY <1>1, <1>2, <1>3, OrderInvariance, PTL DEF ReaderSpec, readerVars

-----------------------------------------------------------------------------
(* What a reader is served. *)

\* The documents under v, or what is left of them, are those of the tree t.
Genuine(v, t, groups) ==
    /\ dds[v] \in {t, NoDoc}
    /\ \A g \in groups : dman[v][g] \in {Part(t, g), NoDoc}

\* What a reader of t, under v, has loaded.
Loads(v, t) ==
    \A f \in NamesIn(reader.got) :
        /\ f \in NamesIn(Part(t, reader.group))
        /\ \/ reader.got[f] = t[f]
           \/ Had("object-content-changed", v) \/ Had("object-resized", v)

\* What a reader knows from the seal on, unless a document was rewritten since it asked.
Reads(v, t) ==
    /\ catalog[v] # NoDoc
    /\ Claims(reader.seal, t)
    /\ ~Happened(Rewritten, decays \ reader.old) =>
          /\ reader.pc = "chain" /\ ~reader.problems =>
                reader.ds = t /\ Genuine(v, t, GroupsIn(t) \ reader.todo)
          /\ reader.pc \in {"dataset", "manifest", "payload", "served"} =>
                Genuine(v, t, GroupsIn(t))
          /\ reader.pc = "manifest" => reader.group \in GroupsIn(t)
          /\ reader.pc \in {"payload", "served"} => reader.man = Part(t, reader.group) /\ Loads(v, t)
          /\ reader.pc = "served" => NamesIn(reader.man) \subseteq NamesIn(reader.got)

FromTheSealOn == {"root", "chain", "dataset", "manifest", "payload", "served"}

ReadsTheSealed ==
    /\ Asked /\ reader.pc \notin {"payload", "served", "lost"} => reader.got = Empty
    /\ reader.pc \in FromTheSealOn => Reads(reader.ver, lds[reader.ver])

\* The world does not disturb it.
LEMMA ReadsOn ==
    ASSUME ~Overlap, ~Expiry, Order, \A v \in Versions : Remains(v), ReaderGood, ReadsTheSealed,
           ([Next]_vars /\ UNCHANGED decays) \/ DecayNext, UNCHANGED reader
    PROVE  ReadsTheSealed'
<1> SUFFICES ASSUME reader.pc \in FromTheSealOn
             PROVE  Reads(reader.ver, lds[reader.ver])'
  BY DEF ReadsTheSealed, Asked
<1>1. PICK v \in Versions : v = reader.ver
  BY DEF ReaderGood, Asked, FromTheSealOn
<1>2. PICK t : t = lds[v]
  OBVIOUS
<1>3. Reads(v, t) /\ reader' = reader
  BY <1>1, <1>2 DEF ReadsTheSealed
<1>4. /\ Remains(v)' /\ decays \subseteq decays'
      /\ catalog'[v] # NoDoc /\ lds'[v] = t /\ t \in Trees
      /\ NotRewritten(v) =>
            /\ dds'[v] \in {dds[v], t, NoDoc}
            /\ \A g \in GroupsIn(t) : dman'[v][g] \in {dman[v][g], Part(t, g), NoDoc}
  BY <1>2, <1>3, WorldRemains DEF Reads
<1>5. ~Happened(Rewritten, decays \ reader.old)' =>
         ~Happened(Rewritten, decays \ reader.old) /\ NotRewritten(v)
  BY <1>1, <1>3, <1>4 DEF Happened, NotRewritten, Had, ReaderGood
<1>6. Loads(v, t) => Loads(v, t)'
  BY <1>3, <1>4 DEF Loads, Had
<1>7. Reads(v, t)'
  BY <1>3, <1>4, <1>5, <1>6 DEF Reads, Genuine, Claims, CrcsOf
<1> QED
  BY <1>1, <1>3, <1>4, <1>7

\* A step of the reader keeps to it.
LEMMA ReadsNext ==
    ASSUME JobGood, ReaderGood, \A v \in Versions : Remains(v), ReadsTheSealed,
           ReaderStep, UNCHANGED <<vars, decays>>
    PROVE  ReadsTheSealed'
<1>1. PICK v : v = reader.ver
  OBVIOUS
<1>2. /\ v \in Versions /\ Asked /\ reader' \in ReaderStates /\ reader \in ReaderStates
      /\ reader'.ver = v /\ reader'.group = reader.group /\ reader'.old = reader.old
      /\ reader.pc # "seal" => reader'.seal = reader.seal
      /\ reader.pc # "payload" => reader'.got = reader.got
      /\ Learns(v) /\ reader.group \in Groups
  BY <1>1, ReaderLearns DEF ReaderGood, ReaderStates
<1>3. PICK t : t = lds[v]
  OBVIOUS
<1>4. /\ dds' = dds /\ dman' = dman /\ dobj' = dobj /\ catalog' = catalog /\ lds' = lds
      /\ decays' = decays /\ Remains(v)
  BY <1>2 DEF vars, dataVars, landingVars
<1>5. reader'.pc \notin {"payload", "served", "lost"} => reader'.got = Empty
  BY <1>2 DEF ReadsTheSealed, Learns
<1>6. Happened(Rewritten, decays \ reader.old)' <=> Happened(Rewritten, decays \ reader.old)
  BY <1>1, <1>2, <1>4 DEF Happened
<1>7. ASSUME reader'.pc \in FromTheSealOn PROVE Reads(v, t)'
  <2>1. CASE reader.pc = "seal"
    <3>1. Sealed(v) /\ reader'.seal = seal[v] /\ reader'.pc = "root"
      BY <1>2, <1>7, <2>1 DEF Learns, FromTheSealOn
    <3>2. catalog[v] # NoDoc /\ Claims(seal[v], t)
      BY <1>3, <1>4, <3>1 DEF Remains
    <3> QED
      BY <1>4, <3>1, <3>2 DEF Reads, Claims, CrcsOf
  <2>2. CASE reader.pc \in FromTheSealOn
    <3>0. Reads(v, t) /\ reader'.seal = reader.seal /\ reader.seal.root = t
      <4>1. Reads(v, t) /\ reader'.seal = reader.seal
        BY <1>1, <1>2, <1>3, <2>2 DEF ReadsTheSealed, FromTheSealOn
      <4> QED
        BY <4>1 DEF Reads, Claims
    <3>00. t \in Trees /\ LeftOf(v, t)
      BY <1>3, <1>4, <3>0 DEF Reads, Remains, Whole
    <3> SUFFICES ASSUME ~Happened(Rewritten, decays \ reader.old)
                 PROVE
          /\ reader'.pc = "chain" /\ ~reader'.problems =>
                reader'.ds = t /\ Genuine(v, t, GroupsIn(t) \ reader'.todo)
          /\ reader'.pc \in {"dataset", "manifest", "payload", "served"} =>
                Genuine(v, t, GroupsIn(t))
          /\ reader'.pc = "manifest" => reader.group \in GroupsIn(t)
          /\ reader'.pc \in {"payload", "served"} =>
                reader'.man = Part(t, reader.group) /\ Loads(v, t)'
          /\ reader'.pc = "served" => NamesIn(reader'.man) \subseteq NamesIn(reader'.got)
      BY <1>2, <1>4, <1>6, <3>0 DEF Reads, Genuine, Claims, CrcsOf
    <3>1. CASE reader.pc = "root"
      <4>1. reader'.pc = "chain" /\ reader'.ds = dds[v] /\ reader'.todo = GroupsIn(dds[v])
            /\ reader'.problems = (dds[v] # reader.seal.root)
        BY <1>2, <1>7, <3>1 DEF Learns, FromTheSealOn
      <4>2. ~reader'.problems => dds[v] = t
        BY <3>0, <4>1
      <4> QED
        BY <4>1, <4>2 DEF Genuine
    <3>2. CASE reader.pc = "chain"
      <4>1. ~reader.problems => reader.ds = t /\ Genuine(v, t, GroupsIn(t) \ reader.todo)
        BY <3>0, <3>2 DEF Reads
      <4>2. CASE reader.todo = {} /\ reader'.pc = IF reader.problems THEN "mismatch" ELSE "dataset"
        <5>1. ~reader.problems /\ reader'.pc = "dataset"
          BY <1>7, <4>2 DEF FromTheSealOn
        <5>2. GroupsIn(t) \ reader.todo = GroupsIn(t)
          BY <4>2
        <5> QED
          BY <4>1, <5>1, <5>2
      <4>3. CASE reader'.pc = "chain" /\ reader'.ds = reader.ds
        <5>1. PICK g \in reader.todo :
                /\ reader'.todo = reader.todo \ {g}
                /\ reader'.problems = \/ reader.problems
                                      \/ dman[v][g] # Part(reader.ds, g)
                                      \/ /\ g \in GroupsIn(reader.seal.pinned)
                                         /\ dman[v][g] # Part(reader.seal.pinned, g)
          BY <1>2, <3>2, <4>2, <4>3 DEF Learns
        <5>2. ~reader'.problems => ~reader.problems /\ dman[v][g] = Part(reader.ds, g)
          BY <5>1
        <5>3. ~reader'.problems => reader.ds = t /\ Genuine(v, t, GroupsIn(t) \ reader'.todo)
          BY <4>1, <5>1, <5>2 DEF Genuine
        <5> QED
          BY <4>3, <5>3
      <4> QED
        BY <1>2, <3>2, <4>2, <4>3 DEF Learns
    <3>3. CASE reader.pc = "dataset"
      <4>1. Genuine(v, t, GroupsIn(t))
        BY <3>0, <3>3 DEF Reads
      <4>2. reader'.pc = "manifest" /\ dds[v] # NoDoc /\ reader.group \in GroupsIn(dds[v])
        BY <1>2, <1>7, <3>3 DEF Learns, FromTheSealOn
      <4> QED
        BY <4>1, <4>2 DEF Genuine
    <3>4. CASE reader.pc = "manifest"
      <4>1. Genuine(v, t, GroupsIn(t)) /\ reader.group \in GroupsIn(t) /\ reader.got = Empty
        BY <1>2, <3>0, <3>4 DEF Reads, ReadsTheSealed
      <4>2. reader'.pc = "payload" /\ reader'.man = dman[v][reader.group]
            /\ dman[v][reader.group] # NoDoc /\ reader'.got = Empty
        BY <1>2, <1>7, <3>4, <4>1 DEF Learns, FromTheSealOn
      <4>3. Loads(v, t)'
        BY <4>2, TreeFacts DEF Loads
      <4> QED
        BY <4>1, <4>2, <4>3 DEF Genuine
    <3>5. CASE reader.pc = "payload"
      <4>1. Genuine(v, t, GroupsIn(t)) /\ reader.man = Part(t, reader.group) /\ Loads(v, t)
        BY <3>0, <3>5 DEF Reads
      <4>2. reader'.man = reader.man /\ reader.got \in Trees
        BY <1>2, <3>5 DEF Learns, ReaderStates
      <4>3. CASE /\ reader'.pc = "served" /\ NamesIn(reader.man) \subseteq NamesIn(reader.got)
                 /\ reader'.got = reader.got
        <5>1. Loads(v, t)'
          BY <1>2, <1>4, <4>1, <4>3 DEF Loads, Had
        <5> QED
          BY <4>1, <4>2, <4>3, <5>1
      <4>4. CASE ~(/\ reader'.pc = "served" /\ NamesIn(reader.man) \subseteq NamesIn(reader.got)
                   /\ reader'.got = reader.got)
        <5>1. PICK f \in NamesIn(reader.man) \ NamesIn(reader.got) :
                /\ dobj[v][f] # Absent /\ reader'.pc = "payload"
                /\ reader'.got = [reader.got EXCEPT ![f] = dobj[v][f]]
          BY <1>2, <1>7, <3>5, <4>4 DEF Learns, FromTheSealOn
        <5>2. f \in NamesIn(t) /\ f \in NamesIn(Part(t, reader.group)) /\ f \in Files
          BY <4>1, <5>1 DEF NamesIn, Part
        <5>3. \/ dobj[v][f] = t[f]
              \/ Had("object-content-changed", v) \/ Had("object-resized", v)
          BY <3>00, <5>1, <5>2 DEF LeftOf
        <5>4. /\ \A e \in NamesIn(reader'.got) : e = f \/ e \in NamesIn(reader.got)
              /\ \A e \in NamesIn(reader.got) : e # f /\ reader'.got[e] = reader.got[e]
              /\ reader'.got[f] = dobj[v][f]
          BY <4>2, <5>1, <5>2 DEF NamesIn, Trees
        <5>5. Loads(v, t)'
          BY <1>2, <1>4, <4>1, <5>2, <5>3, <5>4 DEF Loads, Had
        <5> QED
          BY <4>1, <4>2, <5>1, <5>5
      <4> QED
        BY <4>3, <4>4
    <3> QED
      BY <1>2, <2>2, <3>1, <3>2, <3>3, <3>4, <3>5 DEF FromTheSealOn, Learns
  <2> QED
    BY <1>2, <1>7, <2>1, <2>2 DEF Learns, FromTheSealOn
<1> QED
  BY <1>2, <1>3, <1>4, <1>5, <1>7 DEF ReadsTheSealed

\* What a consumer ends up with is the group of the tree whose root digest the seal records,
\* complete and byte for byte but for payload that was overwritten, although it fetched
\* dataset.json, the manifest and the payload at different times while jobs were promoting and
\* documents and objects were being lost.
THEOREM ReaderGetsTheSealed == ASSUME ~Overlap, ~Expiry PROVE ReaderSpec => []ServedIsSealed
<1> DEFINE AllRemains == \A v \in Versions : Remains(v)
           IR == ReaderGood /\ AllRemains /\ ReadsTheSealed
<1>1. ReaderInit => IR
  <2> SUFFICES ASSUME ReaderInit PROVE IR
    OBVIOUS
  <2>1. AllRemains
    BY InitRemains DEF ReaderInit
  <2>2. ReadsTheSealed
    BY DEF ReaderInit, NewReader, ReadsTheSealed, Asked, FromTheSealOn
  <2> QED
    BY <2>1, <2>2, InitReaderGood
<1>2. Order /\ IR /\ [ReaderNext]_readerVars => IR'
  <2> SUFFICES ASSUME Order, IR, [ReaderNext]_readerVars PROVE IR'
    OBVIOUS
  <2>0. JobGood /\ ReaderGood'
    BY ReaderStaysGood DEF Order, JobInv
  <2>1. CASE (([Next]_vars /\ UNCHANGED decays) \/ DecayNext) /\ UNCHANGED reader
    <3>1. \A v \in Versions : Remains(v)'
      BY <2>1, WorldRemains
    <3>2. ReadsTheSealed'
      BY <2>1, ReadsOn
    <3> QED
      BY <2>0, <3>1, <3>2
  <2>2. CASE (Ask \/ ReaderStep) /\ UNCHANGED <<vars, decays>>
    <3>1. AllRemains'
      BY <2>2 DEF Remains, Claims, CrcsOf, LeftOf, Whole, Had, Sealed, vars, dataVars, landingVars
    <3>2. CASE Ask
      <4>1. reader'.pc = "require" /\ reader'.got = Empty
        BY <3>2 DEF Ask, NewReader
      <4> QED
        BY <2>0, <3>1, <4>1 DEF ReadsTheSealed, FromTheSealOn
    <3>3. CASE ReaderStep
      BY <2>0, <2>2, <3>1, <3>3, ReadsNext
    <3> QED
      BY <2>2, <3>2, <3>3
  <2> QED
    BY <2>1, <2>2, ReaderStepsOnly
<1>3. IR => ServedIsSealed
  <2> SUFFICES ASSUME IR, reader.pc = "served", ~Happened(Rewritten, decays \ reader.old)
               PROVE  /\ reader.seal # NoDoc
                      /\ NamesIn(reader.got) = NamesIn(Part(reader.seal.root, reader.group))
                      /\ \/ reader.got = Part(reader.seal.root, reader.group)
                         \/ Happened({"object-resized", "object-content-changed"}, decays)
    BY DEF ServedIsSealed
  <2>1. PICK v, t : v = reader.ver /\ t = lds[v]
    OBVIOUS
  <2>2. /\ Claims(reader.seal, t)
        /\ reader.man = Part(t, reader.group) /\ Loads(v, t) /\ catalog[v] # NoDoc
        /\ NamesIn(reader.man) \subseteq NamesIn(reader.got)
        /\ v \in Versions /\ reader \in ReaderStates
    BY <2>1 DEF ReadsTheSealed, Reads, FromTheSealOn, ReaderGood, Asked
  <2>3. reader.seal.root = t /\ t \in Trees /\ reader.got \in Trees
    BY <2>1, <2>2 DEF Remains, Whole, ReaderStates, Claims
  <2>4. reader.seal # NoDoc
    BY <2>2 DEF Claims
  <2>5. NamesIn(reader.got) = NamesIn(Part(t, reader.group))
    BY <2>2 DEF Loads
  <2>6. ASSUME ~Happened({"object-resized", "object-content-changed"}, decays)
        PROVE  reader.got = Part(t, reader.group)
    <3>1. \A f \in Files : reader.got[f] = Part(t, reader.group)[f]
      BY <2>1, <2>2, <2>5, <2>6 DEF Loads, Had, Happened, NamesIn, Part
    <3>2. reader.got \in [Files -> Contents \cup {Absent}]
      BY <2>3 DEF Trees
    <3> QED
      BY <3>1, <3>2 DEF Part
  <2> QED
    BY <2>3, <2>4, <2>5, <2>6
<1> QED
  BY <1>1, <1>2, <1>3, OrderInvariance, PTL DEF ReaderSpec, readerVars

-----------------------------------------------------------------------------
\* One version, one verdict, also while old versions decay: a decay gives no verdict, and a
\* version that lost its seal is not judged again.
THEOREM VerdictsSurviveDecay ==
    ASSUME ~Overlap, Named = {}, ~Expiry PROVE ReaderSpec => []OneVerdict
<1>1. Order /\ VerdictInv /\ [ReaderNext]_readerVars => VerdictInv'
  <2> SUFFICES ASSUME Order, VerdictInv, [ReaderNext]_readerVars PROVE VerdictInv'
    OBVIOUS
  <2>1. CASE [Next]_vars
    <3>1. OnePlaceMoves /\ Order'
      BY <2>1, NextOrder
    <3> QED
      BY <2>1, <3>1, NextVerdict DEF Order
  <2>2. CASE DecayNext
    <3>1. PICK w \in Versions, what \in Decays : OneDecay(what, w)
      BY <2>2, DecaysOnce DEF Order, JobInv
    <3>2. lds' = lds /\ lman' = lman /\ lobj' = lobj /\ marks' = marks /\ job' = job
      BY <3>1 DEF OneDecay, landingVars, jobVars
    <3>3. \A v \in Versions : Sealed(v)' => Sealed(v)
      BY <3>1 DEF OneDecay, Wears, Still, SealKept, Claims, Sealed
    <3>4. \A v \in Versions : Verdict(v)'
      BY <3>2, <3>3 DEF VerdictInv, Verdict, Whole, Passes, PassesGroup
    <3>5. \A j \in Jobs : Sure(j)'
      BY <3>2 DEF VerdictInv, Sure, Whole, Here, Cur, Passes, PassesGroup
    <3> QED
      BY <3>4, <3>5 DEF VerdictInv
  <2> QED
    BY <2>1, <2>2, ReaderStepsOnly
<1>2. VerdictInv => OneVerdict
  BY DEF VerdictInv, Verdict, OneVerdict
<1>3. ReaderInit => VerdictInv
  BY InitVerdict DEF ReaderInit
<1> QED
  BY <1>1, <1>2, <1>3, OrderInvariance, PTL DEF ReaderSpec, readerVars
=============================================================================
