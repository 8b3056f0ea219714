--------------------------- MODULE Lineage_proofs ---------------------------
(***************************************************************************)
(* Theorems about a dataset whose parent is promoted, broken off,          *)
(* published again and decays while publish(), Gate A and wu-fsck read it: *)
(* no byte of the parent is published again, the vocabulary is the pinned  *)
(* one, a good child is not rejected, and what fsck says of a parent is    *)
(* so.                                                                     *)
(***************************************************************************)
EXTENDS Lineage, WellFoundedInduction, TLAPS

-----------------------------------------------------------------------------
(* The parent. *)

Lost(v)     == <<"lost", v>> \in decays
Replaced(v) == <<"replaced", v>> \in decays

\* What a parent's dataset.json may record: the digests of a draft's groups, or none.
IsDoc(d) == /\ d \in [PGroups -> Bytes \cup {Absent, NoPin}]
            /\ d[TokGroup] # Absent
            /\ d \in Drafts \/ Unrecorded(d)

\* What lies on the shelf is what landing holds, as far as it was copied, unless the number was
\* handed out again or something decayed.
Original(v) ==
    /\ v \notin sealed => pds[v] \in Drafts \cup {NoDoc}
    /\ v \notin again =>
          /\ v \notin sealed => pds[v] \in {landing[v], NoDoc}
          /\ ~Replaced(v) => \A g \in PGroups : pman[v][g] \in {landing[v][g], Absent}
          /\ <<"object", v>> \notin decays => pobj[v] \in {landing[v][TokGroup], Absent}

JobOK ==
    /\ job.todo \subseteq Keys
    /\ \/ job = IdleJob
       \/ /\ job.pc \in {"copy", "catalog", "seal"}
          /\ job.ver \in Versions \ sealed
          /\ job.tree = landing[job.ver]

ShelfInv ==
    /\ tokenizer \in BOOLEAN
    /\ landing \in [Versions -> Drafts]
    /\ DOMAIN pds = Versions /\ \A v \in Versions : pds[v] = NoDoc \/ IsDoc(pds[v])
    /\ pman \in [Versions -> Trees]
    /\ pobj \in [Versions -> Bytes \cup {Absent}]
    /\ catalog \subseteq Versions /\ sealed \subseteq Versions
    /\ \A x \in decays : x[2] \in sealed
    /\ JobOK
    /\ \A v \in Versions : Original(v)

\* What one step may do to the version v of the parent: nothing, a copy of what landing holds, a new
\* draft under its number, or a decay.
Kept(v)     == pds'[v] = pds[v] /\ pman'[v] = pman[v] /\ pobj'[v] = pobj[v]
Promoted(v) == /\ v \notin sealed /\ landing'[v] = landing[v]
               /\ pds'[v] \in {pds[v], landing[v]}
               /\ \A g \in PGroups : pman'[v][g] \in {pman[v][g], landing[v][g]}
               /\ pobj'[v] \in {pobj[v], landing[v][TokGroup]}
Renewed(v)  == v \notin sealed \cup again /\ v \in again' /\ Kept(v)
Decayed1(v) ==
    /\ v \in sealed /\ landing'[v] = landing[v]
    /\ \E what \in {"lost", "replaced", "manifest", "object"} :
                 /\ <<what, v>> \in decays' \ decays
                 /\ \/ what = "lost" /\ pds'[v] = NoDoc
                    \/ what = "replaced" /\ pds'[v] \in Drafts
                    \/ pds'[v] = pds[v]
                 /\ pman'[v] # pman[v] => what \in {"replaced", "manifest"}
                 /\ what = "manifest" => \A g \in PGroups : pman'[v][g] \in {pman[v][g], Absent}
                 /\ pobj'[v] # pobj[v] => what = "object"
MovesTo(v) == \/ landing'[v] = landing[v] /\ Kept(v)
              \/ Promoted(v) \/ Renewed(v) \/ Decayed1(v)

OnlyGrows == /\ catalog \subseteq catalog' /\ sealed \subseteq sealed' /\ again \subseteq again'
             /\ decays \subseteq decays'

-----------------------------------------------------------------------------
(* The child and those who read it. *)

\* A pin that was resolved: the parent's dataset.json is there and records it, unless ...
Traced(d) ==
    /\ d \in Deps
    /\ pds[d.ver] = NoDoc => Lost(d.ver)
    /\ pds[d.ver] # NoDoc => \/ d.pin \in Range(pds[d.ver]) \/ Unrecorded(pds[d.ver])
                             \/ Replaced(d.ver)
                             \/ d.ver \in again /\ pds[d.ver] = landing[d.ver]

\* The bytes of tokenizer.json were not exchanged under the pin.
SameBytes(d, o) == o = d.pin \/ d.ver \in again \/ Happened({"object", "replaced"}, d.ver)

\* A parent that did not stay as it was.
Excused(v) == v \in again \/ \E x \in decays : x[2] = v

Copies(g, h) == \E d \in Range(child.deps[g]) : child.files[h] = d.pin

Excuse == \/ \E g, h \in Groups : g <= h /\ Copies(g, h)
          \/ \E d \in AllDeps : Excused(d.ver)

HasDeps == child.pc \in {"landed", "accepted", "rejected"}

ChildInv ==
    /\ child.pc \in {"declare", "failed", "pin", "landed", "accepted", "rejected"}
    /\ DOMAIN child = {"pc", "files", "deps", "ver", "pinned", "sound"}
    /\ child.pc = "pin" => tokenizer /\ child.ver \in Versions
    /\ HasDeps => child.deps \in [Groups -> Seq(Deps)]
    /\ HasDeps /\ child.sound =>
          /\ \A d \in AllDeps : Honoured(d) \/ Excused(d.ver)
          /\ tokenizer => \A g \in Groups : Len(child.deps[g]) <= 1
    /\ child.pc = "accepted" =>
          /\ \A d \in AllDeps : Traced(d)
          /\ NoCopiedBytes
          /\ tokenizer => \A g \in Groups : \A d \in Range(child.deps[g]) :
                              SameBytes(d, gate.vocab[g])
    /\ child.pc = "rejected" /\ child.sound => Excuse

TokStages == {"tokenizer", "tokmanifests", "json"}
Looking   == {"manifests"} \cup TokStages

\* What Gate A, in the state s, looks at, and what it is through with.
DepOf(s)      == child.deps[s.group][s.dep]
Past(s, g, i) == g < s.group \/ (g = s.group /\ (i < s.dep \/ s.at \in TokStages))
Checked(s, h) == h < s.group \/ (h = s.group /\ s.at \in TokStages)

GateTyped(s) ==
    /\ s.at \in {"parents", "verdict"} \cup Looking
    /\ DOMAIN s = {"at", "group", "dep", "todo", "shas", "bad", "vocab"}
    /\ DOMAIN s.vocab = Groups
    /\ s.at # "verdict" => s.group \in Groups
    /\ s.at = "verdict" => s.group = NGroups + 1
    /\ s.dep \in Nat \ {0}
    /\ s.bad \in BOOLEAN
    /\ s.at \in Looking => s.dep \in DOMAIN child.deps[s.group]
    /\ s.at \in TokStages => tokenizer /\ s.dep = 1 /\ Len(child.deps[s.group]) = 1
    /\ s.at \in {"manifests", "tokmanifests"} => s.todo \subseteq PGroups /\ s.todo # {}

\* As long as it has found nothing wrong.
GateClean(s) ==
    /\ \A g \in Groups : \A i \in DOMAIN child.deps[g] :
          Past(s, g, i) => child.deps[g][i].pin \in s.shas /\ Traced(child.deps[g][i])
    /\ s.at = "manifests" => Traced(DepOf(s))
    /\ \A g, h \in Groups : g <= h /\ Checked(s, h) => ~Copies(g, h)
    /\ tokenizer => \A g \in Groups : g < s.group =>
                        \A d \in Range(child.deps[g]) : SameBytes(d, s.vocab[g])
    /\ s.at = "json" => SameBytes(DepOf(s), landing[DepOf(s).ver][TokGroup])

\* Where the child is good.
GateFair(s) ==
    /\ \A x \in s.shas : \E g \in Groups : g <= s.group /\ \E d \in Range(child.deps[g]) : x = d.pin
    /\ child.sound /\ s.at \in {"manifests", "tokmanifests"} =>
          Excused(DepOf(s).ver) \/ s.todo \subseteq Recording(pds[DepOf(s).ver], DepOf(s).pin)
    /\ child.sound /\ s.bad => Excuse

GateOK(s) == child.pc = "landed" /\ GateTyped(s) /\ (~s.bad => GateClean(s)) /\ GateFair(s)
GateInv   == gate.at # "idle" => GateOK(gate)

-----------------------------------------------------------------------------
(* The sweep. *)

Codes == {"dangling-parent", "parent-changed"}

\* Lost or replaced since the sweep began.
Touched(v) == \E what \in {"lost", "replaced"} : <<what, v>> \in decays \ sweep.old

SeenRecords(d) == sweep.seen[d.ver] # NoDoc /\ d.pin \in Range(sweep.seen[d.ver])
Found(d)       == \E code \in Codes : <<code, d>> \in sweep.findings

SweepOf(d) ==
    /\ pds[d.ver] # NoDoc => \/ d.ver \in again \/ Replaced(d.ver)
                             \/ pds[d.ver] = sweep.seen[d.ver]
    /\ Touched(d.ver) \/ pds[d.ver] = sweep.seen[d.ver] \/ SeenRecords(d)
    /\ d \notin sweep.todo => SeenRecords(d) \/ Touched(d.ver) \/ Found(d)
    /\ sweep.at = "pinned" /\ sweep.dep = d /\ pds[d.ver] = NoDoc => Touched(d.ver)

SweepInv ==
    /\ sweep.at \in {"idle", "exists", "pinned", "done"}
    /\ DOMAIN sweep = {"at", "todo", "dep", "findings", "seen", "old"}
    /\ sweep.at = "idle" => sweep.findings = {}
    /\ sweep.old \subseteq decays
    /\ sweep.at # "idle" =>
          /\ child.pc = "accepted"
          /\ sweep.todo \subseteq AllDeps
          /\ sweep.at = "done" => sweep.todo = {}
          /\ sweep.at = "pinned" => sweep.dep \in AllDeps
          /\ \A d \in AllDeps : SweepOf(d)
    /\ ParentsSwept

IInv == ShelfInv /\ ChildInv /\ GateInv /\ SweepInv

-----------------------------------------------------------------------------
(* Drafts and digests. *)

\* A draft has its first group, records digests, and no two of its groups have one digest.
LEMMA DraftIs ==
    ASSUME NEW t \in Drafts
    PROVE  /\ t \in Trees /\ IsDoc(t) /\ t # NoDoc /\ ~Unrecorded(t) /\ t[TokGroup] \in Bytes
           /\ \A g, h \in PGroups : t[g] = t[h] => g = h
<1>1. t \in Trees /\ t[TokGroup] # Absent /\ IsInjective(t)
  BY LineageAssumption
<1>2. TokGroup \in PGroups /\ t[TokGroup] \in Bytes /\ DOMAIN t = PGroups
  BY <1>1 DEF Trees, TokGroup, PGroups
<1>3. t \in [PGroups -> Bytes \cup {Absent, NoPin}]
  BY <1>1 DEF Trees
<1>4. t # NoDoc
  BY <1>3, LineageAssumption
<1>5. ~Unrecorded(t)
  <2>1. t[TokGroup] \in Range(t) /\ t[TokGroup] \notin {NoPin, Absent}
    BY <1>2, LineageAssumption DEF Range
  <2> QED
    BY <2>1 DEF Unrecorded
<1>6. \A g, h \in PGroups : t[g] = t[h] => g = h
  BY <1>1, <1>2 DEF IsInjective
<1> QED
  BY <1>1, <1>2, <1>3, <1>4, <1>5, <1>6 DEF IsDoc

\* The smallest of some groups of the parent is one of them.
LEMMA MinOfGroups == ASSUME NEW S \in SUBSET PGroups, S # {} PROVE Min(S) \in S
<1>1. \E x \in S : \A y \in S : x <= y
  <2>1. CASE 1 \in S
    BY <2>1 DEF PGroups
  <2>2. CASE 1 \notin S
    <3>1. S = {2}
      BY <2>2 DEF PGroups
    <3> QED
      BY <3>1
  <2> QED
    BY <2>1, <2>2
<1> QED
  BY <1>1 DEF Min

\* The highest of some numbers up to n is one of them.
LEMMA MaxOfVersions == ASSUME NEW S \in SUBSET Versions, S # {} PROVE Max(S) \in S
<1> DEFINE Above == OpToRel(<, Nat)
           Gaps  == {NVersions - v : v \in S}
<1>0. NVersions \in Nat
  BY LineageAssumption
<1>1. Above = {p \in Nat \X Nat : p[1] < p[2]}
  BY DEF OpToRel
<1>2. Gaps \in SUBSET Nat /\ Gaps # {} /\ S \in SUBSET Int
  <2>1. ASSUME NEW v \in S PROVE NVersions - v \in Nat /\ v \in Int
    <3>1. v \in 1 .. NVersions
      BY DEF Versions
    <3> QED
      BY <1>0, <3>1
  <2> QED
    BY <2>1
<1>3. PICK x \in Gaps : \A y \in Gaps : ~ (<<y, x>> \in Above)
  <2>1. IsWellFoundedOn(Above, Nat)
    BY NatLessThanWellFounded
  <2> HIDE DEF Above, Gaps
  <2> QED
    BY <1>2, <2>1, WFMin
<1>4. PICK v \in S : x = NVersions - v
  OBVIOUS
<1>5. ASSUME NEW w \in S PROVE w <= v
  <2>1. NVersions - w \in Gaps /\ NVersions - w \in Nat /\ x \in Nat
    BY <1>2
  <2>2. ~ (<<NVersions - w, x>> \in Above)
    BY <1>3, <2>1
  <2> HIDE DEF Above, Gaps
  <2>3. ~ (NVersions - w < x)
    BY <1>0, <1>1, <2>1, <2>2
  <2> QED
    BY <1>0, <1>2, <1>4, <2>3
<1>6. \E z \in S : \A w \in S : z >= w
  BY <1>2, <1>5
<1> QED
  BY <1>6 DEF Max

-----------------------------------------------------------------------------
(* The parent moves, and the shelf is kept in order. *)

\* What is published at the beginning is in order.
LEMMA InitShelf == LineageInit => ShelfInv
<1> SUFFICES ASSUME LineageInit PROVE ShelfInv
  OBVIOUS
<1>1. PICK shelf \in Shelves :
          /\ landing \in [Versions -> Drafts]
          /\ \A v \in Versions : shelf[v] # NoDoc => landing[v] = shelf[v].tree
          /\ pds  = [v \in Versions |-> IF shelf[v] = NoDoc THEN NoDoc ELSE PinsOf(shelf[v])]
          /\ pman = [v \in Versions |-> IF shelf[v] = NoDoc THEN [g \in PGroups |-> Absent]
                                        ELSE shelf[v].tree]
          /\ catalog = {v \in Versions : shelf[v] # NoDoc}
  BY DEF LineageInit
<1>2. /\ pobj = [v \in Versions |-> pman[v][TokGroup]] /\ sealed = catalog /\ job = IdleJob
      /\ again = {} /\ decays = {} /\ tokenizer \in BOOLEAN
  BY DEF LineageInit
<1>3. ASSUME NEW v \in Versions, shelf[v] # NoDoc
      PROVE  /\ IsDoc(pds[v]) /\ pman[v] = landing[v] /\ landing[v] \in Trees
  <2>1. shelf[v] \in Published /\ landing[v] = shelf[v].tree /\ pds[v] = PinsOf(shelf[v])
        /\ landing[v] \in Drafts
    <3>1. shelf \in [Versions -> Published \cup {NoDoc}]
      BY LineageAssumption
    <3>2. shelf[v] \in Published
      BY <1>3, <3>1
    <3> QED
      BY <1>1, <1>3, <3>2
  <2>2. CASE ~shelf[v].legacy
    BY <1>1, <1>3, <2>1, <2>2, DraftIs DEF PinsOf, Published
  <2>3. CASE shelf[v].legacy
    <3> DEFINE t == shelf[v].tree
               u == [g \in PGroups |-> IF t[g] = Absent THEN Absent ELSE NoPin]
    <3>1. pds[v] = u /\ t[TokGroup] \in Bytes
      BY <2>1, <2>3, DraftIs DEF PinsOf
    <3>2. Unrecorded(u)
      BY DEF Unrecorded, Range
    <3>3. u[TokGroup] = NoPin /\ u \in [PGroups -> Bytes \cup {Absent, NoPin}]
      BY <3>1, LineageAssumption DEF TokGroup, PGroups
    <3> HIDE DEF u
    <3>4. IsDoc(u)
      BY <3>2, <3>3, LineageAssumption DEF IsDoc
    <3> QED
      BY <1>1, <1>3, <2>1, <3>1, <3>4, DraftIs
  <2> QED
    BY <2>2, <2>3
<1>4. ASSUME NEW v \in Versions, shelf[v] = NoDoc
      PROVE  pds[v] = NoDoc /\ pman[v] = [g \in PGroups |-> Absent] /\ v \notin sealed
  BY <1>1, <1>2, <1>4
<1>5. pman \in [Versions -> Trees]
  <2>1. \A v \in Versions : pman[v] \in Trees
    BY <1>3, <1>4 DEF Trees
  <2> QED
    BY <1>1, <2>1
<1>6. \A v \in Versions : pobj[v] = pman[v][TokGroup] /\ TokGroup \in PGroups
  BY <1>2 DEF TokGroup, PGroups
<1>7. pobj \in [Versions -> Bytes \cup {Absent}]
  BY <1>2, <1>5, <1>6 DEF Trees
<1>8. \A v \in Versions : Original(v)
  BY <1>2, <1>3, <1>4, <1>6, <1>1 DEF Original
<1>9. JobOK
  BY <1>2 DEF JobOK, IdleJob
<1> QED
  BY <1>1, <1>2, <1>3, <1>4, <1>5, <1>7, <1>8, <1>9 DEF ShelfInv

\* The types of the shelf, without the job.
ShelfTyped ==
    /\ landing \in [Versions -> Drafts]
    /\ DOMAIN pds = Versions /\ \A v \in Versions : pds[v] = NoDoc \/ IsDoc(pds[v])
    /\ pman \in [Versions -> Trees]
    /\ pobj \in [Versions -> Bytes \cup {Absent}]
    /\ catalog \subseteq Versions /\ sealed \subseteq Versions
    /\ \A x \in decays : x[2] \in sealed

\* As long as versions only move like this, they stay original.
LEMMA MovesKeepOriginal ==
    ASSUME ShelfInv, OnlyGrows, NEW v \in Versions, MovesTo(v) PROVE Original(v)'
<1>0. Original(v) /\ landing[v] \in Drafts /\ pman[v] \in Trees /\ TokGroup \in PGroups
  BY DEF ShelfInv, TokGroup, PGroups
<1>1. CASE landing'[v] = landing[v] /\ Kept(v)
  BY <1>0, <1>1 DEF Kept, Original, OnlyGrows, Replaced
<1>2. CASE Promoted(v)
  BY <1>0, <1>2 DEF Promoted, Original, OnlyGrows, Replaced
<1>3. CASE Renewed(v)
  BY <1>0, <1>3 DEF Renewed, Kept, Original, OnlyGrows
<1>4. CASE Decayed1(v)
  <2>1. PICK what \in {"lost", "replaced", "manifest", "object"} :
            /\ <<what, v>> \in decays' \ decays
            /\ pman'[v] # pman[v] => what \in {"replaced", "manifest"}
            /\ what = "manifest" => \A g \in PGroups : pman'[v][g] \in {pman[v][g], Absent}
            /\ pobj'[v] # pobj[v] => what = "object"
    BY <1>4 DEF Decayed1
  <2>2. v \in sealed' /\ landing'[v] = landing[v]
    BY <1>4 DEF Decayed1, OnlyGrows
  <2> QED
    BY <1>0, <2>1, <2>2 DEF Original, OnlyGrows, Replaced
<1> QED
  BY <1>1, <1>2, <1>3, <1>4 DEF MovesTo

ParentOnly == UNCHANGED <<tokenizer, child, gate, sweep>>
ParentMoves == /\ \A v \in Versions : MovesTo(v)
               /\ OnlyGrows /\ ParentOnly /\ ShelfTyped' /\ JobOK'

\* A job begins with what landing holds.
LEMMA BeginMoves ==
    ASSUME ShelfInv, NEW v \in Versions, BeginPromotion(v) PROVE ParentMoves
<1>1. /\ UNCHANGED <<tokenizer, landing, pds, pman, pobj, catalog, sealed, child, gate, sweep, deaths,
                     again, decays>>
      /\ v \notin sealed
      /\ job' = [pc |-> "copy", ver |-> v, tree |-> landing[v],
                 todo |-> {k \in Keys : landing[v][k[2]] # Absent}]
  BY DEF BeginPromotion, shelfVars, historyVars
<1>2. JobOK'
  BY <1>1 DEF JobOK, Keys
<1> QED
  BY <1>1, <1>2 DEF ParentMoves, ParentOnly, OnlyGrows, MovesTo, Kept, ShelfInv, ShelfTyped

\* A key is copied to a version that is not sealed.
LEMMA CopyMoves == ASSUME ShelfInv, CopyKey PROVE ParentMoves
<1>1. /\ UNCHANGED <<tokenizer, landing, catalog, sealed, child, gate, sweep, deaths, again, decays>>
      /\ job.pc = "copy"
  BY DEF CopyKey, historyVars
<1>2. PICK k \in job.todo :
          /\ pds'  = IF k[1] = "dataset" THEN [pds EXCEPT ![job.ver] = job.tree] ELSE pds
          /\ pman' = IF k[1] = "manifest" THEN [pman EXCEPT ![job.ver][k[2]] = job.tree[k[2]]]
                     ELSE pman
          /\ pobj' = IF k[1] = "payload" THEN [pobj EXCEPT ![job.ver] = job.tree[TokGroup]]
                     ELSE pobj
          /\ job'  = [job EXCEPT !.todo = @ \ {k}, !.pc = IF job.todo = {k} THEN "catalog" ELSE @]
  BY DEF CopyKey
<1>3. PICK w \in Versions : /\ w = job.ver /\ w \notin sealed /\ job.tree = landing[w]
                            /\ job.pc \in {"copy", "catalog", "seal"} /\ job.todo \subseteq Keys
  BY <1>1 DEF ShelfInv, JobOK, IdleJob
<1>4. k[2] \in PGroups /\ TokGroup \in PGroups /\ landing[w] \in Drafts /\ landing[w] \in Trees
  BY <1>2, <1>3, DraftIs DEF Keys, ShelfInv, TokGroup, PGroups
<1>5. ShelfInv
  OBVIOUS
<1>6. \A v \in Versions : MovesTo(v)
  <2>1. \A v \in Versions \ {w} : Kept(v)
    BY <1>2, <1>3, <1>5 DEF Kept, ShelfInv
  <2>2. pds'[w] \in {pds[w], landing[w]} /\ pobj'[w] \in {pobj[w], landing[w][TokGroup]}
    BY <1>2, <1>3, <1>5 DEF ShelfInv
  <2>3. \A g \in PGroups : pman'[w][g] \in {pman[w][g], landing[w][g]}
    BY <1>2, <1>3, <1>4, <1>5 DEF ShelfInv, Trees
  <2> QED
    BY <1>1, <1>3, <2>1, <2>2, <2>3 DEF MovesTo, Promoted
<1>7. JobOK'
  <2>1. job'.ver = w /\ job'.tree = landing[w] /\ job'.pc \in {"copy", "catalog"}
        /\ job'.todo \subseteq Keys
    <3>1. CASE job = IdleJob
      BY <1>1, <3>1 DEF IdleJob
    <3>2. CASE job # IdleJob
      BY <1>1, <1>2, <1>3, <1>5 DEF ShelfInv, JobOK
    <3> QED
      BY <3>1, <3>2
  <2> QED
    BY <1>1, <1>3, <2>1 DEF JobOK
<1>8. ShelfTyped'
  <2>1. pds' = pds \/ pds' = [pds EXCEPT ![w] = landing[w]]
    BY <1>2, <1>3
  <2>2. DOMAIN pds' = Versions /\ \A v \in Versions : pds'[v] = NoDoc \/ IsDoc(pds'[v])
    BY <1>4, <1>5, <2>1, DraftIs DEF ShelfInv
  <2>3. pman' \in [Versions -> Trees]
    BY <1>2, <1>3, <1>4, <1>5 DEF ShelfInv, Trees
  <2>4. pobj' \in [Versions -> Bytes \cup {Absent}]
    BY <1>2, <1>3, <1>4, <1>5 DEF ShelfInv, Trees
  <2> QED
    BY <1>1, <1>5, <2>2, <2>3, <2>4 DEF ShelfInv, ShelfTyped
<1> QED
  BY <1>1, <1>6, <1>7, <1>8 DEF ParentMoves, ParentOnly, OnlyGrows

\* The rest of a promotion: the catalog entry, the seal, or the job's death.
LEMMA FinishMoves ==
    ASSUME ShelfInv, PutCatalog \/ PutSeal \/ JobDies PROVE ParentMoves
<1>1. /\ UNCHANGED <<tokenizer, landing, pds, pman, pobj, child, gate, sweep, again, decays>>
      /\ catalog \subseteq catalog' /\ sealed \subseteq sealed' /\ job.pc # "idle"
      /\ catalog' \subseteq catalog \cup {job.ver} /\ sealed' \subseteq sealed \cup {job.ver}
      /\ job' \in {IdleJob, [job EXCEPT !.pc = "seal"]}
      /\ job' # IdleJob => sealed' = sealed
  BY DEF PutCatalog, PutSeal, JobDies, shelfVars, historyVars
<1>2. job.ver \in Versions \ sealed /\ job.tree = landing[job.ver] /\ job.todo \subseteq Keys
      /\ job.pc \in {"copy", "catalog", "seal"}
  BY <1>1 DEF ShelfInv, JobOK, IdleJob
<1>3. ShelfTyped'
  BY <1>1, <1>2 DEF ShelfTyped, ShelfInv
<1>4. JobOK'
  <2>1. CASE job' = IdleJob
    BY <2>1 DEF JobOK, IdleJob
  <2>2. CASE job' = [job EXCEPT !.pc = "seal"] /\ job' # IdleJob
    <3>1. job # IdleJob
      BY <1>1 DEF IdleJob
    <3>2. job'.ver = job.ver /\ job'.tree = job.tree /\ job'.todo = job.todo /\ job'.pc = "seal"
      BY <1>1, <2>2, <3>1 DEF ShelfInv, JobOK
    <3> QED
      BY <1>1, <1>2, <2>2, <3>2 DEF JobOK
  <2> QED
    BY <1>1, <2>1, <2>2
<1> QED
  BY <1>1, <1>3, <1>4 DEF ParentMoves, ParentOnly, OnlyGrows, MovesTo, Kept

\* A number is handed out again: nobody is promoting it.
LEMMA AgainMoves ==
    ASSUME ShelfInv, NEW v \in Versions, PublishAgain(v) PROVE ParentMoves
<1>1. /\ UNCHANGED <<tokenizer, pds, pman, pobj, catalog, sealed, job, child, gate, sweep, decays>>
      /\ v \notin sealed \cup again /\ job.ver # v /\ again' = again \cup {v}
  BY DEF PublishAgain, shelfVars
<1>2. PICK t \in Drafts : landing' = [landing EXCEPT ![v] = t]
  BY DEF PublishAgain
<1>3. landing' \in [Versions -> Drafts] /\ \A w \in Versions \ {v} : landing'[w] = landing[w]
  BY <1>2 DEF ShelfInv
<1>4. \A w \in Versions : MovesTo(w)
  <2>1. Renewed(v)
    BY <1>1 DEF Renewed, Kept
  <2>2. \A w \in Versions \ {v} : landing'[w] = landing[w] /\ Kept(w)
    BY <1>1, <1>3 DEF Kept
  <2> QED
    BY <2>1, <2>2 DEF MovesTo
<1>5. JobOK'
  BY <1>1, <1>3 DEF JobOK, ShelfInv
<1>6. ShelfTyped'
  BY <1>1, <1>3 DEF ShelfInv, ShelfTyped
<1> QED
  BY <1>1, <1>4, <1>5, <1>6 DEF ParentMoves, ParentOnly, OnlyGrows

Decays == {"lost", "replaced", "manifest", "object"}
Decay(v) == LoseDocument(v) \/ Replace(v) \/ LoseManifest(v) \/ Overwrite(v)

\* Only what is sealed decays, and no job works on that.
LEMMA DecayMoves ==
    ASSUME ShelfInv, NEW v \in Versions, Decay(v) PROVE ParentMoves
<1>1. PICK what \in Decays :
          /\ Decayed(what, v)
          /\ \/ what = "lost" /\ pds' = [pds EXCEPT ![v] = NoDoc] /\ UNCHANGED <<pman, pobj>>
             \/ /\ what = "replaced" /\ UNCHANGED pobj
                /\ \E t \in Drafts : pds' = [pds EXCEPT ![v] = t] /\ pman' = [pman EXCEPT ![v] = t]
             \/ /\ what = "manifest" /\ UNCHANGED <<pds, pobj>>
                /\ \E g \in PGroups : pman' = [pman EXCEPT ![v][g] = Absent]
             \/ /\ what = "object" /\ UNCHANGED <<pds, pman>>
                /\ \E k \in Bytes \cup {Absent} : pobj' = [pobj EXCEPT ![v] = k]
  BY DEF Decay, Decays, LoseDocument, Replace, LoseManifest, Overwrite
<1>2. /\ UNCHANGED <<tokenizer, landing, catalog, sealed, job, child, gate, sweep, again>>
      /\ v \in sealed /\ <<what, v>> \notin decays /\ decays' = decays \cup {<<what, v>>}
  BY <1>1 DEF Decayed
<1>3. ShelfInv
  OBVIOUS
<1>4. \A w \in Versions : MovesTo(w)
  <2>1. \A w \in Versions \ {v} : Kept(w)
    BY <1>1, <1>3 DEF Kept, ShelfInv
  <2>2. /\ \/ what = "lost" /\ pds'[v] = NoDoc
           \/ what = "replaced" /\ pds'[v] \in Drafts
           \/ pds'[v] = pds[v]
        /\ pman'[v] # pman[v] => what \in {"replaced", "manifest"}
        /\ pobj'[v] # pobj[v] => what = "object"
    BY <1>1, <1>3 DEF ShelfInv
  <2>3. what = "manifest" => \A g \in PGroups : pman'[v][g] \in {pman[v][g], Absent}
    BY <1>1, <1>3 DEF ShelfInv, Trees
  <2>4. Decayed1(v)
    BY <1>2, <2>2, <2>3 DEF Decayed1, Decays
  <2> QED
    BY <1>2, <2>1, <2>4 DEF MovesTo
<1>5. ShelfTyped'
  <2>1. pds' = pds \/ \E t \in Drafts \cup {NoDoc} : pds' = [pds EXCEPT ![v] = t]
    BY <1>1
  <2>2. DOMAIN pds' = Versions /\ \A w \in Versions : pds'[w] = NoDoc \/ IsDoc(pds'[w])
    BY <1>3, <2>1, DraftIs DEF ShelfInv
  <2>3. pman' \in [Versions -> Trees]
    <3>1. CASE what = "replaced"
      BY <1>1, <1>3, <3>1, DraftIs DEF ShelfInv
    <3>2. CASE what = "manifest"
      BY <1>1, <1>3, <3>2 DEF ShelfInv, Trees
    <3> QED
      BY <1>1, <1>3, <3>1, <3>2 DEF ShelfInv
  <2>4. pobj' \in [Versions -> Bytes \cup {Absent}]
    BY <1>1, <1>3 DEF ShelfInv
  <2>5. \A x \in decays' : x[2] \in sealed'
    BY <1>2, <1>3 DEF ShelfInv
  <2> QED
    BY <1>2, <1>3, <2>2, <2>3, <2>4, <2>5 DEF ShelfInv, ShelfTyped
<1>6. JobOK'
  BY <1>2, <1>3 DEF ShelfInv, JobOK
<1> QED
  BY <1>2, <1>4, <1>5, <1>6 DEF ParentMoves, ParentOnly, OnlyGrows

\* Whatever the parent does, each of its versions makes one of the moves.
LEMMA NextMoves == ASSUME ShelfInv, ParentNext PROVE ParentMoves
<1>1. CASE CopyKey
  BY <1>1, CopyMoves
<1>2. CASE PutCatalog \/ PutSeal \/ JobDies
  BY <1>2, FinishMoves
<1>3. CASE \E v \in Versions : BeginPromotion(v) \/ PublishAgain(v) \/ Decay(v)
  BY <1>3, BeginMoves, AgainMoves, DecayMoves
<1> QED
  BY <1>1, <1>2, <1>3 DEF ParentNext, Decay

\* The shelf stays in order.
LEMMA MovesKeepShelf == ASSUME ShelfInv, ParentMoves PROVE ShelfInv'
<1>1. \A v \in Versions : Original(v)'
  BY MovesKeepOriginal DEF ParentMoves
<1> QED
  BY <1>1 DEF ParentMoves, ParentOnly, ShelfTyped, ShelfInv

-----------------------------------------------------------------------------
(* What a move of the parent leaves of the pins. *)

\* What happened has happened.
LEMMA HistoryStays ==
    ASSUME OnlyGrows, NEW v, NEW d, NEW o
    PROVE  /\ Excused(v) => Excused(v)'
           /\ Lost(v) => Lost(v)'
           /\ Replaced(v) => Replaced(v)'
           /\ d.ver \in again \/ Happened({"object", "replaced"}, d.ver) =>
                 (d.ver \in again \/ Happened({"object", "replaced"}, d.ver))'
           /\ SameBytes(d, o) =>
                 o = d.pin \/ d.ver \in again' \/ Happened({"object", "replaced"}, d.ver)'
  BY DEF OnlyGrows, Excused, Lost, Replaced, Happened, SameBytes

\* A document that is there stays as it is, unless its number is handed out again or it decays.
LEMMA DocumentStays ==
    ASSUME ShelfInv, ParentMoves, NEW v \in Versions
    PROVE  /\ pds[v] # NoDoc => pds'[v] = pds[v] \/ Excused(v)'
           /\ landing'[v] = landing[v] \/ v \in again'
           /\ pds[v] # NoDoc /\ pds'[v] = NoDoc => <<"lost", v>> \in decays' \ decays
           /\ pds[v] # NoDoc /\ v \notin again' /\ ~Replaced(v)' => pds'[v] \in {pds[v], NoDoc}
           /\ pds[v] = NoDoc /\ Lost(v) =>
                 pds'[v] = NoDoc \/ <<"replaced", v>> \in decays' \ decays
<1>0. /\ MovesTo(v) /\ OnlyGrows /\ Original(v) /\ landing[v] \in Drafts /\ landing[v] # NoDoc
      /\ Lost(v) => v \in sealed
      /\ \A t \in Drafts : t # NoDoc
  BY DraftIs DEF ParentMoves, ShelfInv, Lost
<1>1. CASE landing'[v] = landing[v] /\ Kept(v)
  BY <1>1 DEF Kept
<1>2. CASE Promoted(v)
  <2>1. v \notin again => pds[v] \in {landing[v], NoDoc}
    BY <1>0, <1>2 DEF Original, Promoted
  <2>2. v \in again => v \in again' /\ Excused(v)'
    BY <1>0 DEF OnlyGrows, Excused
  <2> QED
    BY <1>0, <1>2, <2>1, <2>2 DEF Promoted
<1>3. CASE Renewed(v)
  BY <1>3 DEF Renewed, Kept
<1>4. CASE Decayed1(v)
  <2>1. PICK what \in Decays :
            /\ <<what, v>> \in decays' \ decays
            /\ \/ what = "lost" /\ pds'[v] = NoDoc
               \/ what = "replaced" /\ pds'[v] \in Drafts
               \/ pds'[v] = pds[v]
    BY <1>4 DEF Decayed1, Decays
  <2>2. Excused(v)'
    BY <2>1 DEF Excused
  <2> QED
    BY <1>0, <1>4, <2>1, <2>2 DEF Decayed1, Replaced
<1> QED
  BY <1>0, <1>1, <1>2, <1>3, <1>4 DEF MovesTo

\* A pin that was resolved ...
LEMMA TracedStays ==
    ASSUME ShelfInv, ParentMoves, NEW d, Traced(d) PROVE Traced(d)'
<1> DEFINE v == d.ver
<1>0. /\ v \in Versions /\ MovesTo(v) /\ OnlyGrows /\ Original(v) /\ landing[v] \in Drafts
      /\ Lost(v) \/ Replaced(v) => v \in sealed
      /\ \A t \in Drafts : t # NoDoc /\ ~Unrecorded(t)
      /\ Lost(v) => Lost(v)'
      /\ Replaced(v) => Replaced(v)'
  BY DraftIs, HistoryStays DEF ParentMoves, ShelfInv, Traced, Deps, Lost, Replaced
<1>1. CASE pds'[v] = pds[v] /\ (landing'[v] = landing[v] \/ v \notin again)
  BY <1>0, <1>1 DEF Traced, OnlyGrows, Lost, Replaced
<1>2. CASE Promoted(v)
  <2>1. pds[v] # NoDoc
    BY <1>0, <1>2 DEF Promoted, Traced
  <2>2. CASE v \in again
    BY <1>0, <1>2, <2>1, <2>2 DEF Promoted, Traced, OnlyGrows
  <2>3. CASE v \notin again
    BY <1>0, <1>1, <1>2, <2>1, <2>3 DEF Promoted, Original
  <2> QED
    BY <2>2, <2>3
<1>3. CASE Decayed1(v) /\ pds'[v] # pds[v]
  <2>1. \/ Lost(v)' /\ pds'[v] = NoDoc
        \/ Replaced(v)' /\ pds'[v] \in Drafts
    BY <1>3 DEF Decayed1, Lost, Replaced
  <2> QED
    BY <1>0, <2>1 DEF Traced
<1> QED
  BY <1>0, <1>1, <1>2, <1>3 DEF MovesTo, Kept, Renewed, Decayed1

\* ... and one that is honoured.
LEMMA HonouredStays ==
    ASSUME ShelfInv, ParentMoves, NEW d \in Deps, Honoured(d) PROVE (Honoured(d) \/ Excused(d.ver))'
<1> DEFINE v == d.ver
<1>0. /\ v \in Versions /\ MovesTo(v) /\ OnlyGrows /\ Original(v) /\ tokenizer' = tokenizer
      /\ pds[v] # NoDoc /\ TokGroup \in PGroups /\ d.pin # Absent
  BY LineageAssumption DEF ParentMoves, ParentOnly, ShelfInv, Deps, Honoured, TokGroup, PGroups
<1>1. PICK g \in PGroups :
          /\ pman[v][g] = d.pin
          /\ \/ pds[v][g] = d.pin
             \/ Unrecorded(pds[v]) /\ \A h \in PGroups \ {g} : pds[v][h] = Absent
          /\ tokenizer => g = TokGroup /\ pobj[v] = d.pin
  BY DEF Honoured
<1>2. SUFFICES ASSUME v \notin again', \A x \in decays' : x[2] # v PROVE Honoured(d)'
  BY DEF Excused
<1>3. v \notin again /\ ~Replaced(v) /\ <<"object", v>> \notin decays
  BY <1>0, <1>2 DEF OnlyGrows, Replaced
<1>4. \/ landing'[v] = landing[v] /\ Kept(v)
      \/ Promoted(v)
  BY <1>0, <1>2 DEF MovesTo, Renewed, Decayed1
<1>5. pds'[v] = pds[v]
  BY <1>0, <1>3, <1>4 DEF Kept, Promoted, Original
<1>6. pman'[v][g] = d.pin
  BY <1>0, <1>1, <1>3, <1>4 DEF Kept, Promoted, Original
<1>7. tokenizer => pobj'[v] = d.pin
  BY <1>0, <1>1, <1>3, <1>4 DEF Kept, Promoted, Original
<1> QED
  BY <1>0, <1>1, <1>5, <1>6, <1>7 DEF Honoured, OnlyGrows

-----------------------------------------------------------------------------
(* The child. *)

\* The dependencies of a child that was published, by group and by position.
LEMMA DepsAre ==
    ASSUME ChildInv, HasDeps
    PROVE  /\ AllDeps \subseteq Deps
           /\ \A g \in Groups :
                 /\ child.deps[g] \in Seq(Deps)
                 /\ Range(child.deps[g]) \subseteq AllDeps
                 /\ Range(child.deps[g]) = {child.deps[g][i] : i \in DOMAIN child.deps[g]}
                 /\ \A i \in DOMAIN child.deps[g] : child.deps[g][i] \in AllDeps
<1>1. \A g \in Groups : child.deps[g] \in Seq(Deps)
  BY DEF ChildInv
<1>2. \A g \in Groups : Range(child.deps[g]) = {child.deps[g][i] : i \in DOMAIN child.deps[g]}
  BY DEF Range
<1>3. \A g \in Groups : \A i \in DOMAIN child.deps[g] : child.deps[g][i] \in Deps
  BY <1>1
<1>4. \A g \in Groups : Range(child.deps[g]) \subseteq AllDeps
  BY DEF AllDeps
<1>5. AllDeps \subseteq Deps
  BY <1>2, <1>3 DEF AllDeps
<1> QED
  BY <1>1, <1>2, <1>4, <1>5

\* Excuses do not go away.
LEMMA ExcuseStays == ASSUME OnlyGrows, UNCHANGED child, Excuse PROVE Excuse'
  BY HistoryStays DEF Excuse, Copies, AllDeps

\* What is true of the child stays true while the parent moves.
LEMMA MovesKeepChild == ASSUME ShelfInv, ChildInv, ParentMoves PROVE ChildInv'
<1>0. UNCHANGED <<tokenizer, child, gate>> /\ OnlyGrows /\ AllDeps' = AllDeps
  BY DEF ParentMoves, ParentOnly, AllDeps
<1>1. HasDeps /\ child.sound => \A d \in AllDeps : (Honoured(d) \/ Excused(d.ver))'
  BY <1>0, DepsAre, HonouredStays, HistoryStays DEF ChildInv
<1>2. child.pc = "accepted" => \A d \in AllDeps : Traced(d)'
  BY TracedStays DEF ChildInv
<1>3. child.pc = "accepted" /\ tokenizer =>
          \A g \in Groups : \A d \in Range(child.deps[g]) : SameBytes(d, gate.vocab[g])'
  BY <1>0, HistoryStays DEF ChildInv, SameBytes
<1>4. child.pc = "rejected" /\ child.sound => Excuse'
  BY <1>0, ExcuseStays DEF ChildInv
<1> QED
  BY <1>0, <1>1, <1>2, <1>3, <1>4 DEF ChildInv, HasDeps, NoCopiedBytes

\* What depends_on says of a child that has just been published.
LEMMA Landed ==
    ASSUME NEW deps \in [Groups -> Seq(Deps)], HasDeps', child'.deps = deps,
           child'.pc = "landed", child'.sound = SoundDeps(deps), DOMAIN child' = DOMAIN child,
           UNCHANGED <<tokenizer, landing, shelfVars, job, gate, sweep, historyVars>>, ChildInv
    PROVE  ChildInv'
<1>1. UNCHANGED <<tokenizer, pds, pman, pobj, catalog>>
  BY DEF shelfVars
<1>2. AllDeps' = UNION {Range(deps[g]) : g \in Groups}
  BY DEF AllDeps
<1>3. child'.sound => \A d \in AllDeps' : Honoured(d)'
  <2>1. SUFFICES ASSUME SoundDeps(deps), NEW g \in Groups, NEW d \in Range(deps[g])
                 PROVE  Honoured(d)
    BY <1>1, <1>2 DEF Honoured
  <2>2. PICK i \in DOMAIN deps[g] : d = deps[g][i]
    BY DEF Range
  <2> QED
    BY <2>1, <2>2 DEF SoundDeps
<1>4. child'.sound /\ tokenizer' => \A g \in Groups : Len(deps[g]) <= 1
  <2>1. SoundDeps(deps) => \A g \in Groups : tokenizer => Len(deps[g]) <= 1
    BY DEF SoundDeps
  <2> QED
    BY <1>1, <2>1
<1> QED
  BY <1>3, <1>4 DEF ChildInv, HasDeps

\* publish() makes a child that is good as far as it claims to be, and only before it is judged.
LEMMA ChildSteps ==
    ASSUME ShelfInv, ChildInv, ChildNext
    PROVE  /\ ChildInv'
           /\ UNCHANGED <<tokenizer, landing, shelfVars, job, gate, sweep, historyVars>>
           /\ child.pc \in {"declare", "pin"}
<1>1. CASE DeclareByHand
  <2>1. PICK files \in Children, deps \in ByHand :
          child' = [child EXCEPT !.files = files, !.deps = deps, !.pc = "landed",
                                 !.sound = SoundDeps(deps)]
    BY <1>1 DEF DeclareByHand
  <2>2. deps \in [Groups -> Seq(Deps)]
    BY LineageAssumption
  <2>3. /\ child'.deps = deps /\ child'.pc = "landed" /\ child'.sound = SoundDeps(deps)
        /\ DOMAIN child' = DOMAIN child
    BY <2>1 DEF ChildInv
  <2> QED
    BY <1>1, <2>2, <2>3, Landed DEF DeclareByHand, HasDeps
<1>2. CASE NameLatest \/ NameVersion
  <2>1. /\ tokenizer /\ child.pc = "declare"
        /\ UNCHANGED <<tokenizer, landing, shelfVars, job, gate, sweep, historyVars>>
        /\ \/ child' = [child EXCEPT !.pc = "failed"]
           \/ \E files \in Children, gs \in SUBSET Groups, v \in Versions :
                 child' = [child EXCEPT !.files = files, !.pinned = gs, !.ver = v, !.pc = "pin"]
    BY <1>2, MaxOfVersions DEF NameLatest, NameVersion, ShelfInv
  <2>2. /\ DOMAIN child' = DOMAIN child
        /\ child'.pc = "failed" \/ (child'.pc = "pin" /\ child'.ver \in Versions)
    BY <2>1 DEF ChildInv
  <2> QED
    BY <2>1, <2>2 DEF ChildInv, HasDeps
<1>3. CASE PinParent
  <2>1. /\ child.pc = "pin" /\ child.ver \in Versions
        /\ UNCHANGED <<tokenizer, landing, shelfVars, job, gate, sweep, historyVars>>
    BY <1>3 DEF PinParent, ChildInv
  <2>2. CASE pds[child.ver] = NoDoc
    <3>1. child' = [child EXCEPT !.pc = "failed"]
      BY <1>3, <2>2 DEF PinParent
    <3>2. DOMAIN child' = DOMAIN child /\ child'.pc = "failed"
      BY <3>1 DEF ChildInv
    <3> QED
      BY <2>1, <3>2 DEF ChildInv, HasDeps
  <2>3. CASE pds[child.ver] # NoDoc
    <3> DEFINE d    == [ver |-> child.ver, pin |-> pds[child.ver][TokGroup]]
               deps == [g \in Groups |-> IF g \in child.pinned THEN <<d>> ELSE <<>>]
    <3>1. LandChild(deps)
      BY <1>3, <2>3 DEF PinParent
    <3>2. d \in Deps
      BY <2>1, <2>3 DEF ShelfInv, IsDoc, Deps, TokGroup, PGroups
    <3>3. deps \in [Groups -> Seq(Deps)]
      <4> HIDE DEF d
      <4> QED
        BY <3>2
    <3> HIDE DEF deps
    <3>4. /\ child'.deps = deps /\ child'.pc = "landed" /\ child'.sound = SoundDeps(deps)
          /\ DOMAIN child' = DOMAIN child
      BY <3>1 DEF LandChild, ChildInv
    <3> QED
      BY <2>1, <3>3, <3>4, Landed DEF HasDeps
  <2> QED
    BY <2>1, <2>2, <2>3
<1> QED
  BY <1>1, <1>2, <1>3 DEF ChildNext, DeclareByHand

-----------------------------------------------------------------------------
(* Gate A. *)

\* The state of Gate A is what matters, whatever variable holds it.
LEMMA GateIs == ASSUME NEW s, gate' = s, GateOK(s)' PROVE GateInv'
  BY DEF GateInv, GateOK, GateTyped, GateClean, GateFair, Past, Checked, DepOf

\* The dependency that Gate A looks at.
LEMMA CurrentDep ==
    ASSUME ChildInv, child.pc = "landed", NEW s, s.group \in Groups,
           s.dep \in DOMAIN child.deps[s.group]
    PROVE  /\ DepOf(s) \in AllDeps /\ DepOf(s) \in Deps /\ DepOf(s).ver \in Versions
           /\ DepOf(s) \in Range(child.deps[s.group])
<1>1. HasDeps /\ child.deps[s.group] \in Seq(Deps)
  BY DEF HasDeps, ChildInv
<1>2. DepOf(s) \in Range(child.deps[s.group])
  BY <1>1 DEF DepOf, Range
<1>3. DepOf(s) \in AllDeps /\ DepOf(s) \in Deps
  BY <1>1, <1>2, DepsAre
<1> QED
  BY <1>1, <1>2, <1>3 DEF Deps

\* The same, as Gate A finds it while it is looking at a dependency.
LEMMA DepInSight ==
    ASSUME ChildInv, NEW s, GateOK(s), s.at \in Looking
    PROVE  /\ DepOf(s) \in AllDeps /\ DepOf(s) \in Deps /\ DepOf(s).ver \in Versions
           /\ DepOf(s) \in Range(child.deps[s.group])
           /\ s.group \in Groups /\ s.dep \in DOMAIN child.deps[s.group]
           /\ s.at \in TokStages => Range(child.deps[s.group]) = {DepOf(s)}
<1>1. child.pc = "landed" /\ s.group \in Groups /\ s.dep \in DOMAIN child.deps[s.group]
  BY DEF GateOK, GateTyped, Looking, TokStages
<1>2. ASSUME s.at \in TokStages PROVE Range(child.deps[s.group]) = {DepOf(s)}
  <2> DEFINE q == child.deps[s.group]
  <2>1. q \in Seq(Deps) /\ Len(q) = 1 /\ s.dep = 1
    BY <1>1, <1>2 DEF GateOK, GateTyped, ChildInv, HasDeps
  <2>2. DOMAIN q = {1}
    BY <2>1
  <2> QED
    BY <2>1, <2>2 DEF Range, DepOf
<1> QED
  BY <1>1, <1>2, CurrentDep

\* The parent moves while Gate A looks at it.
LEMMA MovesKeepGate == ASSUME ShelfInv, ChildInv, GateInv, ParentMoves PROVE GateInv'
<1>0. UNCHANGED <<tokenizer, child, gate>> /\ OnlyGrows
  BY DEF ParentMoves, ParentOnly
<1>1. SUFFICES ASSUME NEW s, s = gate, GateOK(s) PROVE GateOK(s)'
  BY <1>0, GateIs DEF GateInv
<1>3. GateTyped(s)'
  BY <1>0, <1>1 DEF GateOK, GateTyped
<1>4. ASSUME ~s.bad PROVE GateClean(s)'
  <2>0. \A d : Traced(d) => Traced(d)'
    BY TracedStays
  <2>1. \A g \in Groups : \A i \in DOMAIN child.deps[g] :
            Past(s, g, i) => child.deps[g][i].pin \in s.shas
                             /\ \A d : d = child.deps[g][i] => Traced(d)'
    BY <1>1, <1>4, <2>0 DEF GateOK, GateClean
  <2>2. s.at = "manifests" => \A d : d = DepOf(s) => Traced(d)'
    BY <1>1, <1>4, <2>0 DEF GateOK, GateClean
  <2>3. tokenizer => \A g \in Groups : g < s.group =>
                        \A d \in Range(child.deps[g]) : SameBytes(d, s.vocab[g])'
    BY <1>0, <1>1, <1>4, HistoryStays DEF GateOK, GateClean, SameBytes
  <2>4. ASSUME s.at = "json" PROVE SameBytes(DepOf(s), landing[DepOf(s).ver][TokGroup])'
    <3>1. /\ SameBytes(DepOf(s), landing[DepOf(s).ver][TokGroup]) /\ DepOf(s).ver \in Versions
          /\ DepOf(s)' = DepOf(s)
      BY <1>0, <1>1, <1>4, <2>4, DepInSight DEF GateOK, GateClean, Looking, TokStages, DepOf
    <3>2. landing'[DepOf(s).ver] = landing[DepOf(s).ver] \/ DepOf(s).ver \in again'
      BY <3>1, DocumentStays
    <3> QED
      BY <1>0, <3>1, <3>2, HistoryStays DEF SameBytes
  <2> QED
    BY <1>0, <1>1, <1>4, <2>1, <2>2, <2>3, <2>4
       DEF GateClean, GateOK, Past, Checked, Copies, DepOf, Traced, Lost, Replaced
<1>5. GateFair(s)'
  <2>1. ASSUME child.sound, s.at \in {"manifests", "tokmanifests"}
        PROVE  (Excused(DepOf(s).ver)
                  \/ s.todo \subseteq Recording(pds[DepOf(s).ver], DepOf(s).pin))'
    <3>1. PICK d \in Deps : d = DepOf(s) /\ d \in AllDeps /\ d.ver \in Versions
      BY <1>1, <2>1, DepInSight DEF Looking, TokStages
    <3>2. Honoured(d) \/ Excused(d.ver)
      BY <1>1, <2>1, <3>1 DEF ChildInv, HasDeps, GateOK
    <3>3. Excused(d.ver)' \/ pds'[d.ver] = pds[d.ver]
      BY <1>0, <3>1, <3>2, DocumentStays, HistoryStays DEF Honoured
    <3>4. Excused(d.ver)' \/ s.todo \subseteq Recording(pds[d.ver], d.pin)
      BY <1>0, <1>1, <2>1, <3>1, HistoryStays DEF GateOK, GateFair
    <3>5. d = DepOf(s)'
      BY <1>0, <3>1 DEF DepOf
    <3> QED
      BY <1>0, <3>3, <3>4, <3>5 DEF Recording, Excused
  <2>2. child.sound /\ s.bad => Excuse'
    BY <1>0, <1>1, ExcuseStays DEF GateOK, GateFair
  <2> QED
    BY <1>0, <1>1, <2>1, <2>2 DEF GateFair, GateOK
<1> QED
  BY <1>0, <1>1, <1>3, <1>4, <1>5 DEF GateOK

\* A step of Gate A that changes nothing but its own state.
LEMMA GateGoesOn ==
    ASSUME ChildInv, GateUnchanged, NEW s, gate' = s, GateOK(s) PROVE ChildInv' /\ GateInv'
<1>0. UNCHANGED <<tokenizer, landing, pds, pman, pobj, catalog, sealed, child, again, decays>>
  BY DEF GateUnchanged, shelfVars, historyVars
<1>1. child.pc = "landed"
  BY DEF GateOK
<1>2. ChildInv'
  BY <1>0, <1>1 DEF ChildInv, HasDeps, Honoured, Excused, AllDeps
<1>3. GateTyped(s)'
  BY <1>0 DEF GateOK, GateTyped
<1>4. ~s.bad => GateClean(s)'
  BY <1>0 DEF GateOK, GateClean, Past, Checked, Copies, DepOf, Traced, Lost, Replaced, SameBytes,
              Happened
<1>5. GateFair(s)'
  <2>1. OnlyGrows
    BY <1>0 DEF OnlyGrows
  <2>2. Excuse => Excuse'
    BY <1>0, <2>1, ExcuseStays
  <2> QED
    BY <1>0, <2>2 DEF GateOK, GateFair, DepOf, Excused, Recording
<1>6. GateOK(s)'
  BY <1>0, <1>1, <1>3, <1>4, <1>5 DEF GateOK
<1> QED
  BY <1>2, <1>6, GateIs

\* What an honoured pin gives to those who read it.
LEMMA HonouredIsRead ==
    ASSUME ShelfInv, NEW d \in Deps, Honoured(d)
    PROVE  /\ Resolvable(pds[d.ver], d.pin)
           /\ \A g \in Recording(pds[d.ver], d.pin) :
                 pman[d.ver][g] = d.pin /\ (tokenizer => g = TokGroup /\ pobj[d.ver] = d.pin)
<1> DEFINE ds == pds[d.ver]
<1>1. PICK g \in PGroups :
          /\ pman[d.ver][g] = d.pin
          /\ \/ ds[g] = d.pin
             \/ Unrecorded(ds) /\ \A h \in PGroups \ {g} : ds[h] = Absent
          /\ tokenizer => g = TokGroup /\ pobj[d.ver] = d.pin
  BY DEF Honoured
<1>2. d.ver \in Versions /\ ds # NoDoc /\ IsDoc(ds) /\ TokGroup \in PGroups
  BY DEF Deps, Honoured, ShelfInv, TokGroup, PGroups
<1>3. d.pin \in Bytes
  <2>1. pman[d.ver] \in Trees
    BY <1>2 DEF ShelfInv
  <2>2. pman[d.ver][g] \in Bytes \cup {Absent}
    BY <2>1 DEF Trees
  <2> QED
    BY <1>1, <2>2, LineageAssumption DEF Deps
<1>4. Recording(ds, d.pin) = {g}
  <2>1. CASE Unrecorded(ds)
    <3>1. ds[g] # d.pin
      <4>1. ds[g] \in Range(ds)
        BY <1>2 DEF IsDoc, Range
      <4> QED
        BY <1>3, <2>1, <4>1, LineageAssumption DEF Unrecorded
    <3>2. \A h \in PGroups \ {g} : ds[h] = Absent
      BY <1>1, <3>1
    <3>3. ds[TokGroup] # Absent /\ g = TokGroup
      BY <1>2, <3>2 DEF IsDoc
    <3> QED
      BY <2>1, <3>2, <3>3 DEF Recording
  <2>2. CASE ~Unrecorded(ds)
    <3>1. ds \in Drafts /\ ds[g] = d.pin
      BY <1>1, <1>2, <2>2 DEF IsDoc
    <3>2. \A h \in PGroups : ds[h] = ds[g] => h = g
      BY <3>1, DraftIs
    <3> QED
      BY <2>2, <3>1, <3>2 DEF Recording
  <2> QED
    BY <2>1, <2>2
<1> QED
  BY <1>1, <1>2, <1>3, <1>4, LineageAssumption DEF Resolvable

\* A pin that Gate A resolves can be traced.
LEMMA ResolvedIsTraced ==
    ASSUME NEW d \in Deps, Resolvable(pds[d.ver], d.pin),
           ShelfInv
    PROVE  /\ Traced(d)
           /\ Recording(pds[d.ver], d.pin) \subseteq PGroups
           /\ Recording(pds[d.ver], d.pin) # {}
<1>1. pds[d.ver] # NoDoc /\ Recording(pds[d.ver], d.pin) # {} /\ IsDoc(pds[d.ver])
  BY DEF Resolvable, ShelfInv, Deps
<1>2. Recording(pds[d.ver], d.pin) \subseteq PGroups
  BY DEF Recording
<1>3. d.pin \in Range(pds[d.ver]) \/ Unrecorded(pds[d.ver])
  BY <1>1 DEF Recording, Range, IsDoc
<1> QED
  BY <1>1, <1>2, <1>3 DEF Traced

\* A good child whose pin is not as it should be has its excuse.
LEMMA BadHasExcuse ==
    ASSUME ChildInv, child.pc = "landed", child.sound, NEW d \in AllDeps, ~Honoured(d) \/ Excused(d.ver)
    PROVE  Excuse
  BY DEF ChildInv, HasDeps, Excuse

\* Gate A starts with nothing read and nothing found wrong.
LEMMA GateStarts == ASSUME ChildInv, StartGate PROVE ChildInv' /\ GateInv'
<1> DEFINE s == [IdleGate EXCEPT !.at = "parents"]
<1>1. GateUnchanged /\ gate' = s /\ child.pc = "landed"
  BY DEF StartGate
<1>2. /\ DOMAIN s = {"at", "group", "dep", "todo", "shas", "bad", "vocab"}
      /\ s.at = "parents" /\ s.group = 1 /\ s.dep = 1 /\ s.shas = {} /\ s.bad = FALSE
      /\ DOMAIN s.vocab = Groups
  BY DEF IdleGate
<1> HIDE DEF s
<1>3. 1 \in Groups /\ Groups \subseteq Nat \ {0}
  BY LineageAssumption DEF Groups
<1>4. GateTyped(s)
  BY <1>2, <1>3 DEF GateTyped, Looking, TokStages
<1>5. \A g \in Groups : \A i \in DOMAIN child.deps[g] : ~Past(s, g, i) /\ ~Checked(s, g)
                                                       /\ ~(g < s.group)
  <2>1. SUFFICES ASSUME NEW g \in Groups, NEW i \in DOMAIN child.deps[g]
                 PROVE  ~Past(s, g, i) /\ ~Checked(s, g) /\ ~(g < s.group)
    OBVIOUS
  <2>2. child.deps[g] \in Seq(Deps)
    BY <1>1 DEF ChildInv, HasDeps
  <2>3. i \in Nat \ {0} /\ g \in Nat \ {0}
    BY <1>3, <2>2
  <2> QED
    BY <1>2, <2>3 DEF Past, Checked, TokStages
<1>6. GateClean(s)
  <2>1. \A h \in Groups : ~Checked(s, h) /\ ~(h < s.group)
    BY <1>2, <1>3 DEF Checked, TokStages
  <2> QED
    BY <1>2, <1>5, <2>1 DEF GateClean
<1>7. GateFair(s)
  BY <1>2 DEF GateFair
<1> QED
  BY <1>1, <1>4, <1>6, <1>7, GateGoesOn DEF GateOK

\* _register_parent_shas looks at the next dependency.
LEMMA ParentIsRead ==
    ASSUME ShelfInv, ChildInv, GateInv, GetParent PROVE ChildInv' /\ GateInv'
<1>1. /\ GateUnchanged /\ gate.at = "parents" /\ gate.dep \in DOMAIN child.deps[gate.group]
      /\ gate' = IF Resolvable(pds[DepOf(gate).ver], DepOf(gate).pin)
                 THEN [gate EXCEPT !.todo = Recording(pds[DepOf(gate).ver], DepOf(gate).pin),
                                   !.at = "manifests"]
                 ELSE [gate EXCEPT !.bad = TRUE, !.dep = @ + 1]
  BY DEF GetParent, Dep, DepOf
<1>2. PICK r : r = gate
  OBVIOUS
<1>3. GateOK(r)
  BY <1>1, <1>2 DEF GateInv
<1>4. PICK d \in Deps : d = DepOf(r) /\ d \in AllDeps
  BY <1>1, <1>2, <1>3, CurrentDep DEF GateOK, GateTyped
<1>5. CASE Resolvable(pds[d.ver], d.pin)
  <2> DEFINE s == [r EXCEPT !.todo = Recording(pds[d.ver], d.pin), !.at = "manifests"]
  <2>1. /\ gate' = s /\ DOMAIN s = DOMAIN r
        /\ s.at = "manifests" /\ s.todo = Recording(pds[d.ver], d.pin) /\ s.group = r.group
        /\ s.dep = r.dep /\ s.shas = r.shas /\ s.bad = r.bad /\ s.vocab = r.vocab
    BY <1>1, <1>2, <1>3, <1>4, <1>5 DEF GateOK, GateTyped
  <2> HIDE DEF s
  <2>2. Traced(d) /\ s.todo \subseteq PGroups /\ s.todo # {} /\ d = DepOf(s)
    BY <1>4, <1>5, <2>1, ResolvedIsTraced DEF DepOf
  <2>3. GateTyped(s)
    BY <1>1, <1>2, <1>3, <2>1, <2>2 DEF GateOK, GateTyped, Looking, TokStages
  <2>4. ~s.bad => GateClean(s)
    BY <1>1, <1>2, <1>3, <2>1, <2>2 DEF GateOK, GateClean, Past, Checked, TokStages
  <2>5. GateFair(s)
    BY <1>1, <1>2, <1>3, <2>1, <2>2 DEF GateOK, GateFair
  <2> QED
    BY <1>1, <1>3, <2>1, <2>3, <2>4, <2>5, GateGoesOn DEF GateOK
<1>6. CASE ~Resolvable(pds[d.ver], d.pin)
  <2> DEFINE s == [r EXCEPT !.bad = TRUE, !.dep = @ + 1]
  <2>1. /\ gate' = s /\ DOMAIN s = DOMAIN r
        /\ s.at = "parents" /\ s.group = r.group /\ s.dep = r.dep + 1 /\ s.shas = r.shas
        /\ s.bad = TRUE /\ s.vocab = r.vocab
    BY <1>1, <1>2, <1>3, <1>4, <1>6 DEF GateOK, GateTyped
  <2> HIDE DEF s
  <2>2. GateTyped(s)
    <3>1. r.dep \in Nat \ {0} /\ r.group \in Groups /\ DOMAIN r.vocab = Groups
          /\ DOMAIN r = {"at", "group", "dep", "todo", "shas", "bad", "vocab"}
      BY <1>1, <1>2, <1>3 DEF GateOK, GateTyped
    <3>2. s.dep \in Nat \ {0}
      BY <2>1, <3>1
    <3> QED
      BY <2>1, <3>1, <3>2 DEF GateTyped, Looking, TokStages
  <2>3. child.sound => Excuse
    BY <1>3, <1>4, <1>6, HonouredIsRead, BadHasExcuse DEF GateOK
  <2>4. GateFair(s)
    BY <1>3, <2>1, <2>3 DEF GateOK, GateFair
  <2> QED
    BY <1>1, <1>3, <2>1, <2>2, <2>4, GateGoesOn DEF GateOK
<1> QED
  BY <1>5, <1>6

\* ... and at a manifest of it.
LEMMA ManifestIsRead ==
    ASSUME ShelfInv, ChildInv, GateInv, GetParentManifest PROVE ChildInv' /\ GateInv'
<1>1. PICK r : r = gate
  OBVIOUS
<1> DEFINE g    == Min(r.todo)
           d    == DepOf(r)
           m    == pman[d.ver][g]
           next == [r EXCEPT !.todo = @ \ {g}, !.dep = IF r.todo = {g} THEN @ + 1 ELSE @,
                             !.at = IF r.todo = {g} THEN "parents" ELSE @]
           s    == IF m = d.pin THEN [next EXCEPT !.shas = @ \cup {m}] ELSE [next EXCEPT !.bad = TRUE]
<1>2. GateUnchanged /\ r.at = "manifests" /\ gate' = s
  BY <1>1 DEF GetParentManifest, Dep, DepOf
<1>3. GateOK(r) /\ g \in r.todo /\ r.todo \subseteq PGroups
  BY <1>1, <1>2, MinOfGroups DEF GateInv, GateOK, GateTyped
<1>4. /\ d \in Deps /\ d \in AllDeps /\ d \in Range(child.deps[r.group]) /\ r.group \in Groups
      /\ r.dep \in DOMAIN child.deps[r.group] /\ r.dep \in Nat \ {0}
  BY <1>2, <1>3, DepInSight DEF Looking, GateOK, GateTyped
<1>5. DOMAIN r = {"at", "group", "dep", "todo", "shas", "bad", "vocab"}
  BY <1>3 DEF GateOK, GateTyped
<1>6. /\ DOMAIN s = DOMAIN r /\ s.group = r.group /\ s.vocab = r.vocab /\ s.todo = r.todo \ {g}
      /\ s.dep = IF r.todo = {g} THEN r.dep + 1 ELSE r.dep
      /\ s.at = IF r.todo = {g} THEN "parents" ELSE "manifests"
      /\ s.shas = IF m = d.pin THEN r.shas \cup {m} ELSE r.shas
      /\ s.bad = IF m = d.pin THEN r.bad ELSE TRUE
  BY <1>2, <1>5
<1>7. child.sound => m = d.pin \/ Excuse
  <2>1. child.sound => Excused(d.ver) \/ r.todo \subseteq Recording(pds[d.ver], d.pin)
    BY <1>2, <1>3 DEF GateOK, GateFair
  <2>2. child.sound /\ Honoured(d) /\ ~Excused(d.ver) => m = d.pin
    BY <1>3, <1>4, <2>1, HonouredIsRead
  <2> QED
    BY <1>3, <1>4, <2>2, BadHasExcuse DEF GateOK
<1> HIDE DEF s
<1>8. GateTyped(s)
  <2>1. s.dep \in Nat \ {0} /\ s.bad \in BOOLEAN
    <3>1. r.bad \in BOOLEAN
      BY <1>3 DEF GateOK, GateTyped
    <3>2. s.bad \in BOOLEAN
      BY <1>6, <3>1
    <3>3. s.dep \in Nat \ {0}
      BY <1>4, <1>6
    <3> QED
      BY <3>2, <3>3
  <2>2. s.at = "manifests" => s.todo # {} /\ s.todo \subseteq PGroups
                              /\ s.dep \in DOMAIN child.deps[s.group]
    BY <1>3, <1>4, <1>6
  <2> QED
    BY <1>2, <1>3, <1>4, <1>5, <1>6, <2>1, <2>2 DEF GateOK, GateTyped, Looking, TokStages
<1>9. ~s.bad => GateClean(s)
  <2>1. SUFFICES ASSUME ~r.bad, m = d.pin, GateClean(r) PROVE GateClean(s)
    BY <1>3, <1>6 DEF GateOK
  <2>2. Traced(d) /\ d.pin \in s.shas
    BY <1>2, <1>6, <2>1 DEF GateClean
  <2>3. \A h \in Groups, i \in Nat : Past(s, h, i) => Past(r, h, i) \/ (h = r.group /\ i = r.dep)
    BY <1>2, <1>4, <1>6 DEF Past, TokStages
  <2>4. \A h \in Groups : DOMAIN child.deps[h] \subseteq Nat
    <3>1. \A h \in Groups : child.deps[h] \in Seq(Deps)
      BY <1>3 DEF GateOK, ChildInv, HasDeps
    <3> QED
      BY <3>1
  <2>5. \A h \in Groups : \A i \in DOMAIN child.deps[h] :
            Past(s, h, i) => child.deps[h][i].pin \in s.shas /\ Traced(child.deps[h][i])
    <3>1. SUFFICES ASSUME NEW h \in Groups, NEW i \in DOMAIN child.deps[h], Past(s, h, i)
                   PROVE  child.deps[h][i].pin \in s.shas /\ Traced(child.deps[h][i])
      OBVIOUS
    <3>2. CASE Past(r, h, i)
      BY <1>6, <2>1, <3>2 DEF GateClean
    <3>3. CASE h = r.group /\ i = r.dep
      BY <2>2, <3>3 DEF DepOf
    <3> QED
      BY <2>3, <2>4, <3>1, <3>2, <3>3
  <2>6. s.at = "manifests" => Traced(DepOf(s))
    BY <1>6, <2>2 DEF DepOf
  <2>7. \A h \in Groups : Checked(s, h) => Checked(r, h)
    BY <1>6 DEF Checked, TokStages
  <2> QED
    BY <1>6, <2>1, <2>5, <2>6, <2>7 DEF GateClean
<1>10. GateFair(s)
  <2>1. child.sound /\ s.at = "manifests" =>
            Excused(DepOf(s).ver) \/ s.todo \subseteq Recording(pds[DepOf(s).ver], DepOf(s).pin)
    BY <1>2, <1>3, <1>6 DEF GateOK, GateFair, DepOf
  <2>2. \A x \in s.shas : \E h \in Groups : h <= s.group /\ \E e \in Range(child.deps[h]) : x = e.pin
    <3>1. r.group <= r.group
      BY <1>4 DEF Groups
    <3> QED
      BY <1>3, <1>4, <1>6, <3>1 DEF GateOK, GateFair
  <2>3. s.at # "tokmanifests"
    BY <1>6
  <2>4. child.sound /\ s.bad => Excuse
    BY <1>3, <1>6, <1>7 DEF GateOK, GateFair
  <2> QED
    BY <2>1, <2>2, <2>3, <2>4 DEF GateFair
<1> QED
  BY <1>2, <1>3, <1>8, <1>9, <1>10, GateGoesOn DEF GateOK

\* Gate A turns to the next group, or to its verdict.
LEMMA GroupIsDone ==
    ASSUME ChildInv, GateUnchanged, NEW r, GateOK(r), r.group \in Groups,
           r.at \in TokStages \/ (r.at = "parents" /\ r.dep \notin DOMAIN child.deps[r.group]),
           NEW s, gate' = NextGroup(s),
           DOMAIN s = DOMAIN r, s.group = r.group, s.shas = r.shas, DOMAIN s.vocab = Groups,
           s.bad \in BOOLEAN,
           child.sound /\ s.bad => Excuse,
           ~s.bad => /\ ~r.bad
                     /\ \A g \in Groups : g <= r.group => ~Copies(g, r.group)
                     /\ \A g \in Groups \ {r.group} : s.vocab[g] = r.vocab[g]
                     /\ tokenizer => \A d \in Range(child.deps[r.group]) :
                                         SameBytes(d, s.vocab[r.group])
    PROVE  ChildInv' /\ GateInv'
<1> DEFINE t == NextGroup(s)
<1>1. DOMAIN r = {"at", "group", "dep", "todo", "shas", "bad", "vocab"} /\ r.dep \in Nat \ {0}
  BY DEF GateOK, GateTyped
<1>2. /\ DOMAIN t = DOMAIN r /\ t.group = r.group + 1 /\ t.dep = 1 /\ t.shas = r.shas
      /\ t.bad = s.bad /\ t.vocab = s.vocab
      /\ t.at = IF r.group = NGroups THEN "verdict" ELSE "parents"
  BY <1>1 DEF NextGroup
<1> HIDE DEF t
<1>3. NGroups \in Nat /\ Groups = 1 .. NGroups /\ r.group \in Nat
  BY LineageAssumption DEF Groups
<1>4. GateTyped(t)
  BY <1>1, <1>2, <1>3 DEF GateTyped, Looking, TokStages
<1>5. ~t.bad => GateClean(t)
  <2>1. SUFFICES ASSUME ~s.bad, GateClean(r) PROVE GateClean(t)
    BY <1>2 DEF GateOK
  <2>2. ASSUME NEW g \in Groups, NEW i \in DOMAIN child.deps[g], Past(t, g, i) PROVE Past(r, g, i)
    <3>1. child.deps[g] \in Seq(Deps)
      BY DEF GateOK, ChildInv, HasDeps
    <3>2. i \in Nat \ {0} /\ DOMAIN child.deps[g] = 1 .. Len(child.deps[g])
          /\ Len(child.deps[g]) \in Nat
      BY <3>1
    <3>3. g <= r.group
      BY <1>2, <1>3, <2>2, <3>2 DEF Past, TokStages
    <3>4. CASE g < r.group
      BY <3>4 DEF Past
    <3>5. CASE g = r.group
      <4>1. r.at \notin TokStages => i < r.dep
        BY <1>1, <3>2, <3>5
      <4> QED
        BY <3>5, <4>1 DEF Past
    <3> QED
      BY <1>3, <3>3, <3>4, <3>5
  <2>3. ASSUME NEW h \in Groups, Checked(t, h) PROVE Checked(r, h) \/ h = r.group
    BY <1>2, <1>3, <2>3 DEF Checked, TokStages
  <2>4. \A g \in Groups : g < t.group => g < r.group \/ g = r.group
    BY <1>2, <1>3
  <2>5. \A g, h \in Groups : g <= h /\ Checked(t, h) => ~Copies(g, h)
    BY <2>1, <2>3 DEF GateClean
  <2>6. tokenizer => \A g \in Groups : g < t.group =>
                         \A d \in Range(child.deps[g]) : SameBytes(d, t.vocab[g])
    <3>1. SUFFICES ASSUME tokenizer, NEW g \in Groups, g < t.group, NEW d \in Range(child.deps[g])
                   PROVE  SameBytes(d, s.vocab[g])
      BY <1>2
    <3>2. CASE g = r.group
      BY <2>1, <3>1, <3>2
    <3>3. CASE g # r.group
      BY <2>1, <2>4, <3>1, <3>3 DEF GateClean
    <3> QED
      BY <3>2, <3>3
  <2>7. \A g \in Groups : \A i \in DOMAIN child.deps[g] :
            Past(t, g, i) => child.deps[g][i].pin \in t.shas /\ Traced(child.deps[g][i])
    BY <1>2, <2>1, <2>2 DEF GateClean
  <2> QED
    BY <1>2, <2>5, <2>6, <2>7 DEF GateClean
<1>6. GateFair(t)
  <2>1. \A g \in Groups : g <= r.group => g <= t.group
    BY <1>2, <1>3
  <2>2. \A x \in t.shas : \E g \in Groups : g <= t.group /\ \E d \in Range(child.deps[g]) : x = d.pin
    BY <1>2, <2>1 DEF GateOK, GateFair
  <2> QED
    BY <1>2, <2>2 DEF GateFair
<1> QED
  BY <1>2, <1>4, <1>5, <1>6, GateGoesOn DEF GateOK, t

\* The child's entries are compared with what the parents hold.
LEMMA EntriesAreChecked ==
    ASSUME ShelfInv, ChildInv, GateInv, CheckEntries PROVE ChildInv' /\ GateInv'
<1>1. PICK r : r = gate
  OBVIOUS
<1> DEFINE next == [r EXCEPT !.bad = @ \/ child.files[r.group] \in r.shas]
           deps == child.deps[r.group]
<1>2. /\ GateUnchanged /\ r.at = "parents" /\ r.dep \notin DOMAIN deps
      /\ gate' = IF ~tokenizer \/ deps = <<>> THEN NextGroup(next)
                 ELSE IF OneTokenizer(deps) THEN [next EXCEPT !.dep = 1, !.at = "tokenizer"]
                 ELSE NextGroup([next EXCEPT !.bad = TRUE])
  BY <1>1 DEF CheckEntries
<1>3. /\ GateOK(r) /\ r.group \in Groups /\ deps \in Seq(Deps) /\ r.bad \in BOOLEAN
      /\ DOMAIN r.vocab = Groups
      /\ DOMAIN r = {"at", "group", "dep", "todo", "shas", "bad", "vocab"}
      /\ r.dep \in Nat \ {0} /\ r.group \in Nat /\ NGroups \in Nat
  BY <1>1, <1>2, LineageAssumption DEF GateInv, GateOK, GateTyped, ChildInv, HasDeps, Groups
<1>4. \A g \in Groups : child.deps[g] \in Seq(Deps)
  BY <1>3 DEF GateOK, ChildInv, HasDeps
<1>5. \A g \in Groups : g <= r.group => \A i \in DOMAIN child.deps[g] : Past(r, g, i)
  <2>1. SUFFICES ASSUME NEW g \in Groups, g <= r.group, NEW i \in DOMAIN child.deps[g]
                 PROVE  Past(r, g, i)
    OBVIOUS
  <2>2. i \in Nat \ {0} /\ DOMAIN child.deps[g] = 1 .. Len(child.deps[g])
        /\ Len(child.deps[g]) \in Nat /\ g \in Nat
    BY <1>4, <2>1 DEF Groups
  <2>3. g = r.group => i < r.dep
    BY <1>2, <1>3, <2>2
  <2> QED
    BY <1>3, <2>1, <2>2, <2>3 DEF Past
<1>6. child.sound /\ child.files[r.group] \in r.shas => Excuse
  BY <1>3 DEF GateOK, GateFair, Excuse, Copies
<1>7. ~r.bad /\ child.files[r.group] \notin r.shas =>
          \A g \in Groups : g <= r.group => ~Copies(g, r.group)
  <2>1. SUFFICES ASSUME GateClean(r), child.files[r.group] \notin r.shas,
                        NEW g \in Groups, g <= r.group, NEW d \in Range(child.deps[g])
                 PROVE  child.files[r.group] # d.pin
    BY <1>3 DEF GateOK, Copies
  <2>2. PICK i \in DOMAIN child.deps[g] : d = child.deps[g][i]
    BY DEF Range
  <2> QED
    BY <1>5, <2>1, <2>2 DEF GateClean
<1>8. /\ DOMAIN next = DOMAIN r /\ next.group = r.group /\ next.shas = r.shas /\ next.vocab = r.vocab
      /\ next.bad = (r.bad \/ child.files[r.group] \in r.shas)
      /\ next.dep = r.dep /\ next.at = "parents" /\ next.todo = r.todo
  BY <1>2, <1>3
<1>9. /\ next.bad \in BOOLEAN
      /\ ~next.bad => ~r.bad /\ \A g \in Groups : g <= r.group => ~Copies(g, r.group)
      /\ child.sound /\ next.bad => Excuse
  <2>1. child.sound /\ r.bad => Excuse
    BY <1>3 DEF GateOK, GateFair
  <2> QED
    BY <1>6, <1>7, <1>8, <2>1
<1> HIDE DEF next
<1>10. CASE ~tokenizer \/ deps = <<>>
  <2>1. deps = <<>> => Range(deps) = {}
    BY DEF Range
  <2> QED
    BY <1>2, <1>3, <1>8, <1>9, <1>10, <2>1, GroupIsDone
<1>11. CASE ~(~tokenizer \/ deps = <<>>) /\ ~OneTokenizer(deps)
  <2> DEFINE s == [next EXCEPT !.bad = TRUE]
  <2>1. gate' = NextGroup(s)
    BY <1>2, <1>11
  <2>2. /\ DOMAIN s = DOMAIN r /\ s.group = r.group /\ s.shas = r.shas /\ s.vocab = r.vocab
        /\ s.bad = TRUE
    BY <1>3, <1>8
  <2>3. ~child.sound
    <3>1. Len(deps) \in Nat /\ Len(deps) # 0 /\ Len(deps) # 1
      BY <1>3, <1>11 DEF OneTokenizer
    <3>2. ~(Len(deps) <= 1)
      <4>1. \A n \in Nat : n # 0 /\ n # 1 => ~(n <= 1)
        OBVIOUS
      <4> QED
        BY <3>1, <4>1
    <3> QED
      BY <1>3, <1>11, <3>2 DEF ChildInv, HasDeps, GateOK
  <2> HIDE DEF s
  <2> QED
    BY <1>2, <1>3, <2>1, <2>2, <2>3, GroupIsDone
<1>12. CASE ~(~tokenizer \/ deps = <<>>) /\ OneTokenizer(deps)
  <2> DEFINE s == [next EXCEPT !.dep = 1, !.at = "tokenizer"]
  <2>1. /\ gate' = s
        /\ DOMAIN s = DOMAIN r /\ s.group = r.group /\ s.shas = r.shas /\ s.vocab = r.vocab
        /\ s.bad = next.bad /\ s.dep = 1 /\ s.at = "tokenizer"
    BY <1>2, <1>3, <1>8, <1>12
  <2> HIDE DEF s
  <2>2. GateTyped(s)
    <3>1. Len(deps) = 1 /\ DOMAIN deps = 1 .. 1
      BY <1>3, <1>12 DEF OneTokenizer
    <3>2. 1 \in DOMAIN deps
      BY <3>1
    <3> QED
      BY <1>3, <1>9, <1>12, <2>1, <3>1, <3>2 DEF GateTyped, Looking, TokStages
  <2>3. ~s.bad => GateClean(s)
    <3>1. SUFFICES ASSUME ~next.bad, GateClean(r) PROVE GateClean(s)
      BY <1>3, <1>9, <2>1 DEF GateOK
    <3>2. ASSUME NEW g \in Groups, NEW i \in DOMAIN child.deps[g], Past(s, g, i) PROVE Past(r, g, i)
      <4>1. g <= r.group
        BY <1>3, <2>1, <3>2 DEF Past, Groups
      <4> QED
        BY <1>5, <4>1
    <3>3. \A h \in Groups : Checked(s, h) => Checked(r, h) \/ h = r.group
      BY <2>1 DEF Checked
    <3>4. \A g, h \in Groups : g <= h /\ Checked(s, h) => ~Copies(g, h)
      BY <1>9, <3>1, <3>3 DEF GateClean
    <3>5. \A g \in Groups : \A i \in DOMAIN child.deps[g] :
              Past(s, g, i) => child.deps[g][i].pin \in s.shas /\ Traced(child.deps[g][i])
      BY <2>1, <3>1, <3>2 DEF GateClean
    <3> QED
      BY <2>1, <3>1, <3>4, <3>5 DEF GateClean
  <2>4. GateFair(s)
    BY <1>3, <1>9, <2>1 DEF GateOK, GateFair
  <2> QED
    BY <1>2, <1>3, <2>1, <2>2, <2>3, <2>4, GateGoesOn DEF GateOK
<1> QED
  BY <1>10, <1>11, <1>12

\* In the stages that look for the tokenizer, the entries of the group were compared already.
LEMMA EntriesAreDone ==
    ASSUME NEW r, GateOK(r), r.at \in TokStages, r.group \in Groups
    PROVE  /\ ~r.bad => \A g \in Groups : g <= r.group => ~Copies(g, r.group)
           /\ DOMAIN r = {"at", "group", "dep", "todo", "shas", "bad", "vocab"}
           /\ DOMAIN r.vocab = Groups /\ r.bad \in BOOLEAN /\ tokenizer
           /\ child.sound /\ r.bad => Excuse
  BY DEF GateOK, GateTyped, GateClean, GateFair, Checked

\* _resolve_tokenizer finds something wrong and turns to the next group.
LEMMA TokenizerIsWrong ==
    ASSUME ChildInv, GateUnchanged, NEW r, GateOK(r), r.at \in TokStages, r.group \in Groups,
           NEW s, gate' = NextGroup(s), s.bad = TRUE, s.group = r.group, s.shas = r.shas,
           s.vocab = r.vocab, DOMAIN s = DOMAIN r, child.sound => Excuse
    PROVE  ChildInv' /\ GateInv'
<1>1. DOMAIN s.vocab = Groups
  BY EntriesAreDone
<1> QED
  BY <1>1, GroupIsDone

\* _resolve_tokenizer reads the dataset.json of the pinned tokenizer.
LEMMA TokenizerIsRead ==
    ASSUME ShelfInv, ChildInv, GateInv, GetTokenizer PROVE ChildInv' /\ GateInv'
<1>1. PICK r : r = gate
  OBVIOUS
<1> DEFINE d == DepOf(r)
<1>2. /\ GateUnchanged /\ r.at = "tokenizer" /\ r.at \in TokStages
      /\ gate' = IF Resolvable(pds[d.ver], d.pin)
                 THEN [r EXCEPT !.todo = Recording(pds[d.ver], d.pin), !.at = "tokmanifests"]
                 ELSE NextGroup([r EXCEPT !.bad = TRUE])
  BY <1>1 DEF GetTokenizer, Dep, DepOf, TokStages
<1>3. GateOK(r)
  BY <1>1, <1>2 DEF GateInv
<1>4. /\ d \in Deps /\ d \in AllDeps /\ r.group \in Groups
      /\ r.dep \in DOMAIN child.deps[r.group]
      /\ DOMAIN r = {"at", "group", "dep", "todo", "shas", "bad", "vocab"}
  BY <1>2, <1>3, DepInSight, EntriesAreDone DEF Looking
<1>5. CASE Resolvable(pds[d.ver], d.pin)
  <2> DEFINE s == [r EXCEPT !.todo = Recording(pds[d.ver], d.pin), !.at = "tokmanifests"]
  <2>1. /\ gate' = s /\ DOMAIN s = DOMAIN r
        /\ s.at = "tokmanifests" /\ s.todo = Recording(pds[d.ver], d.pin) /\ s.group = r.group
        /\ s.dep = r.dep /\ s.shas = r.shas /\ s.bad = r.bad /\ s.vocab = r.vocab
    BY <1>2, <1>4, <1>5
  <2> HIDE DEF s
  <2>2. s.todo \subseteq PGroups /\ s.todo # {} /\ d = DepOf(s)
    BY <1>4, <1>5, <2>1, ResolvedIsTraced DEF DepOf
  <2>3. GateTyped(s)
    BY <1>2, <1>3, <1>4, <2>1, <2>2 DEF GateOK, GateTyped, Looking, TokStages
  <2>4. ~s.bad => GateClean(s)
    BY <1>2, <1>3, <2>1 DEF GateOK, GateClean, Past, Checked, TokStages
  <2>5. GateFair(s)
    BY <1>3, <2>1, <2>2 DEF GateOK, GateFair
  <2> QED
    BY <1>2, <1>3, <2>1, <2>3, <2>4, <2>5, GateGoesOn DEF GateOK
<1>6. CASE ~Resolvable(pds[d.ver], d.pin)
  <2> DEFINE s == [r EXCEPT !.bad = TRUE]
  <2>1. /\ gate' = NextGroup(s) /\ DOMAIN s = DOMAIN r /\ s.group = r.group /\ s.shas = r.shas
        /\ s.bad = TRUE /\ s.vocab = r.vocab
    BY <1>2, <1>4, <1>6
  <2> HIDE DEF s
  <2>2. child.sound => Excuse
    BY <1>3, <1>4, <1>6, HonouredIsRead, BadHasExcuse DEF GateOK
  <2> QED
    BY <1>2, <1>3, <1>4, <2>1, <2>2, TokenizerIsWrong
<1> QED
  BY <1>5, <1>6

\* It looks for tokenizer.json in the manifests of the pin, one after the other.
LEMMA TokenizerManifestIsRead ==
    ASSUME ShelfInv, ChildInv, GateInv, GetTokenizerManifest PROVE ChildInv' /\ GateInv'
<1>1. PICK r : r = gate
  OBVIOUS
<1> DEFINE d == DepOf(r)
           g == Min(r.todo)
           m == pman[d.ver][g]
           f == [r EXCEPT !.bad = TRUE, !.todo = {}]
<1>2. /\ GateUnchanged /\ r.at = "tokmanifests" /\ r.at \in TokStages
      /\ gate' = IF m \notin {d.pin, Absent} THEN NextGroup(f)
                 ELSE IF m # Absent /\ g = TokGroup THEN [r EXCEPT !.todo = {}, !.at = "json"]
                 ELSE IF r.todo = {g} THEN NextGroup(f)
                 ELSE [r EXCEPT !.todo = @ \ {g}]
  BY <1>1 DEF GetTokenizerManifest, Dep, DepOf, TokStages
<1>3. GateOK(r) /\ g \in r.todo /\ r.todo \subseteq PGroups
  BY <1>1, <1>2, MinOfGroups DEF GateInv, GateOK, GateTyped
<1>4. /\ d \in Deps /\ d \in AllDeps /\ d.ver \in Versions /\ r.group \in Groups /\ tokenizer
      /\ r.dep \in DOMAIN child.deps[r.group] /\ d.pin # Absent
      /\ DOMAIN r = {"at", "group", "dep", "todo", "shas", "bad", "vocab"}
  BY <1>2, <1>3, DepInSight, EntriesAreDone, LineageAssumption DEF Looking, Deps
<1>5. child.sound => (m = d.pin /\ g = TokGroup) \/ Excuse
  <2>1. child.sound => Excused(d.ver) \/ r.todo \subseteq Recording(pds[d.ver], d.pin)
    BY <1>2, <1>3 DEF GateOK, GateFair
  <2>2. child.sound /\ Honoured(d) /\ ~Excused(d.ver) => m = d.pin /\ g = TokGroup
    BY <1>3, <1>4, <2>1, HonouredIsRead
  <2> QED
    BY <1>3, <1>4, <2>2, BadHasExcuse DEF GateOK
<1>6. CASE gate' = NextGroup(f) /\ ~(m = d.pin /\ g = TokGroup)
  <2>1. DOMAIN f = DOMAIN r /\ f.group = r.group /\ f.shas = r.shas /\ f.bad = TRUE
        /\ f.vocab = r.vocab
    BY <1>4
  <2> HIDE DEF f, d, m, g
  <2> QED
    BY <1>2, <1>3, <1>4, <1>5, <1>6, <2>1, TokenizerIsWrong
<1>7. CASE gate' = [r EXCEPT !.todo = {}, !.at = "json"] /\ m = d.pin /\ g = TokGroup
  <2> DEFINE s == [r EXCEPT !.todo = {}, !.at = "json"]
  <2>1. /\ gate' = s /\ DOMAIN s = DOMAIN r /\ s.at = "json" /\ s.group = r.group
        /\ s.dep = r.dep /\ s.shas = r.shas /\ s.bad = r.bad /\ s.vocab = r.vocab
    BY <1>4, <1>7
  <2> HIDE DEF s
  <2>2. SameBytes(d, landing[d.ver][TokGroup]) /\ DepOf(s) = d
    <3>1. Original(d.ver) /\ TokGroup \in PGroups
      BY <1>3, <1>4, <1>7 DEF ShelfInv
    <3> QED
      BY <1>4, <1>7, <2>1, <3>1 DEF Original, SameBytes, Happened, Replaced, DepOf
  <2>3. GateTyped(s)
    BY <1>2, <1>3, <1>4, <2>1 DEF GateOK, GateTyped, Looking, TokStages
  <2>4. ~s.bad => GateClean(s)
    BY <1>2, <1>3, <2>1, <2>2 DEF GateOK, GateClean, Past, Checked, TokStages
  <2>5. GateFair(s)
    BY <1>3, <2>1 DEF GateOK, GateFair
  <2> QED
    BY <1>2, <1>3, <2>1, <2>3, <2>4, <2>5, GateGoesOn DEF GateOK
<1>8. CASE gate' = [r EXCEPT !.todo = @ \ {g}] /\ r.todo # {g}
  <2> DEFINE s == [r EXCEPT !.todo = @ \ {g}]
  <2>1. /\ gate' = s /\ DOMAIN s = DOMAIN r /\ s.at = r.at /\ s.group = r.group
        /\ s.dep = r.dep /\ s.shas = r.shas /\ s.bad = r.bad /\ s.vocab = r.vocab
        /\ s.todo \subseteq r.todo /\ s.todo # {}
    BY <1>3, <1>4, <1>8
  <2> HIDE DEF s
  <2>2. DepOf(s) = d
    BY <2>1 DEF DepOf
  <2>3. GateTyped(s)
    BY <1>2, <1>3, <1>4, <2>1 DEF GateOK, GateTyped, Looking, TokStages
  <2>4. ~s.bad => GateClean(s)
    BY <1>2, <1>3, <2>1, <2>2 DEF GateOK, GateClean, Past, Checked, TokStages
  <2>5. GateFair(s)
    BY <1>3, <2>1, <2>2 DEF GateOK, GateFair
  <2> QED
    BY <1>2, <1>3, <2>1, <2>3, <2>4, <2>5, GateGoesOn DEF GateOK
<1> QED
  BY <1>2, <1>4, <1>6, <1>7, <1>8

\* derive_vocab.
LEMMA VocabIsDerived ==
    ASSUME ShelfInv, ChildInv, GateInv, GetTokenizerJson PROVE ChildInv' /\ GateInv'
<1>1. PICK r : r = gate
  OBVIOUS
<1> DEFINE d == DepOf(r)
           o == pobj[d.ver]
           s == IF o = Absent THEN [r EXCEPT !.bad = TRUE] ELSE [r EXCEPT !.vocab[r.group] = o]
<1>2. GateUnchanged /\ r.at = "json" /\ r.at \in TokStages /\ gate' = NextGroup(s)
  BY <1>1 DEF GetTokenizerJson, Dep, DepOf, TokStages
<1>3. GateOK(r)
  BY <1>1, <1>2 DEF GateInv
<1>4. /\ d \in Deps /\ d \in AllDeps /\ d.ver \in Versions /\ r.group \in Groups /\ tokenizer
      /\ d.pin # Absent /\ DOMAIN r.vocab = Groups /\ Range(child.deps[r.group]) = {d}
      /\ DOMAIN r = {"at", "group", "dep", "todo", "shas", "bad", "vocab"}
      /\ r.bad \in BOOLEAN
  BY <1>2, <1>3, DepInSight, EntriesAreDone, LineageAssumption DEF Looking, Deps
<1>5. CASE o = Absent
  <2>1. DOMAIN s = DOMAIN r /\ s.group = r.group /\ s.shas = r.shas /\ s.bad = TRUE
        /\ s.vocab = r.vocab
    BY <1>4, <1>5
  <2>2. child.sound => Excuse
    <3>1. Honoured(d) => o = d.pin
      BY <1>4 DEF Honoured
    <3> QED
      BY <1>3, <1>4, <1>5, <3>1, BadHasExcuse DEF GateOK
  <2> HIDE DEF s
  <2> QED
    BY <1>2, <1>3, <1>4, <2>1, <2>2, TokenizerIsWrong
<1>6. CASE o # Absent
  <2>1. /\ DOMAIN s = DOMAIN r /\ s.group = r.group /\ s.shas = r.shas /\ s.bad = r.bad
        /\ s.vocab = [r.vocab EXCEPT ![r.group] = o]
    BY <1>4, <1>6
  <2> HIDE DEF s
  <2>2. DOMAIN s.vocab = Groups /\ s.vocab[r.group] = o
        /\ \A g \in Groups \ {r.group} : s.vocab[g] = r.vocab[g]
    BY <1>4, <2>1
  <2>3. ~r.bad => SameBytes(d, o)
    <3>1. Original(d.ver)
      BY <1>4 DEF ShelfInv
    <3>2. ~r.bad => SameBytes(d, landing[d.ver][TokGroup])
      BY <1>2, <1>3 DEF GateOK, GateClean
    <3>3. d.ver \notin again /\ <<"object", d.ver>> \notin decays => o = landing[d.ver][TokGroup]
      BY <1>6, <3>1 DEF Original
    <3> HIDE DEF d, o
    <3>4. <<"object", d.ver>> \in decays => Happened({"object", "replaced"}, d.ver)
      BY DEF Happened
    <3> QED
      BY <3>2, <3>3, <3>4 DEF SameBytes
  <2> HIDE DEF d, o
  <2>4. ~r.bad => \A e \in Range(child.deps[r.group]) : SameBytes(e, s.vocab[r.group])
    BY <1>4, <2>2, <2>3
  <2> QED
    BY <1>2, <1>3, <1>4, <2>1, <2>2, <2>4, EntriesAreDone, GroupIsDone
<1> QED
  BY <1>5, <1>6

\* The verdict of a Gate A that found nothing wrong: the pins of the child were traced, it copied
\* nothing, and the vocabularies are those of the pinned tokenizers.
LEMMA CleanIsRight ==
    ASSUME ChildInv, NEW r, GateOK(r), r.at = "verdict", ~r.bad
    PROVE  /\ \A d \in AllDeps : Traced(d)
           /\ \A g, h \in Groups : g <= h => ~Copies(g, h)
           /\ tokenizer => \A g \in Groups : \A d \in Range(child.deps[g]) :
                               SameBytes(d, r.vocab[g])
<1>1. GateClean(r) /\ r.group = NGroups + 1 /\ NGroups \in Nat /\ child.pc = "landed"
  BY LineageAssumption DEF GateOK, GateTyped
<1>2. \A g \in Groups : g < r.group
  BY <1>1 DEF Groups
<1>3. ASSUME NEW d \in AllDeps PROVE Traced(d)
  <2>1. PICK g \in Groups : d \in Range(child.deps[g])
    BY DEF AllDeps
  <2>2. PICK i \in DOMAIN child.deps[g] : d = child.deps[g][i]
    BY <2>1 DEF Range
  <2> QED
    BY <1>1, <1>2, <2>2 DEF GateClean, Past
<1> QED
  BY <1>1, <1>2, <1>3 DEF GateClean, Checked

\* The verdict is what is true of the child at the time.
LEMMA VerdictIsRight ==
    ASSUME ShelfInv, ChildInv, GateInv, SweepInv, Verdict
    PROVE  ChildInv' /\ GateInv' /\ SweepInv'
<1>1. PICK r : r = gate
  OBVIOUS
<1>2. /\ r.at = "verdict"
      /\ child' = [child EXCEPT !.pc = IF r.bad THEN "rejected" ELSE "accepted"]
      /\ gate' = [IdleGate EXCEPT !.vocab = r.vocab]
      /\ UNCHANGED <<tokenizer, landing, pds, pman, pobj, catalog, sealed, job, sweep, deaths, again,
                     decays>>
  BY <1>1 DEF Verdict, shelfVars, historyVars
<1>3. GateOK(r) /\ child.pc = "landed" /\ HasDeps
  BY <1>1, <1>2 DEF GateInv, GateOK, HasDeps
<1>4. /\ DOMAIN child' = DOMAIN child /\ child'.pc = (IF r.bad THEN "rejected" ELSE "accepted")
      /\ child'.deps = child.deps /\ child'.files = child.files /\ child'.sound = child.sound
  BY <1>2 DEF ChildInv
<1>5. gate'.at = "idle" /\ gate'.vocab = r.vocab
  BY <1>2 DEF IdleGate
<1>6. AllDeps' = AllDeps
  BY <1>4 DEF AllDeps
<1>7. child.sound => /\ \A d \in AllDeps : (Honoured(d) \/ Excused(d.ver))'
                     /\ tokenizer => \A g \in Groups : Len(child.deps[g]) <= 1
  BY <1>2, <1>3 DEF ChildInv, Honoured, Excused
<1>8. ASSUME ~r.bad
      PROVE  /\ \A d \in AllDeps : Traced(d)'
             /\ NoCopiedBytes'
             /\ tokenizer => \A g \in Groups : \A d \in Range(child.deps[g]) :
                                 SameBytes(d, r.vocab[g])'
  <2>1. \A d \in AllDeps : Traced(d)'
    BY <1>2, <1>3, <1>8, CleanIsRight DEF Traced, Lost, Replaced
  <2>2. NoCopiedBytes'
    BY <1>2, <1>3, <1>4, <1>8, CleanIsRight DEF NoCopiedBytes, Copies
  <2>3. tokenizer => \A g \in Groups : \A d \in Range(child.deps[g]) : SameBytes(d, r.vocab[g])'
    BY <1>2, <1>3, <1>8, CleanIsRight DEF SameBytes, Happened
  <2> QED
    BY <2>1, <2>2, <2>3
<1>9. child.sound /\ r.bad => Excuse'
  <2>1. child.sound /\ r.bad => Excuse
    BY <1>3 DEF GateOK, GateFair
  <2>2. Excuse => Excuse'
    BY <1>2, <1>4, <1>6 DEF Excuse, Copies, Excused
  <2> QED
    BY <2>1, <2>2
<1>10. ChildInv'
  <2>1. child'.pc \in {"accepted", "rejected"} /\ HasDeps'
    BY <1>4 DEF HasDeps
  <2>2. child'.deps \in [Groups -> Seq(Deps)]
    BY <1>3, <1>4 DEF ChildInv
  <2>3. child'.pc = "accepted" => ~r.bad
    BY <1>4
  <2>4. child'.pc = "rejected" => r.bad
    BY <1>4
  <2>5. child'.pc = "accepted" =>
            /\ \A d \in AllDeps' : Traced(d)'
            /\ NoCopiedBytes'
            /\ tokenizer' => \A g \in Groups : \A d \in Range(child'.deps[g]) :
                                SameBytes(d, gate.vocab[g])'
    BY <1>2, <1>4, <1>5, <1>6, <1>8, <2>3 DEF SameBytes
  <2>6. child'.pc = "rejected" /\ child'.sound => Excuse'
    BY <1>4, <1>9, <2>4
  <2>7. child'.sound => /\ \A d \in AllDeps' : (Honoured(d) \/ Excused(d.ver))'
                        /\ tokenizer' => \A g \in Groups : Len(child'.deps[g]) <= 1
    BY <1>2, <1>4, <1>6, <1>7
  <2>8. DOMAIN child' = {"pc", "files", "deps", "ver", "pinned", "sound"}
    BY <1>4 DEF ChildInv
  <2> QED
    BY <1>4, <2>1, <2>2, <2>5, <2>6, <2>7, <2>8 DEF ChildInv
<1>11. GateInv'
  BY <1>5 DEF GateInv
<1>12. SweepInv'
  BY <1>2, <1>3 DEF SweepInv, ParentsSwept
<1> QED
  BY <1>10, <1>11, <1>12

\* The steps of Gate A.
LEMMA GateSteps ==
    ASSUME ShelfInv, ChildInv, GateInv, SweepInv, GateNext
    PROVE  ChildInv' /\ GateInv' /\ SweepInv'
           /\ UNCHANGED <<tokenizer, landing, shelfVars, job, sweep, again, decays>>
<1>1. CASE Verdict
  BY <1>1, VerdictIsRight DEF Verdict, historyVars
<1>2. CASE GateDies
  <2>1. /\ gate'.at = "idle" /\ UNCHANGED <<tokenizer, landing, shelfVars, job, child, sweep, again, decays>>
        /\ gate.at # "idle"
    BY <1>2 DEF GateDies, IdleGate
  <2>2. child.pc = "landed"
    BY <2>1 DEF GateInv, GateOK
  <2>3. UNCHANGED <<pds, pman, pobj, catalog, sealed>>
    BY <2>1 DEF shelfVars
  <2>4. ChildInv'
    BY <2>1, <2>2, <2>3 DEF ChildInv, HasDeps, Honoured, Excused, AllDeps
  <2>5. SweepInv'
    BY <2>1, <2>2 DEF SweepInv, ParentsSwept
  <2> QED
    BY <2>1, <2>4, <2>5 DEF GateInv
<1>3. CASE ~Verdict /\ ~GateDies
  <2>1. GateUnchanged /\ ChildInv' /\ GateInv' /\ child.pc = "landed"
    <3>1. GateUnchanged /\ (StartGate \/ gate.at # "idle")
      BY <1>3 DEF GateNext, StartGate, GetParent, GetParentManifest, CheckEntries, GetTokenizer,
                  GetTokenizerManifest, GetTokenizerJson
    <3>2. child.pc = "landed"
      BY <3>1 DEF StartGate, GateInv, GateOK
    <3> QED
      BY <1>3, <3>1, <3>2, GateStarts, ParentIsRead, ManifestIsRead, EntriesAreChecked,
         TokenizerIsRead, TokenizerManifestIsRead, VocabIsDerived DEF GateNext
  <2>2. UNCHANGED <<tokenizer, landing, shelfVars, job, child, sweep, again, decays>>
    BY <2>1 DEF GateUnchanged, historyVars
  <2>3. SweepInv'
    BY <2>1, <2>2 DEF SweepInv, ParentsSwept
  <2> QED
    BY <2>1, <2>2, <2>3
<1> QED
  BY <1>1, <1>2, <1>3

-----------------------------------------------------------------------------
(* The sweep. *)

\* What it says of a dependency, as it is known to SweepInv.
LEMMA FindingsAre ==
    ASSUME SweepInv, child.pc = "accepted", NEW d \in AllDeps
    PROVE  /\ <<"dangling-parent", d>> \in sweep.findings => Lost(d.ver)
           /\ <<"parent-changed", d>> \in sweep.findings =>
                 Replaced(d.ver) \/ d.ver \in again \/ Unrecorded(sweep.seen[d.ver])
  BY DEF SweepInv, ParentsSwept, Happened, Lost, Replaced

\* The parent moves during a sweep.
LEMMA MovesKeepSweepOf ==
    ASSUME ShelfInv, ParentMoves, sweep.old \subseteq decays, NEW d, Traced(d), SweepOf(d)
    PROVE  SweepOf(d)'
<1> DEFINE v == d.ver
<1>0. /\ v \in Versions /\ UNCHANGED <<child, sweep>> /\ OnlyGrows /\ MovesTo(v) /\ Original(v)
      /\ landing[v] \in Drafts /\ \A t \in Drafts : t # NoDoc /\ ~Unrecorded(t)
      /\ Lost(v) \/ Replaced(v) => v \in sealed
  BY DraftIs DEF Traced, Deps, ParentMoves, ParentOnly, ShelfInv, Lost, Replaced
<1>1. Touched(v) => Touched(v)'
  BY <1>0 DEF Touched, OnlyGrows
<1>2. /\ SeenRecords(d) <=> SeenRecords(d)'
      /\ Found(d) <=> Found(d)'
  BY <1>0 DEF SeenRecords, Found
<1>3. \A what \in {"lost", "replaced"} : <<what, v>> \in decays' \ decays => Touched(v)'
  BY <1>0 DEF Touched
<1>4. pds'[v] # NoDoc => v \in again' \/ Replaced(v)' \/ pds'[v] = sweep.seen[v]
  <2>1. SUFFICES ASSUME pds'[v] # NoDoc, v \notin again', ~Replaced(v)' PROVE pds'[v] = sweep.seen[v]
    OBVIOUS
  <2>2. v \notin again /\ ~Replaced(v)
    BY <1>0, <2>1 DEF OnlyGrows, Replaced
  <2>3. pds[v] # NoDoc
    BY <1>0, <2>1, DocumentStays DEF Traced, Replaced
  <2>4. pds'[v] = pds[v]
    BY <1>0, <2>1, <2>3, DocumentStays
  <2> QED
    BY <2>2, <2>3, <2>4 DEF SweepOf
<1>5. Touched(v)' \/ pds'[v] = sweep.seen[v] \/ SeenRecords(d)
  <2>1. SUFFICES ASSUME pds[v] = sweep.seen[v], pds'[v] # pds[v]
                 PROVE  Touched(v)' \/ SeenRecords(d)
    BY <1>1 DEF SweepOf
  <2>2. CASE Promoted(v)
    <3>1. pds[v] # NoDoc /\ pds'[v] = landing[v] /\ v \notin sealed /\ pds[v] \in Drafts
      BY <1>0, <2>1, <2>2 DEF Promoted, Traced, Original
    <3>2. d.pin \in Range(pds[v])
      BY <1>0, <2>1, <3>1 DEF Traced
    <3> QED
      BY <2>1, <3>1, <3>2 DEF SeenRecords
  <2>3. CASE Decayed1(v)
    <3>1. PICK what \in Decays : <<what, v>> \in decays' \ decays /\ what \in {"lost", "replaced"}
      BY <2>1, <2>3 DEF Decayed1, Decays
    <3>2. Touched(v)'
      BY <1>0, <3>1 DEF Touched
    <3> QED
      BY <3>2
  <2> QED
    BY <1>0, <2>1, <2>2, <2>3 DEF MovesTo, Kept, Renewed
<1>6. ASSUME sweep.at = "pinned", sweep.dep = d, pds'[v] = NoDoc PROVE Touched(v)'
  <2>1. CASE pds[v] = NoDoc
    BY <1>1, <1>6, <2>1 DEF SweepOf
  <2>2. CASE pds[v] # NoDoc
    <3>1. <<"lost", v>> \in decays' \ decays
      BY <1>0, <1>6, <2>2, DocumentStays
    <3> QED
      BY <1>0, <3>1 DEF Touched
  <2> QED
    BY <2>1, <2>2
<1> QED
  BY <1>0, <1>1, <1>2, <1>4, <1>5, <1>6 DEF SweepOf

\* The same for the sweep as a whole.
LEMMA MovesKeepSweep ==
    ASSUME ShelfInv, ChildInv, SweepInv, ParentMoves PROVE SweepInv'
<1>0. UNCHANGED <<child, sweep>> /\ OnlyGrows /\ AllDeps' = AllDeps /\ sweep.old \subseteq decays'
  BY DEF ParentMoves, ParentOnly, AllDeps, OnlyGrows, SweepInv
<1>1. CASE sweep.at = "idle"
  BY <1>0, <1>1 DEF SweepInv, ParentsSwept
<1>2. CASE sweep.at # "idle"
  <2>1. child.pc = "accepted" /\ \A d \in AllDeps : Traced(d) /\ SweepOf(d)
    BY <1>2 DEF SweepInv, ChildInv
  <2>2. \A d \in AllDeps : SweepOf(d)'
    BY <2>1, MovesKeepSweepOf DEF SweepInv
  <2>3. \A d \in AllDeps :
            /\ <<"dangling-parent", d>> \in sweep.findings => Lost(d.ver)'
            /\ <<"parent-changed", d>> \in sweep.findings =>
                  Replaced(d.ver)' \/ d.ver \in again' \/ Unrecorded(sweep.seen[d.ver])
    BY <1>0, <2>1, FindingsAre DEF OnlyGrows, Lost, Replaced
  <2>4. ParentsSwept'
    <3>1. sweep.at = "done" => sweep.todo = {}
      BY <1>2 DEF SweepInv
    <3>2. \A d \in AllDeps :
            /\ <<"dangling-parent", d>> \in sweep.findings => Happened({"lost"}, d.ver)'
            /\ <<"parent-changed", d>> \in sweep.findings =>
                  Happened({"replaced"}, d.ver)' \/ d.ver \in again' \/ Unrecorded(sweep.seen[d.ver])
      BY <2>3 DEF Happened, Lost, Replaced
    <3>3. sweep.at = "done" =>
              \A d \in AllDeps : SeenRecords(d)' \/ Touched(d.ver)' \/ Found(d)'
      BY <1>0, <2>2, <3>1 DEF SweepOf
    <3> QED
      BY <1>0, <3>2, <3>3 DEF ParentsSwept, SeenRecords, Touched, Found, Codes
  <2> QED
    BY <1>0, <2>1, <2>2, <2>4 DEF SweepInv
<1> QED
  BY <1>1, <1>2

\* A sweep that is right about each dependency after its step.
LEMMA SweepIsRight ==
    ASSUME NEW s, sweep' = s, SweepUnchanged, child.pc = "accepted",
           s.at \in {"exists", "pinned", "done"},
           DOMAIN s = {"at", "todo", "dep", "findings", "seen", "old"},
           s.old \subseteq decays, s.todo \subseteq AllDeps, s.at = "done" => s.todo = {},
           s.at = "pinned" => s.dep \in AllDeps,
           \A d \in AllDeps :
              /\ SweepOf(d)'
              /\ <<"dangling-parent", d>> \in s.findings => Lost(d.ver)
              /\ <<"parent-changed", d>> \in s.findings =>
                    Replaced(d.ver) \/ d.ver \in again \/ Unrecorded(s.seen[d.ver])
    PROVE  SweepInv'
<1>1. UNCHANGED <<child, again, decays>> /\ AllDeps' = AllDeps
  BY DEF SweepUnchanged, historyVars, AllDeps
<1>2. \A d \in AllDeps :
          /\ <<"dangling-parent", d>> \in s.findings => Happened({"lost"}, d.ver)'
          /\ <<"parent-changed", d>> \in s.findings =>
                Happened({"replaced"}, d.ver)' \/ d.ver \in again \/ Unrecorded(s.seen[d.ver])
  BY <1>1 DEF Happened, Lost, Replaced
<1>3. s.at = "done" => \A d \in AllDeps : SeenRecords(d)' \/ Touched(d.ver)' \/ Found(d)'
  BY DEF SweepOf
<1>4. ParentsSwept'
  BY <1>1, <1>2, <1>3 DEF ParentsSwept, SeenRecords, Touched, Found, Codes
<1> QED
  BY <1>1, <1>4 DEF SweepInv

\* The steps of wu-fsck.
LEMMA SweepSteps == ASSUME ChildInv, SweepInv, SweepNext PROVE SweepInv'
<1>0. /\ SweepUnchanged /\ child.pc = "accepted"
      /\ UNCHANGED <<pds, again, decays, child>> /\ AllDeps' = AllDeps
  <2>1. SweepUnchanged /\ (child.pc = "accepted" \/ sweep.at \in {"exists", "pinned"})
    BY DEF SweepNext, StartSweep, ParentExists, ParentPinned
  <2>2. child.pc = "accepted"
    BY <2>1 DEF SweepInv
  <2> QED
    BY <2>1, <2>2 DEF SweepUnchanged, shelfVars, historyVars, AllDeps
<1>1. \A d \in AllDeps : Traced(d)
  BY <1>0 DEF ChildInv
<1>2. CASE StartSweep
  <2> DEFINE s == [NewSweep EXCEPT !.at = "exists", !.todo = AllDeps, !.seen = pds, !.old = decays]
  <2>1. sweep' = s
    BY <1>2 DEF StartSweep
  <2>2. /\ s.at = "exists" /\ s.todo = AllDeps /\ s.seen = pds /\ s.old = decays /\ s.findings = {}
        /\ DOMAIN s = {"at", "todo", "dep", "findings", "seen", "old"}
    BY DEF NewSweep
  <2> HIDE DEF s
  <2>3. \A d \in AllDeps : SweepOf(d)'
    BY <1>0, <2>1, <2>2 DEF SweepOf
  <2> QED
    BY <1>0, <2>1, <2>2, <2>3, SweepIsRight
<1>3. CASE ParentExists /\ \E d \in sweep.todo : pds[d.ver] = NoDoc /\ sweep' =
              SweepOn([sweep EXCEPT !.todo = @ \ {d}, !.findings = @ \cup {<<"dangling-parent", d>>}])
  <2>1. PICK d \in sweep.todo : pds[d.ver] = NoDoc /\ sweep' =
              SweepOn([sweep EXCEPT !.todo = @ \ {d}, !.findings = @ \cup {<<"dangling-parent", d>>}])
    BY <1>3
  <2>2. PICK s : s = sweep'
    OBVIOUS
  <2>3. /\ s.todo = sweep.todo \ {d} /\ s.findings = sweep.findings \cup {<<"dangling-parent", d>>}
        /\ s.seen = sweep.seen /\ s.old = sweep.old /\ DOMAIN s = DOMAIN sweep
        /\ s.at = (IF s.todo = {} THEN "done" ELSE "exists")
    BY <2>1, <2>2 DEF SweepOn, SweepInv
  <2>4. sweep.at # "idle"
    BY <1>3 DEF ParentExists
  <2>5. d \in AllDeps /\ Lost(d.ver)
    BY <1>1, <2>1, <2>4 DEF Traced, SweepInv
  <2>6. \A e \in AllDeps : SweepOf(e)'
    <3>1. SUFFICES ASSUME NEW e \in AllDeps PROVE SweepOf(e)'
      OBVIOUS
    <3>2. SweepOf(e)
      BY <2>4 DEF SweepInv
    <3>3. e \notin s.todo => e \notin sweep.todo \/ Found(e)'
      BY <2>2, <2>3 DEF Found, Codes
    <3> QED
      BY <1>0, <2>2, <2>3, <3>2, <3>3 DEF SweepOf, SeenRecords, Touched, Found, Replaced
  <2>7. \A e \in AllDeps :
            /\ <<"dangling-parent", e>> \in s.findings => Lost(e.ver)
            /\ <<"parent-changed", e>> \in s.findings =>
                  Replaced(e.ver) \/ e.ver \in again \/ Unrecorded(s.seen[e.ver])
    BY <1>0, <2>3, <2>5, FindingsAre
  <2> QED
    BY <1>0, <2>2, <2>3, <2>4, <2>6, <2>7, SweepIsRight DEF SweepInv
<1>4. CASE ParentExists /\ \E d \in sweep.todo :
              pds[d.ver] # NoDoc /\ sweep' = [sweep EXCEPT !.dep = d, !.at = "pinned"]
  <2>1. PICK d \in sweep.todo :
              pds[d.ver] # NoDoc /\ sweep' = [sweep EXCEPT !.dep = d, !.at = "pinned"]
    BY <1>4
  <2>2. PICK s : s = sweep'
    OBVIOUS
  <2>3. /\ s.todo = sweep.todo /\ s.findings = sweep.findings /\ s.seen = sweep.seen
        /\ s.old = sweep.old /\ DOMAIN s = DOMAIN sweep /\ s.at = "pinned" /\ s.dep = d
    BY <2>1, <2>2 DEF SweepInv
  <2>4. sweep.at # "idle" /\ d \in AllDeps
    BY <1>4, <2>1 DEF ParentExists, SweepInv
  <2>5. \A e \in AllDeps : SweepOf(e)'
    <3>1. \A e \in AllDeps : SweepOf(e)
      BY <2>4 DEF SweepInv
    <3> QED
      BY <1>0, <2>1, <2>2, <2>3, <3>1 DEF SweepOf, SeenRecords, Touched, Found, Replaced
  <2>6. \A e \in AllDeps :
            /\ <<"dangling-parent", e>> \in s.findings => Lost(e.ver)
            /\ <<"parent-changed", e>> \in s.findings =>
                  Replaced(e.ver) \/ e.ver \in again \/ Unrecorded(s.seen[e.ver])
    BY <1>0, <2>3, FindingsAre
  <2> QED
    BY <1>0, <2>2, <2>3, <2>4, <2>5, <2>6, SweepIsRight DEF SweepInv
<1>5. CASE ParentPinned
  <2>1. PICK d : d = sweep.dep
    OBVIOUS
  <2> DEFINE gone == pds[d.ver] # NoDoc /\ d.pin \notin Range(pds[d.ver])
  <2>2. PICK s : s = sweep'
    OBVIOUS
  <2>3. /\ s.todo = sweep.todo \ {d} /\ s.seen = sweep.seen
        /\ s.findings = IF gone THEN sweep.findings \cup {<<"parent-changed", d>>} ELSE sweep.findings
        /\ s.old = sweep.old /\ DOMAIN s = DOMAIN sweep
        /\ s.at = (IF s.todo = {} THEN "done" ELSE "exists")
    BY <1>5, <2>1, <2>2 DEF ParentPinned, SweepOn, SweepInv
  <2>4. sweep.at = "pinned" /\ d \in AllDeps /\ SweepOf(d)
    BY <1>5, <2>1 DEF ParentPinned, SweepInv
  <2>5. gone => Replaced(d.ver) \/ d.ver \in again \/ Unrecorded(sweep.seen[d.ver])
    BY <1>1, <2>4 DEF Traced, SweepOf
  <2>6. SeenRecords(d) \/ Touched(d.ver) \/ gone
    BY <2>1, <2>4 DEF SweepOf, SeenRecords
  <2>7. \A e \in AllDeps : SweepOf(e)'
    <3>1. SUFFICES ASSUME NEW e \in AllDeps PROVE SweepOf(e)'
      OBVIOUS
    <3>2. SweepOf(e)
      BY <2>4 DEF SweepInv
    <3>3. gone => Found(d)'
      BY <2>2, <2>3 DEF Found, Codes
    <3>4. e \notin s.todo => SeenRecords(e) \/ Touched(e.ver) \/ Found(e) \/ Found(e)'
      BY <2>3, <2>6, <3>2, <3>3 DEF SweepOf
    <3>5. Found(e) => Found(e)'
      BY <2>2, <2>3 DEF Found
    <3> HIDE DEF gone
    <3> QED
      BY <1>0, <2>2, <2>3, <3>2, <3>4, <3>5 DEF SweepOf, SeenRecords, Touched, Replaced
  <2>8. \A e \in AllDeps :
            /\ <<"dangling-parent", e>> \in s.findings => Lost(e.ver)
            /\ <<"parent-changed", e>> \in s.findings =>
                  Replaced(e.ver) \/ e.ver \in again \/ Unrecorded(s.seen[e.ver])
    <3> HIDE DEF gone
    <3>1. SUFFICES ASSUME NEW e \in AllDeps
                   PROVE  /\ <<"dangling-parent", e>> \in s.findings => Lost(e.ver)
                          /\ <<"parent-changed", e>> \in s.findings =>
                                Replaced(e.ver) \/ e.ver \in again \/ Unrecorded(s.seen[e.ver])
      OBVIOUS
    <3>2. \/ s.findings = sweep.findings
          \/ gone /\ s.findings = sweep.findings \cup {<<"parent-changed", d>>}
      BY <2>3
    <3>3. <<"dangling-parent", e>> \in s.findings => <<"dangling-parent", e>> \in sweep.findings
      BY <3>2
    <3>4. <<"parent-changed", e>> \in s.findings =>
              <<"parent-changed", e>> \in sweep.findings \/ (gone /\ e = d)
      BY <3>2
    <3> QED
      BY <1>0, <2>3, <2>5, <3>3, <3>4, FindingsAre
  <2> QED
    BY <1>0, <2>2, <2>3, <2>4, <2>7, <2>8, SweepIsRight DEF SweepInv
<1> QED
  BY <1>2, <1>3, <1>4, <1>5 DEF SweepNext, ParentExists

-----------------------------------------------------------------------------
(* All of it is kept. *)

\* At the beginning nothing is judged yet.
LEMMA InitIInv == LineageInit => IInv
<1> SUFFICES ASSUME LineageInit PROVE IInv
  OBVIOUS
<1>1. ShelfInv
  BY InitShelf
<1>2. child.pc = "declare" /\ DOMAIN child = {"pc", "files", "deps", "ver", "pinned", "sound"}
  BY DEF LineageInit
<1>3. ChildInv
  BY <1>2 DEF ChildInv, HasDeps
<1>4. GateInv
  BY DEF LineageInit, IdleGate, GateInv
<1>5. /\ sweep.at = "idle" /\ sweep.findings = {} /\ sweep.old = {}
      /\ DOMAIN sweep = {"at", "todo", "dep", "findings", "seen", "old"}
  BY DEF LineageInit, NewSweep
<1>6. SweepInv
  BY <1>2, <1>5 DEF SweepInv, ParentsSwept
<1> QED
  BY <1>1, <1>3, <1>4, <1>6 DEF IInv

\* The shelf stays in order when others move.
LEMMA OthersKeepShelf ==
    ASSUME ShelfInv, UNCHANGED <<tokenizer, landing, shelfVars, job, again, decays>>
    PROVE  ShelfInv'
  BY DEF ShelfInv, shelfVars, IsDoc, Unrecorded, JobOK, Original, Replaced

\* A step that changes nothing is one that leaves every version as it is.
LEMMA StutterMoves == ASSUME ShelfInv, UNCHANGED lineageVars PROVE ParentMoves
<1>1. UNCHANGED <<tokenizer, landing, pds, pman, pobj, catalog, sealed, job, child, gate, sweep,
                  deaths, again, decays>>
  BY DEF lineageVars, shelfVars, historyVars
<1>2. JobOK'
  BY <1>1 DEF ShelfInv, JobOK
<1>3. ShelfTyped'
  BY <1>1 DEF ShelfInv, ShelfTyped, IsDoc, Unrecorded
<1> QED
  BY <1>1, <1>2, <1>3 DEF ParentMoves, ParentOnly, OnlyGrows, MovesTo, Kept

\* Every step keeps the invariant.
LEMMA StepIInv == IInv /\ [LineageNext]_lineageVars => IInv'
<1> SUFFICES ASSUME IInv, [LineageNext]_lineageVars PROVE IInv'
  OBVIOUS
<1>0. ShelfInv /\ ChildInv /\ GateInv /\ SweepInv
  BY DEF IInv
<1>1. CASE ParentNext \/ UNCHANGED lineageVars
  <2>1. ParentMoves
    BY <1>0, <1>1, NextMoves, StutterMoves
  <2> QED
    BY <1>0, <2>1, MovesKeepShelf, MovesKeepChild, MovesKeepGate, MovesKeepSweep DEF IInv
<1>2. CASE ChildNext
  <2>1. /\ ChildInv' /\ child.pc \in {"declare", "pin"}
        /\ UNCHANGED <<tokenizer, landing, shelfVars, job, gate, sweep, historyVars>>
    BY <1>0, <1>2, ChildSteps
  <2>2. ShelfInv'
    BY <1>0, <2>1, OthersKeepShelf DEF historyVars
  <2>3. gate.at = "idle" /\ sweep.at = "idle" /\ sweep.findings = {}
    BY <1>0, <2>1 DEF GateInv, GateOK, SweepInv
  <2>4. GateInv'
    BY <2>1, <2>3 DEF GateInv
  <2>5. SweepInv'
    BY <1>0, <2>1, <2>3 DEF SweepInv, ParentsSwept, historyVars
  <2> QED
    BY <2>1, <2>2, <2>4, <2>5 DEF IInv
<1>3. CASE GateNext
  <2>1. /\ ChildInv' /\ GateInv' /\ SweepInv'
        /\ UNCHANGED <<tokenizer, landing, shelfVars, job, sweep, again, decays>>
    BY <1>0, <1>3, GateSteps
  <2> QED
    BY <1>0, <2>1, OthersKeepShelf DEF IInv
<1>4. CASE SweepNext
  <2>1. SweepInv' /\ SweepUnchanged /\ child.pc = "accepted"
    BY <1>0, <1>4, SweepSteps DEF SweepNext, StartSweep, ParentExists, ParentPinned, SweepInv
  <2>2. UNCHANGED <<tokenizer, landing, pds, pman, pobj, catalog, sealed, job, child, gate, again,
                    decays>>
    BY <2>1 DEF SweepUnchanged, shelfVars, historyVars
  <2>3. ShelfInv'
    BY <1>0, <2>1, OthersKeepShelf DEF SweepUnchanged, historyVars
  <2>4. GateInv'
    BY <1>0, <2>1, <2>2 DEF GateInv, GateOK
  <2>5. ChildInv'
    <3>1. \A d \in AllDeps : Traced(d)'
      BY <1>0, <2>1, <2>2 DEF ChildInv, Traced, Lost, Replaced, Unrecorded
    <3>2. child.sound => \A d \in AllDeps : (Honoured(d) \/ Excused(d.ver))'
      BY <1>0, <2>1, <2>2 DEF ChildInv, HasDeps, Honoured, Excused, Unrecorded
    <3>3. AllDeps' = AllDeps /\ NoCopiedBytes'
      BY <1>0, <2>1, <2>2 DEF AllDeps, ChildInv, NoCopiedBytes
    <3>4. tokenizer => \A g \in Groups : \A d \in Range(child.deps[g]) : SameBytes(d, gate.vocab[g])'
      BY <1>0, <2>1, <2>2 DEF ChildInv, SameBytes, Happened
    <3> QED
      BY <1>0, <2>1, <2>2, <3>1, <3>2, <3>3, <3>4 DEF ChildInv, HasDeps
  <2> QED
    BY <2>1, <2>3, <2>4, <2>5 DEF IInv
<1> QED
  BY <1>1, <1>2, <1>3, <1>4 DEF LineageNext

\* The invariant holds for every value of the constants.
LEMMA Invariance == LineageSpec => []IInv
<1>1. LineageInit => IInv
  BY InitIInv
<1>2. IInv /\ [LineageNext]_lineageVars => IInv'
  BY StepIInv
<1> QED
  BY <1>1, <1>2, PTL DEF LineageSpec

-----------------------------------------------------------------------------
(* The theorems. *)

\* No file of an accepted child is a file that it, or a group before it, depends on: Gate A
\* registers every entry of the manifests it resolves, whatever validator jobs promote, and
\* whatever decays, between two of its requests (_register_parent_shas, _check_entries).
THEOREM NothingIsCopied == LineageSpec => []NoCopiedBytes
<1>1. IInv => NoCopiedBytes
  BY DEF IInv, ChildInv, NoCopiedBytes
<1> QED
  BY <1>1, Invariance, PTL

\* The vocabulary that bounds the ids of an accepted child of tokens is derived from the bytes its
\* pin names, unless the tokenizer's number was handed out again, or tokenizer.json was
\* overwritten or replaced by hand (_resolve_tokenizer).
THEOREM VocabularyIsThePinned == LineageSpec => []VocabIsPinned
<1>1. IInv => VocabIsPinned
  BY DEF IInv, ChildInv, VocabIsPinned, SameBytes
<1> QED
  BY <1>1, Invariance, PTL

\* A child that was good when it was published is rejected only when it copied a byte, or when one
\* of its parents did not stay as it was meanwhile.
THEOREM GoodChildrenPass == LineageSpec => []GoodChildAccepted
<1>1. IInv => GoodChildAccepted
  BY DEF IInv, ChildInv, GoodChildAccepted, Excuse, Copies, Excused
<1> QED
  BY <1>1, Invariance, PTL

\* wu-fsck, which GETs the document of a parent twice, reports no parent without a cause, and
\* overlooks none that did not change between the beginning of the sweep and its end.
THEOREM ParentsAreSwept == LineageSpec => []ParentsSwept
<1>1. IInv => ParentsSwept
  BY DEF IInv, SweepInv
<1> QED
  BY <1>1, Invariance, PTL
=============================================================================
