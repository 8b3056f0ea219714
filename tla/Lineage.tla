------------------------------ MODULE Lineage ------------------------------
(***************************************************************************)
(* depends_on.  A dataset pins manifests of a parent in edullm-data, which *)
(* validator jobs promote meanwhile; publish() takes the pin of a          *)
(* tokenizer from the catalog, Gate A resolves every pin request by        *)
(* request, and wu-fsck looks at the pins of what was accepted.  A group   *)
(* of the parent has one file, so that a manifest, its digest and the      *)
(* digest of the file are one value.                                       *)
(***************************************************************************)
EXTENDS Naturals, Sequences, Functions, FiniteSetsExt

CONSTANTS
    NVersions,   \* versions of the parent
    NGroups,     \* groups of the child, in the order of dataset.json
    Bytes,       \* contents of files
    Absent,      \* the parent has no such group, or no object is there
    NoDoc,       \* no document is there
    NoPin,       \* a digest that is not recorded
    Drafts,      \* parents that landing may hold
    Shelves,     \* what may be published at the beginning, see Published
    Children,    \* the files of a child
    ByHand,      \* depends_on as producers may write it, per group
    MaxDeaths,   \* bound: jobs killed half-way
    MaxDecays    \* bound: how often something decays

Versions == 1 .. NVersions
Groups   == 1 .. NGroups
PGroups  == {1, 2}   \* groups of the parent
TokGroup == 1        \* the one that holds tokenizer.json, if the parent is a tokenizer
Trees    == [PGroups -> Bytes \cup {Absent}]
Deps     == [ver : Versions, pin : Bytes \cup {NoPin}]
\* An old dataset.json does not record the digests of its groups.
Published == [tree : Drafts, legacy : BOOLEAN]

ASSUME LineageAssumption ==
    /\ NVersions \in Nat /\ NGroups \in Nat \ {0} /\ MaxDeaths \in Nat /\ MaxDecays \in Nat
    /\ Absent \notin Bytes /\ NoPin \notin Bytes \cup {Absent}
    /\ NoDoc \notin [PGroups -> Bytes \cup {Absent, NoPin}] \cup Published
    /\ Drafts \subseteq {t \in Trees : t[TokGroup] # Absent /\ IsInjective(t)}
    /\ Shelves \subseteq [Versions -> Published \cup {NoDoc}]
    /\ Children \subseteq [Groups -> Bytes]
    /\ ByHand \subseteq [Groups -> Seq(Deps)]

VARIABLES
    tokenizer,  \* whether the parent is a tokenizer dataset
    landing,    \* the parent's versions in landing
    pds,        \* data: dataset.json of the parent, the pin of each of its groups
    pman,       \* data: its manifests
    pobj,       \* data: the file of its group TokGroup, the only payload that is read
    catalog,    \* data: catalogued versions
    sealed,     \* data: sealed versions
    job,        \* the job that promotes a version of the parent
    child,      \* the dataset that depends on it
    gate,       \* Gate A at work on the child
    sweep,      \* wu-fsck at work on the child
    deaths,     \* jobs killed so far
    again,      \* history: versions that were promoted twice, with other content
    decays      \* history: <<what, version>> of everything that decayed

shelfVars   == <<pds, pman, pobj, catalog, sealed>>
historyVars == <<deaths, again, decays>>
lineageVars == <<tokenizer, landing, shelfVars, job, child, gate, sweep, historyVars>>

IdleJob  == [pc |-> "idle", ver |-> 0, tree |-> NoDoc, todo |-> {}]
IdleGate == [at |-> "idle", group |-> 1, dep |-> 1, todo |-> {}, shas |-> {}, bad |-> FALSE,
             vocab |-> [g \in Groups |-> NoPin]]
\* seen and old are history: the parent's documents, and its decays, when the sweep began.
NewSweep == [at |-> "idle", todo |-> {}, dep |-> NoDoc, findings |-> {}, seen |-> NoDoc,
             old |-> {}]

PinsOf(p) == IF p.legacy THEN [g \in PGroups |-> IF p.tree[g] = Absent THEN Absent ELSE NoPin]
             ELSE p.tree

LineageInit ==
    /\ tokenizer \in BOOLEAN
    /\ \E shelf \in Shelves :
          /\ landing \in [Versions -> Drafts]
          /\ \A v \in Versions : shelf[v] # NoDoc => landing[v] = shelf[v].tree
          /\ pds  = [v \in Versions |-> IF shelf[v] = NoDoc THEN NoDoc ELSE PinsOf(shelf[v])]
          /\ pman = [v \in Versions |-> IF shelf[v] = NoDoc THEN [g \in PGroups |-> Absent]
                                        ELSE shelf[v].tree]
          /\ catalog = {v \in Versions : shelf[v] # NoDoc}
    /\ pobj = [v \in Versions |-> pman[v][TokGroup]]
    /\ sealed = catalog
    /\ job = IdleJob
    /\ child = [pc |-> "declare", files |-> NoDoc, deps |-> NoDoc, ver |-> 0, pinned |-> {},
                sound |-> FALSE]
    /\ gate = IdleGate
    /\ sweep = NewSweep
    /\ deaths = 0
    /\ again = {}
    /\ decays = {}

-----------------------------------------------------------------------------
(* The parent: promote(), and landing that expires and is filled again. *)

Keys == {<<"dataset", TokGroup>>, <<"payload", TokGroup>>}
            \cup {<<"manifest", g>> : g \in PGroups}

BeginPromotion(v) ==
    /\ job.pc = "idle"
    /\ v \notin sealed
    /\ job' = [pc |-> "copy", ver |-> v, tree |-> landing[v],
               todo |-> {k \in Keys : landing[v][k[2]] # Absent}]
    /\ UNCHANGED <<tokenizer, landing, shelfVars, child, gate, sweep, historyVars>>

\* Keys are copied in any order, the catalog entry follows.
CopyKey ==
    /\ job.pc = "copy"
    /\ \E k \in job.todo :
          /\ pds'  = IF k[1] = "dataset" THEN [pds EXCEPT ![job.ver] = job.tree] ELSE pds
          /\ pman' = IF k[1] = "manifest" THEN [pman EXCEPT ![job.ver][k[2]] = job.tree[k[2]]]
                     ELSE pman
          /\ pobj' = IF k[1] = "payload" THEN [pobj EXCEPT ![job.ver] = job.tree[TokGroup]]
                     ELSE pobj
          /\ job'  = [job EXCEPT !.todo = @ \ {k}, !.pc = IF job.todo = {k} THEN "catalog" ELSE @]
    /\ UNCHANGED <<tokenizer, landing, catalog, sealed, child, gate, sweep, historyVars>>

PutCatalog ==
    /\ job.pc = "catalog"
    /\ catalog' = catalog \cup {job.ver}
    /\ job' = [job EXCEPT !.pc = "seal"]
    /\ UNCHANGED <<tokenizer, landing, pds, pman, pobj, sealed, child, gate, sweep, historyVars>>

PutSeal ==
    /\ job.pc = "seal"
    /\ sealed' = sealed \cup {job.ver}
    /\ job' = IdleJob
    /\ UNCHANGED <<tokenizer, landing, pds, pman, pobj, catalog, child, gate, sweep, historyVars>>

JobDies ==
    /\ job.pc # "idle"
    /\ deaths < MaxDeaths
    /\ deaths' = deaths + 1
    /\ job' = IdleJob
    /\ UNCHANGED <<tokenizer, landing, shelfVars, child, gate, sweep, again, decays>>

\* A version whose promotion broke off expires in landing, and its number is handed out again.
PublishAgain(v) ==
    /\ v \notin sealed \cup again
    /\ job.ver # v
    /\ pds[v] # NoDoc \/ \E g \in PGroups : pman[v][g] # Absent
    /\ \E t \in Drafts \ {landing[v]} : landing' = [landing EXCEPT ![v] = t]
    /\ again' = again \cup {v}
    /\ UNCHANGED <<tokenizer, shelfVars, job, child, gate, sweep, deaths, decays>>

Decayed(what, v) ==
    /\ v \in sealed
    /\ Cardinality(decays) < MaxDecays
    /\ <<what, v>> \notin decays
    /\ decays' = decays \cup {<<what, v>>}
    /\ UNCHANGED <<tokenizer, landing, catalog, sealed, job, child, gate, sweep, deaths, again>>

LoseDocument(v) ==
    /\ Decayed("lost", v)
    /\ pds' = [pds EXCEPT ![v] = NoDoc]
    /\ UNCHANGED <<pman, pobj>>

\* Republished by hand, out from under a view: dataset.json and the manifests, not yet the rest.
Replace(v) ==
    /\ Decayed("replaced", v)
    /\ \E t \in Drafts : /\ t # pman[v]
                         /\ pds' = [pds EXCEPT ![v] = t]
                         /\ pman' = [pman EXCEPT ![v] = t]
    /\ UNCHANGED pobj

LoseManifest(v) ==
    /\ Decayed("manifest", v)
    /\ \E g \in PGroups : pman' = [pman EXCEPT ![v][g] = Absent]
    /\ UNCHANGED <<pds, pobj>>

Overwrite(v) ==
    /\ Decayed("object", v)
    /\ \E k \in Bytes \cup {Absent} : pobj' = [pobj EXCEPT ![v] = k]
    /\ UNCHANGED <<pds, pman>>

ParentNext ==
    \/ CopyKey \/ PutCatalog \/ PutSeal \/ JobDies
    \/ \E v \in Versions : \/ BeginPromotion(v) \/ PublishAgain(v)
                           \/ LoseDocument(v) \/ Replace(v) \/ LoseManifest(v) \/ Overwrite(v)

-----------------------------------------------------------------------------
(* The child is published. *)

\* No group of the dataset.json has a digest.
Unrecorded(ds) == Range(ds) \subseteq {NoPin, Absent}

\* A pin that a catalogued parent honours now.
Honoured(d) ==
    /\ d.ver \in catalog
    /\ pds[d.ver] # NoDoc
    /\ \E g \in PGroups :
          /\ pman[d.ver][g] = d.pin
          /\ \/ pds[d.ver][g] = d.pin
             \/ Unrecorded(pds[d.ver]) /\ \A h \in PGroups \ {g} : pds[d.ver][h] = Absent
          /\ tokenizer => g = TokGroup /\ pobj[d.ver] = d.pin

SoundDeps(deps) ==
    \A g \in Groups : /\ tokenizer => Len(deps[g]) <= 1
                      /\ \A i \in DOMAIN deps[g] : Honoured(deps[g][i])

LandChild(deps) ==
    child' = [child EXCEPT !.deps = deps, !.pc = "landed", !.sound = SoundDeps(deps)]

\* The producer writes depends_on.
DeclareByHand ==
    /\ child.pc = "declare"
    /\ \E files \in Children, deps \in ByHand :
          child' = [child EXCEPT !.files = files, !.deps = deps, !.pc = "landed",
                                 !.sound = SoundDeps(deps)]
    /\ UNCHANGED <<tokenizer, landing, shelfVars, job, gate, sweep, historyVars>>

\* tokenizer="tokenizer/<name>" names the latest catalogued version.
NameLatest ==
    /\ child.pc = "declare"
    /\ tokenizer
    /\ \E files \in Children, gs \in SUBSET Groups \ {{}} :
          child' = IF catalog = {} THEN [child EXCEPT !.pc = "failed"]
                   ELSE [child EXCEPT !.files = files, !.pinned = gs, !.ver = Max(catalog),
                                      !.pc = "pin"]
    /\ UNCHANGED <<tokenizer, landing, shelfVars, job, gate, sweep, historyVars>>

\* tokenizer="tokenizer/<name>/vN".
NameVersion ==
    /\ child.pc = "declare"
    /\ tokenizer
    /\ \E files \in Children, gs \in SUBSET Groups \ {{}}, v \in Versions :
          child' = [child EXCEPT !.files = files, !.pinned = gs, !.ver = v, !.pc = "pin"]
    /\ UNCHANGED <<tokenizer, landing, shelfVars, job, gate, sweep, historyVars>>

\* The pin is what dataset.json records for its first group; it goes to the groups of tokens.
PinParent ==
    /\ child.pc = "pin"
    /\ IF pds[child.ver] = NoDoc THEN child' = [child EXCEPT !.pc = "failed"]
       ELSE LandChild([g \in Groups |->
                IF g \in child.pinned
                THEN <<[ver |-> child.ver, pin |-> pds[child.ver][TokGroup]]>> ELSE <<>>])
    /\ UNCHANGED <<tokenizer, landing, shelfVars, job, gate, sweep, historyVars>>

ChildNext == DeclareByHand \/ NameLatest \/ NameVersion \/ PinParent

-----------------------------------------------------------------------------
(* Gate A on the child. *)

Dep == child.deps[gate.group][gate.dep]

GateUnchanged == UNCHANGED <<tokenizer, landing, shelfVars, job, child, sweep, historyVars>>

StartGate ==
    /\ child.pc = "landed"
    /\ gate.at = "idle"
    /\ gate' = [IdleGate EXCEPT !.at = "parents"]
    /\ GateUnchanged

\* Mutant: all the parent's manifests are compared with the pin.
RecordingAll(ds, pin) == {g \in PGroups : ds[g] # Absent}

\* The groups of the parent whose manifests have to match the pin: those that record it, or all
\* when none records anything.
Recording(ds, pin) ==
    IF Unrecorded(ds) THEN {g \in PGroups : ds[g] # Absent}
    ELSE {g \in PGroups : ds[g] = pin}

\* A parent without a dataset.json dangles; a pin has to be there and to be recorded.
Resolvable(ds, pin) == ds # NoDoc /\ pin # NoPin /\ Recording(ds, pin) # {}

\* _register_parent_shas, for one entry of depends_on.
GetParent ==
    /\ gate.at = "parents"
    /\ gate.dep \in DOMAIN child.deps[gate.group]
    /\ LET ds == pds[Dep.ver]
       IN  gate' = IF Resolvable(ds, Dep.pin)
                   THEN [gate EXCEPT !.todo = Recording(ds, Dep.pin), !.at = "manifests"]
                   ELSE [gate EXCEPT !.bad = TRUE, !.dep = @ + 1]
    /\ GateUnchanged

\* The files of a manifest that has the digest of the pin are registered.
GetParentManifest ==
    /\ gate.at = "manifests"
    /\ LET g    == Min(gate.todo)
           m    == pman[Dep.ver][g]
           next == [gate EXCEPT !.todo = @ \ {g},
                      !.dep = IF gate.todo = {g} THEN @ + 1 ELSE @,
                      !.at = IF gate.todo = {g} THEN "parents" ELSE @]
       IN  gate' = IF m = Dep.pin THEN [next EXCEPT !.shas = @ \cup {m}]
                   ELSE [next EXCEPT !.bad = TRUE]
    /\ GateUnchanged

\* Mutant: what the parents of one group hold is forgotten at the next.
NextGroupForgetting(s) ==
    [s EXCEPT !.group = @ + 1, !.dep = 1, !.shas = {},
              !.at = IF s.group = NGroups THEN "verdict" ELSE "parents"]

NextGroup(s) == [s EXCEPT !.group = @ + 1, !.dep = 1,
                          !.at = IF s.group = NGroups THEN "verdict" ELSE "parents"]

\* Mutant: the first of several tokenizers is taken.
SomeTokenizer(deps) == deps # <<>>

OneTokenizer(deps) == Len(deps) = 1

\* The entries are compared with what this and earlier groups' parents hold; then the tokenizer
\* is looked for, which must be the only one.
CheckEntries ==
    /\ gate.at = "parents"
    /\ gate.dep \notin DOMAIN child.deps[gate.group]
    /\ LET next == [gate EXCEPT !.bad = @ \/ child.files[gate.group] \in gate.shas]
           deps == child.deps[gate.group]
       IN  gate' = IF ~tokenizer \/ deps = <<>> THEN NextGroup(next)
                   ELSE IF OneTokenizer(deps) THEN [next EXCEPT !.dep = 1, !.at = "tokenizer"]
                   ELSE NextGroup([next EXCEPT !.bad = TRUE])
    /\ GateUnchanged

\* _resolve_tokenizer reads the parent's documents once more.
GetTokenizer ==
    /\ gate.at = "tokenizer"
    /\ LET ds == pds[Dep.ver]
       IN  gate' = IF Resolvable(ds, Dep.pin)
                   THEN [gate EXCEPT !.todo = Recording(ds, Dep.pin), !.at = "tokmanifests"]
                   ELSE NextGroup([gate EXCEPT !.bad = TRUE])
    /\ GateUnchanged

\* A manifest that is not there is passed over; the first that lists tokenizer.json is the last.
GetTokenizerManifest ==
    /\ gate.at = "tokmanifests"
    /\ LET g    == Min(gate.todo)
           m    == pman[Dep.ver][g]
           fail == NextGroup([gate EXCEPT !.bad = TRUE, !.todo = {}])
       IN  gate' = IF m \notin {Dep.pin, Absent} THEN fail
                   ELSE IF m # Absent /\ g = TokGroup THEN [gate EXCEPT !.todo = {}, !.at = "json"]
                   ELSE IF gate.todo = {g} THEN fail
                   ELSE [gate EXCEPT !.todo = @ \ {g}]
    /\ GateUnchanged

\* derive_vocab, from the bytes that are there.
GetTokenizerJson ==
    /\ gate.at = "json"
    /\ LET o == pobj[Dep.ver]
       IN  gate' = NextGroup(IF o = Absent THEN [gate EXCEPT !.bad = TRUE]
                             ELSE [gate EXCEPT !.vocab[gate.group] = o])
    /\ GateUnchanged

Verdict ==
    /\ gate.at = "verdict"
    /\ child' = [child EXCEPT !.pc = IF gate.bad THEN "rejected" ELSE "accepted"]
    /\ gate' = [IdleGate EXCEPT !.vocab = gate.vocab]
    /\ UNCHANGED <<tokenizer, landing, shelfVars, job, sweep, historyVars>>

GateDies ==
    /\ gate.at # "idle"
    /\ deaths < MaxDeaths
    /\ deaths' = deaths + 1
    /\ gate' = IdleGate
    /\ UNCHANGED <<tokenizer, landing, shelfVars, job, child, sweep, again, decays>>

GateNext ==
    \/ StartGate \/ GetParent \/ GetParentManifest \/ CheckEntries
    \/ GetTokenizer \/ GetTokenizerManifest \/ GetTokenizerJson \/ Verdict \/ GateDies

-----------------------------------------------------------------------------
(* wu-fsck: _check_depends_on of the child. *)

AllDeps == UNION {Range(child.deps[g]) : g \in Groups}

SweepUnchanged == UNCHANGED <<tokenizer, landing, shelfVars, job, child, gate, historyVars>>

SweepOn(s) == [s EXCEPT !.at = IF s.todo = {} THEN "done" ELSE "exists"]

StartSweep ==
    /\ child.pc = "accepted"
    /\ sweep.at \in {"idle", "done"}
    /\ AllDeps # {}
    /\ sweep' = [NewSweep EXCEPT !.at = "exists", !.todo = AllDeps, !.seen = pds,
                                    !.old = decays]
    /\ SweepUnchanged

\* Mutant: one GET serves both questions, and only the first is asked.
ParentExistsOnly ==
    /\ sweep.at = "exists"
    /\ \E d \in sweep.todo :
          sweep' = SweepOn([sweep EXCEPT !.todo = @ \ {d},
                       !.findings = IF pds[d.ver] = NoDoc THEN @ \cup {<<"dangling-parent", d>>}
                                    ELSE @])
    /\ SweepUnchanged

ParentExists ==
    /\ sweep.at = "exists"
    /\ \E d \in sweep.todo :
          sweep' = IF pds[d.ver] = NoDoc
                   THEN SweepOn([sweep EXCEPT !.todo = @ \ {d},
                                   !.findings = @ \cup {<<"dangling-parent", d>>}])
                   ELSE [sweep EXCEPT !.dep = d, !.at = "pinned"]
    /\ SweepUnchanged

\* The second GET: a document that is gone by now is passed over.
ParentPinned ==
    /\ sweep.at = "pinned"
    /\ LET d  == sweep.dep
           ds == pds[d.ver]
       IN  sweep' = SweepOn([sweep EXCEPT !.todo = @ \ {d}, !.dep = NoDoc,
                       !.findings = IF ds # NoDoc /\ d.pin \notin Range(ds)
                                    THEN @ \cup {<<"parent-changed", d>>} ELSE @])
    /\ SweepUnchanged

SweepNext == StartSweep \/ ParentExists \/ ParentPinned

LineageNext == ParentNext \/ ChildNext \/ GateNext \/ SweepNext

LineageSpec == LineageInit /\ [][LineageNext]_lineageVars

-----------------------------------------------------------------------------
Happened(whats, v) == \E what \in whats : <<what, v>> \in decays

\* No byte that a parent holds is published again: a group of an accepted child shares no file
\* with the manifests that it, or a group before it, depends on, although the parent was being
\* promoted while they were read.
NoCopiedBytes ==
    child.pc = "accepted" =>
        \A g, h \in Groups : g <= h => \A d \in Range(child.deps[g]) : child.files[h] # d.pin

\* The vocabulary that bounds the ids of a child is that of the tokenizer it pins.  The bytes of
\* tokenizer.json are not compared with any digest: they may differ from the manifest after an
\* edit by hand, and after a promotion over the rest of another one, in no other way.
VocabIsPinned ==
    child.pc = "accepted" /\ tokenizer =>
        \A g \in Groups : \A d \in Range(child.deps[g]) :
            gate.vocab[g] = d.pin \/ d.ver \in again \/ Happened({"object", "replaced"}, d.ver)

\* A good child is not rejected, at whatever moment of a parent's promotions it is judged: when
\* its pins were honoured by catalogued parents that stayed as they were, and it copied nothing.
GoodChildAccepted ==
    child.pc = "rejected" /\ child.sound =>
        \/ \E g, h \in Groups : g <= h /\ \E d \in Range(child.deps[g]) : child.files[h] = d.pin
        \/ \E d \in AllDeps : d.ver \in again \/ \E x \in decays : x[2] = d.ver

\* The sweep reports a parent only when its dataset.json was lost or replaced, or when it never
\* recorded digests; and one that was gone, or no longer recorded the pin, when the sweep began
\* is reported, unless it was lost or replaced in the meantime.
ParentsSwept ==
    /\ child.pc = "accepted" => \A d \in AllDeps :
          /\ <<"dangling-parent", d>> \in sweep.findings => Happened({"lost"}, d.ver)
          /\ <<"parent-changed", d>> \in sweep.findings =>
                \/ Happened({"replaced"}, d.ver)
                \/ d.ver \in again
                \/ Unrecorded(sweep.seen[d.ver])
    /\ sweep.at = "done" =>
          \A d \in AllDeps :
              LET seen == sweep.seen[d.ver]
              IN  \/ seen # NoDoc /\ d.pin \in Range(seen)
                  \/ \E what \in {"lost", "replaced"} : <<what, d.ver>> \in decays \ sweep.old
                  \/ \E code \in {"dangling-parent", "parent-changed"} : <<code, d>> \in sweep.findings
=============================================================================
