------------------------------ MODULE Promote ------------------------------
(***************************************************************************)
(* The validator job, `python -m edullm_data.validate --promote`: it lists *)
(* the pending prefixes, runs Gate A (validate_dataset) on each, and then  *)
(* rejects it or copies it to the data bucket, catalogues it and seals it. *)
(* Each member of Jobs is a Batch job; an idle one may start at any time   *)
(* (a periodic sweep), also while another is still running.                *)
(***************************************************************************)
EXTENDS Buckets

CONSTANTS
    Jobs,            \* validator jobs that may run at a time
    Named,           \* versions an operator may name with --prefix
    Crcless,         \* bound: files of which a HEAD may answer without a CRC
    MaxJobCrashes    \* bound: jobs killed half-way

ASSUME PromoteAssumption ==
    /\ Named \subseteq Versions
    /\ Crcless \subseteq Files
    /\ MaxJobCrashes \in Nat

VARIABLES
    job,         \* the state of each job
    jobCrashes   \* jobs killed so far

jobVars == <<job, jobCrashes>>

JobPhases == {"idle", "loadds", "group", "heads", "profile", "verdict",
              "reloadds", "reloadmans", "copy", "crcs", "catalog", "seal", "mark"}

\* The keys promote() copies, relative to the prefix.
DsKey     == <<"dataset", 0>>
ManKey(g) == <<"manifest", g>>
ObjKey(f) == <<"payload", f>>
Keys      == {DsKey} \cup {ManKey(g) : g \in Groups} \cup {ObjKey(f) : f \in Files}

JobStates ==
    [pc         : JobPhases,
     work       : SUBSET Versions,       \* prefixes still to process; the least is current
     ds         : Docs,                  \* the dataset.json read last
     mans       : [Groups -> Docs],      \* the manifests read last
     todo       : SUBSET Groups,
     left       : SUBSET Files,          \* files of the current loop still to HEAD or to sample
     bad        : BOOLEAN,               \* some violation was recorded
     incomplete : BOOLEAN,               \* some group had no manifest
     keys       : SUBSET Keys,           \* still to copy
     crc        : Trees,                 \* the CRC reference
     root       : Docs]                  \* dataset_sha256

IdleJob == [pc |-> "idle", work |-> {}, ds |-> NoDoc, mans |-> [g \in Groups |-> NoDoc],
            todo |-> {}, left |-> {}, bad |-> FALSE, incomplete |-> FALSE, keys |-> {},
            crc |-> Empty, root |-> NoDoc]

PromoteTypeOK ==
    /\ job \in [Jobs -> JobStates]
    /\ \A j \in Jobs : job[j].pc # "idle" => job[j].work # {}
    /\ jobCrashes \in 0 .. MaxJobCrashes

PromoteInit ==
    /\ job = [j \in Jobs |-> IdleJob]
    /\ jobCrashes = 0

-----------------------------------------------------------------------------
\* discover_pending: dataset.json and all its manifests are there, no marker is.
Pending == {v \in Versions : /\ lds[v] # NoDoc
                             /\ marks[v] = {}
                             /\ \A g \in GroupsIn(lds[v]) : lman[v][g] # NoDoc}

Cur(j) == Min(job[j].work)

\* Mutant: an empty work list does not end the job.
BeginAlways(work) == [IdleJob EXCEPT !.pc = "loadds", !.work = work]

\* The job turns to the given prefixes, or ends when there are none.
Begin(work) == IF work = {} THEN IdleJob
               ELSE [IdleJob EXCEPT !.pc = "loadds", !.work = work]

ProcessNext(j) == job' = [job EXCEPT ![j] = Begin(@.work \ {Cur(j)})]

\* An exception nobody catches: the job ends, the other prefixes wait.
Die(j) == job' = [job EXCEPT ![j] = IdleJob]

Discover(j) ==
    /\ job[j].pc = "idle"
    /\ Pending # {}
    /\ job' = [job EXCEPT ![j] = Begin(Pending)]
    /\ UNCHANGED <<landingVars, dataVars, jobCrashes>>

RunNamed(j) ==
    /\ job[j].pc = "idle"
    /\ \E v \in Named : job' = [job EXCEPT ![j] = Begin({v})]
    /\ UNCHANGED <<landingVars, dataVars, jobCrashes>>

-----------------------------------------------------------------------------
(* Gate A. *)

LoadDs(j) ==
    /\ job[j].pc = "loadds"
    /\ LET ds == lds[Cur(j)]
       IN  job' = IF ds = NoDoc
                  THEN [job EXCEPT ![j].bad = TRUE, ![j].pc = "verdict"]
                  ELSE [job EXCEPT ![j].ds = ds, ![j].todo = GroupsIn(ds), ![j].pc = "group"]
    /\ UNCHANGED <<landingVars, dataVars, jobCrashes>>

\* Mutant: a manifest is compared with the whole dataset instead of its group's part.
LoadManifestWhole(j) ==
    /\ job[j].pc = "group"
    /\ job[j].todo # {}
    /\ LET g == Min(job[j].todo)
           m == lman[Cur(j)][g]
       IN  job' = IF m = NoDoc
                  THEN [job EXCEPT ![j].incomplete = TRUE, ![j].todo = @ \ {g}]
                  ELSE [job EXCEPT ![j].mans[g] = m, ![j].pc = "heads", ![j].left = NamesIn(m),
                          ![j].bad = @ \/ m # job[j].ds]
    /\ UNCHANGED <<landingVars, dataVars, jobCrashes>>

\* The manifest must hash to what dataset.json pins; without one the group is incomplete.
LoadManifest(j) ==
    /\ job[j].pc = "group"
    /\ job[j].todo # {}
    /\ LET g == Min(job[j].todo)
           m == lman[Cur(j)][g]
       IN  job' = IF m = NoDoc
                  THEN [job EXCEPT ![j].incomplete = TRUE, ![j].todo = @ \ {g}]
                  ELSE [job EXCEPT ![j].mans[g] = m, ![j].pc = "heads", ![j].left = NamesIn(m),
                          ![j].bad = @ \/ m # Part(job[j].ds, g)]
    /\ UNCHANGED <<landingVars, dataVars, jobCrashes>>

\* The per-entry checks: a HEAD of each, in the order of the manifest, compares the size.  No
\* payload is hashed again.
HeadEntry(j) ==
    /\ job[j].pc = "heads"
    /\ job[j].left # {}
    /\ LET f == Min(job[j].left)
           o == lobj[Cur(j)][f]
           m == job[j].mans[Min(job[j].todo)]
       IN  job' = [job EXCEPT ![j].left = @ \ {f},
                     ![j].bad = @ \/ o = Absent \/ SizeOf[o] # SizeOf[m[f]]]
    /\ UNCHANGED <<landingVars, dataVars, jobCrashes>>

\* What the manifest m of group g and the LIST of the group's prefix say: the digests are
\* pairwise distinct, and the objects are those of the manifest.
Exhaustive(v, g, m) ==
    /\ \A e, f \in NamesIn(m) : m[e] = m[f] => e = f
    /\ {f \in NamesIn(lobj[v]) : GroupOf[f] = g} = NamesIn(m)

ListGroup(j) ==
    /\ job[j].pc = "heads"
    /\ job[j].left = {}
    /\ LET g == Min(job[j].todo)
           m == job[j].mans[g]
       IN  job' = [job EXCEPT ![j].pc = "profile", ![j].left = NamesIn(m),
                     ![j].bad = @ \/ ~Exhaustive(Cur(j), g, m)]
    /\ UNCHANGED <<landingVars, dataVars, jobCrashes>>

\* The profile samples the bytes of each entry; what it cannot read is a violation too.
SampleEntry(j) ==
    /\ job[j].pc = "profile"
    /\ job[j].left # {}
    /\ LET f == Min(job[j].left)
       IN  job' = [job EXCEPT ![j].left = @ \ {f},
                     ![j].bad = @ \/ lobj[Cur(j)][f] \in Unfit \cup {Absent}]
    /\ UNCHANGED <<landingVars, dataVars, jobCrashes>>

EndGroup(j) ==
    /\ job[j].pc = "profile"
    /\ job[j].left = {}
    /\ job' = [job EXCEPT ![j].todo = @ \ {Min(@)}, ![j].pc = "group"]
    /\ UNCHANGED <<landingVars, dataVars, jobCrashes>>

\* The files that the manifests read so far list.
Listed(j) == {f \in Files : \E g \in Groups :
                 job[j].mans[g] # NoDoc /\ job[j].mans[g][f] # Absent}

\* _check_dataset_exhaustive_and_splits and the object total of the inventory, only for a
\* complete dataset.
Sweep(j) ==
    /\ job[j].pc = "group"
    /\ job[j].todo = {}
    /\ job' = [job EXCEPT ![j].pc = "verdict",
                 ![j].bad = @ \/ (/\ ~job[j].incomplete
                                  /\ \/ ~(NamesIn(lobj[Cur(j)]) \subseteq Listed(j))
                                     \/ Cardinality(Listed(j)) # Cardinality(NamesIn(job[j].ds)))]
    /\ UNCHANGED <<landingVars, dataVars, jobCrashes>>

LeaveIncomplete(j) ==
    /\ job[j].pc = "verdict"
    /\ job[j].incomplete
    /\ ProcessNext(j)
    /\ UNCHANGED <<landingVars, dataVars, jobCrashes>>

Reject(j) ==
    /\ job[j].pc = "verdict"
    /\ job[j].bad /\ ~job[j].incomplete
    /\ marks' = [marks EXCEPT ![Cur(j)] = @ \cup {"REJECTED"}]
    /\ ProcessNext(j)
    /\ UNCHANGED <<lds, lman, lobj, dataVars, jobCrashes>>

-----------------------------------------------------------------------------
(* promote(). *)

\* Mutant: a prefix that is sealed already is rejected.
CheckSealRejecting(j) ==
    /\ job[j].pc = "verdict"
    /\ ~job[j].bad /\ ~job[j].incomplete
    /\ \/ seal[Cur(j)] = NoDoc /\ job' = [job EXCEPT ![j].pc = "reloadds"] /\ UNCHANGED marks
       \/ /\ seal[Cur(j)] # NoDoc
          /\ marks' = [marks EXCEPT ![Cur(j)] = @ \cup {"REJECTED"}]
          /\ ProcessNext(j)
    /\ UNCHANGED <<lds, lman, lobj, dataVars, jobCrashes>>

\* A sealed prefix is never promoted again: the call raises and main does not catch it.
CheckSeal(j) ==
    /\ job[j].pc = "verdict"
    /\ ~job[j].bad /\ ~job[j].incomplete
    /\ IF seal[Cur(j)] # NoDoc THEN Die(j)
       ELSE job' = [job EXCEPT ![j].pc = "reloadds"]
    /\ UNCHANGED <<landingVars, dataVars, jobCrashes>>

\* Mutant: promote() first clears what an earlier job left under the prefix.
ReloadDsClearing(j) ==
    /\ job[j].pc = "reloadds"
    /\ lds[Cur(j)] # NoDoc
    /\ dobj' = [dobj EXCEPT ![Cur(j)] = Empty]
    /\ job' = [job EXCEPT ![j].ds = lds[Cur(j)], ![j].todo = GroupsIn(lds[Cur(j)]),
                 ![j].mans = [g \in Groups |-> NoDoc], ![j].keys = {DsKey},
                 ![j].pc = "reloadmans"]
    /\ UNCHANGED <<landingVars, dds, dman, catalog, seal, jobCrashes>>

ReloadDs(j) ==
    /\ job[j].pc = "reloadds"
    /\ LET ds == lds[Cur(j)]
       IN  IF ds = NoDoc THEN Die(j)
           ELSE job' = [job EXCEPT ![j].ds = ds, ![j].todo = GroupsIn(ds),
                          ![j].mans = [g \in Groups |-> NoDoc], ![j].keys = {DsKey},
                          ![j].pc = IF GroupsIn(ds) = {} THEN "copy" ELSE "reloadmans"]
    /\ UNCHANGED <<landingVars, dataVars, jobCrashes>>

\* Mutant: the manifests themselves are not copied.
ReloadManifestOnly(j) ==
    /\ job[j].pc = "reloadmans"
    /\ LET g == Min(job[j].todo)
           m == lman[Cur(j)][g]
       IN  job' = [job EXCEPT ![j].mans[g] = m, ![j].todo = @ \ {g},
                     ![j].keys = @ \cup {ObjKey(f) : f \in NamesIn(m)},
                     ![j].pc = IF job[j].todo = {g} THEN "copy" ELSE @]
    /\ UNCHANGED <<landingVars, dataVars, jobCrashes>>

ReloadManifest(j) ==
    /\ job[j].pc = "reloadmans"
    /\ LET g == Min(job[j].todo)
           m == lman[Cur(j)][g]
       IN  IF m = NoDoc THEN Die(j)
           ELSE job' = [job EXCEPT ![j].mans[g] = m, ![j].todo = @ \ {g},
                          ![j].keys = @ \cup {ManKey(g)} \cup {ObjKey(f) : f \in NamesIn(m)},
                          ![j].pc = IF job[j].todo = {g} THEN "copy" ELSE @]
    /\ UNCHANGED <<landingVars, dataVars, jobCrashes>>

\* Mutant: the copies of the payload are not waited for once the documents are copied.
CopiedNoWait(j, k) == job' = IF job[j].keys \ {k} \subseteq {ObjKey(f) : f \in Files}
                             THEN [job EXCEPT ![j].keys = {}, ![j].left = Listed(j),
                                     ![j].crc = Empty, ![j].pc = "crcs"]
                             ELSE [job EXCEPT ![j].keys = @ \ {k}]

\* One server-side copy; a source that is gone raises.  The copies of all keys end
\* before the first CRC is read.
Copied(j, k) == job' = IF job[j].keys = {k}
                       THEN [job EXCEPT ![j].keys = {}, ![j].left = Listed(j), ![j].crc = Empty,
                               ![j].pc = "crcs"]
                       ELSE [job EXCEPT ![j].keys = @ \ {k}]

CopyDs(j) ==
    /\ job[j].pc = "copy"
    /\ DsKey \in job[j].keys
    /\ IF lds[Cur(j)] = NoDoc THEN Die(j) /\ UNCHANGED dds
       ELSE Copied(j, DsKey) /\ dds' = [dds EXCEPT ![Cur(j)] = lds[Cur(j)]]
    /\ UNCHANGED <<landingVars, dman, dobj, catalog, seal, jobCrashes>>

CopyManifest(j) ==
    /\ job[j].pc = "copy"
    /\ \E g \in Groups :
          /\ ManKey(g) \in job[j].keys
          /\ IF lman[Cur(j)][g] = NoDoc THEN Die(j) /\ UNCHANGED dman
             ELSE /\ Copied(j, ManKey(g))
                  /\ dman' = [dman EXCEPT ![Cur(j)][g] = lman[Cur(j)][g]]
    /\ UNCHANGED <<landingVars, dds, dobj, catalog, seal, jobCrashes>>

CopyPayload(j) ==
    /\ job[j].pc = "copy"
    /\ \E f \in Files :
          /\ ObjKey(f) \in job[j].keys
          /\ IF lobj[Cur(j)][f] = Absent THEN Die(j) /\ UNCHANGED dobj
             ELSE /\ Copied(j, ObjKey(f))
                  /\ dobj' = [dobj EXCEPT ![Cur(j)][f] = lobj[Cur(j)][f]]
    /\ UNCHANGED <<landingVars, dds, dman, catalog, seal, jobCrashes>>

\* The CRC of each promoted object, read back from the data bucket in any order.  Without one
\* (a failed HEAD, or S3 has no checksum of the object) the reference leaves the file out.
HeadCrc(j) ==
    /\ job[j].pc = "crcs"
    /\ \E f \in job[j].left :
          \E c \in {dobj[Cur(j)][f]} \cup {Absent : e \in Crcless \cap {f}} :
             job' = [job EXCEPT ![j].crc[f] = c, ![j].left = @ \ {f}]
    /\ UNCHANGED <<landingVars, dataVars, jobCrashes>>

\* Mutant: the catalog entry is left to somebody else.
ReadRootUncatalogued(j) ==
    /\ job[j].pc = "crcs"
    /\ job[j].left = {}
    /\ job' = [job EXCEPT ![j].pc = "seal", ![j].root = dds[Cur(j)]]
    /\ UNCHANGED <<landingVars, dataVars, jobCrashes>>

\* dataset_sha256: hashed from what was published, not from landing.
ReadRoot(j) ==
    /\ job[j].pc = "crcs"
    /\ job[j].left = {}
    /\ job' = [job EXCEPT ![j].pc = "catalog", ![j].root = dds[Cur(j)]]
    /\ UNCHANGED <<landingVars, dataVars, jobCrashes>>

\* Mutants: the marker is written before the seal; a catalog entry is never replaced.
PutCatalogThenMark(j) ==
    /\ job[j].pc = "catalog"
    /\ catalog' = [catalog EXCEPT ![Cur(j)] = job[j].root]
    /\ job' = [job EXCEPT ![j].pc = "mark"]
    /\ UNCHANGED <<landingVars, dds, dman, dobj, seal, jobCrashes>>

PutCatalogOnce(j) ==
    /\ job[j].pc = "catalog"
    /\ catalog' = [catalog EXCEPT ![Cur(j)] = IF @ = NoDoc THEN job[j].root ELSE @]
    /\ job' = [job EXCEPT ![j].pc = "seal"]
    /\ UNCHANGED <<landingVars, dds, dman, dobj, seal, jobCrashes>>

PutCatalog(j) ==
    /\ job[j].pc = "catalog"
    /\ catalog' = [catalog EXCEPT ![Cur(j)] = job[j].root]
    /\ job' = [job EXCEPT ![j].pc = "seal"]
    /\ UNCHANGED <<landingVars, dds, dman, dobj, seal, jobCrashes>>

\* The seal; its validated_at and the catalog's promoted_at, which nothing compares, are left out.
PutSeal(j) ==
    /\ job[j].pc = "seal"
    /\ seal' = [seal EXCEPT ![Cur(j)] =
                  [root |-> job[j].root, pinned |-> job[j].ds, crc |-> job[j].crc]]
    /\ job' = [job EXCEPT ![j].pc = "mark"]
    /\ UNCHANGED <<landingVars, dds, dman, dobj, catalog, jobCrashes>>

\* Mutant: no landing marker.
MarkNothing(j) ==
    /\ job[j].pc = "mark"
    /\ ProcessNext(j)
    /\ UNCHANGED <<landingVars, dataVars, jobCrashes>>

MarkValidated(j) ==
    /\ job[j].pc = "mark"
    /\ marks' = [marks EXCEPT ![Cur(j)] = @ \cup {"VALIDATED"}]
    /\ ProcessNext(j)
    /\ UNCHANGED <<lds, lman, lobj, dataVars, jobCrashes>>

\* The job is killed (its instance is reclaimed, memory, a failed call): no retry.
JobCrash(j) ==
    /\ job[j].pc # "idle"
    /\ jobCrashes < MaxJobCrashes
    /\ jobCrashes' = jobCrashes + 1
    /\ Die(j)
    /\ UNCHANGED <<landingVars, dataVars>>

GateAStep(j) ==
    \/ LoadDs(j) \/ LoadManifest(j) \/ HeadEntry(j) \/ ListGroup(j) \/ SampleEntry(j)
    \/ EndGroup(j) \/ Sweep(j)
    \/ LeaveIncomplete(j) \/ Reject(j)

PromoteStep(j) ==
    \/ CheckSeal(j) \/ ReloadDs(j) \/ ReloadManifest(j)
    \/ CopyDs(j) \/ CopyManifest(j) \/ CopyPayload(j)
    \/ HeadCrc(j) \/ ReadRoot(j) \/ PutCatalog(j) \/ PutSeal(j) \/ MarkValidated(j)

JobStep(j) == Discover(j) \/ GateAStep(j) \/ PromoteStep(j)

ValidatorNext == \E j \in Jobs : JobStep(j) \/ RunNamed(j) \/ JobCrash(j)
=============================================================================
