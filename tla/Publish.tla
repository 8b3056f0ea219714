------------------------------ MODULE Publish ------------------------------
(***************************************************************************)
(* publish(): one producer run per member of Publishers.  Every access to  *)
(* a bucket is a step of its own, so that runs interleave with each other  *)
(* and with the validator.  Copies and hashes happen in any order: that is *)
(* what copy_workers and hash_workers > 1 allow, and the sequential run is *)
(* one of the orders.                                                      *)
(***************************************************************************)
EXTENDS Buckets

CONSTANTS
    Publishers,      \* runs of publish() for this dataset id
    Sources,         \* the trees a producer may hand to publish()
    SourceKinds,     \* subset of {"local", "s3"}
    Overlap,         \* whether two runs may be in flight at a time
    MaxAttempts,     \* max_version_attempts
    MaxPubFaults     \* bound: runs that die half-way and deletes that fail

ASSUME PublishAssumption ==
    /\ Sources \subseteq Trees
    /\ SourceKinds \subseteq {"local", "s3"}
    /\ Overlap \in BOOLEAN
    /\ MaxAttempts \in Nat \ {0}
    /\ MaxPubFaults \in Nat

VARIABLES
    staging,     \* landing: payload under _staging/<dataset_id>/
    pub,         \* the state of each run
    pubFaults    \* faults of the producers' side so far

pubVars == <<staging, pub, pubFaults>>

PubPhases == {"idle", "stage", "enumerate", "version", "hash", "head",
              "reserve", "copy", "manifest", "cleanup", "done", "failed"}

PubStates ==
    [pc    : PubPhases,
     kind  : {"local", "s3"},
     src   : Trees,              \* what the producer meant to publish
     files : SUBSET Files,       \* what _enumerate_s3 listed
     todo  : SUBSET (Files \cup Groups),
     plan  : Trees,              \* what build_plan hashed so far
     ver   : 0 .. MaxVersion,
     tries : 0 .. MaxAttempts]

PublishTypeOK ==
    /\ staging \in Trees
    /\ pub \in [Publishers -> PubStates]
    /\ \A p \in Publishers : pub[p].pc # "failed" => pub[p].tries < MaxAttempts
    /\ pubFaults \in 0 .. MaxPubFaults

PublishInit ==
    /\ staging = Empty
    /\ pub = [p \in Publishers |->
                [pc |-> "idle", kind |-> "s3", src |-> Empty, files |-> {},
                 todo |-> {}, plan |-> Empty, ver |-> 0, tries |-> 0]]
    /\ pubFaults = 0

InFlight(p) == pub[p].pc \notin {"idle", "done", "failed"}

\* A local run reads back from the staging area it filled; all local runs of
\* one dataset id share it.  An s3:// source is the producer's own prefix.
SourceOf(p) == IF pub[p].kind = "local" THEN staging ELSE pub[p].src

\* The versions under which landing lists at least one key.
Taken == {v \in Versions : \/ lds[v] # NoDoc
                           \/ \E g \in Groups : lman[v][g] # NoDoc
                           \/ lobj[v] # Empty
                           \/ marks[v] # {}}

Fail(p) == pub' = [pub EXCEPT ![p].pc = "failed"]

-----------------------------------------------------------------------------
Start(p) ==
    /\ pub[p].pc = "idle"
    /\ Overlap \/ \A q \in Publishers : ~InFlight(q)
    /\ \E t \in Sources, k \in SourceKinds :
          LET staged == IF k = "local" THEN NamesIn(t) ELSE {}
          IN  pub' = [pub EXCEPT ![p].src = t, ![p].kind = k, ![p].todo = staged,
                        ![p].pc = IF staged = {} THEN "enumerate" ELSE "stage"]
    /\ UNCHANGED <<landingVars, staging, pubFaults>>

\* _stage_local_to_landing: one upload per file, in sorted order.
Stage(p) ==
    /\ pub[p].pc = "stage"
    /\ LET f == Min(pub[p].todo)
       IN  /\ staging' = [staging EXCEPT ![f] = pub[p].src[f]]
           /\ pub' = [pub EXCEPT ![p].todo = @ \ {f},
                        ![p].pc = IF pub[p].todo = {f} THEN "enumerate" ELSE @]
    /\ UNCHANGED <<landingVars, pubFaults>>

\* _enumerate_s3 lists whatever is under the source prefix.
Enumerate(p) ==
    /\ pub[p].pc = "enumerate"
    /\ LET found == NamesIn(SourceOf(p))
       IN  IF found = {} THEN Fail(p)
           ELSE pub' = [pub EXCEPT ![p].files = found, ![p].pc = "version"]
    /\ UNCHANGED <<landingVars, staging, pubFaults>>

\* _next_version: one past the highest version that landing lists.
NextVersion(p) ==
    /\ pub[p].pc = "version"
    /\ LET v == Max(Taken \cup {0}) + 1
       IN  /\ v <= MaxVersion
           /\ pub' = [pub EXCEPT ![p].ver = v, ![p].plan = Empty,
                        ![p].todo = pub[p].files, ![p].pc = "hash"]
    /\ UNCHANGED <<landingVars, staging, pubFaults>>

\* build_plan streams each object once to hash it.
Hash(p) ==
    /\ pub[p].pc = "hash"
    /\ \E f \in pub[p].todo :
          IF SourceOf(p)[f] = Absent THEN Fail(p)
          ELSE pub' = [pub EXCEPT ![p].plan[f] = SourceOf(p)[f], ![p].todo = @ \ {f},
                         ![p].pc = IF pub[p].todo = {f} THEN "head" ELSE @]
    /\ UNCHANGED <<landingVars, staging, pubFaults>>

\* Mutant: a conflict tries the same number again.
HeadSameNumber(p) ==
    /\ pub[p].pc = "head"
    /\ lds[pub[p].ver] = NoDoc
    /\ pub' = [pub EXCEPT ![p].pc = "reserve"]
    /\ UNCHANGED <<landingVars, staging, pubFaults>>

\* _put_create_only, first half: the HEAD on dataset.json.
Head(p) ==
    /\ pub[p].pc = "head"
    /\ IF lds[pub[p].ver] = NoDoc
       THEN pub' = [pub EXCEPT ![p].pc = "reserve"]
       ELSE pub' = [pub EXCEPT ![p].tries = @ + 1,
                      ![p].pc = IF pub[p].tries + 1 = MaxAttempts THEN "failed" ELSE "version"]
    /\ UNCHANGED <<landingVars, staging, pubFaults>>

\* _put_create_only, second half: a plain put.
Reserve(p) ==
    /\ pub[p].pc = "reserve"
    /\ lds' = [lds EXCEPT ![pub[p].ver] = pub[p].plan]
    /\ pub' = [pub EXCEPT ![p].todo = pub[p].files, ![p].pc = "copy"]
    /\ UNCHANGED <<lman, lobj, marks, staging, pubFaults>>

\* Mutant: the manifests do not wait for all the copies.
CopyNoWait(p) ==
    /\ pub[p].pc = "copy"
    /\ \E f \in pub[p].todo : lobj' = [lobj EXCEPT ![pub[p].ver][f] = SourceOf(p)[f]]
    /\ pub' = [pub EXCEPT ![p].todo = GroupsIn(pub[p].plan), ![p].pc = "manifest"]
    /\ UNCHANGED <<lds, lman, marks, staging, pubFaults>>

\* Server-side copies from the source; when the last one is done the manifests follow.
Copy(p) ==
    /\ pub[p].pc = "copy"
    /\ \E f \in pub[p].todo :
          IF SourceOf(p)[f] = Absent
          THEN Fail(p) /\ UNCHANGED lobj
          ELSE /\ lobj' = [lobj EXCEPT ![pub[p].ver][f] = SourceOf(p)[f]]
               /\ pub' = IF pub[p].todo = {f}
                         THEN [pub EXCEPT ![p].todo = GroupsIn(pub[p].plan), ![p].pc = "manifest"]
                         ELSE [pub EXCEPT ![p].todo = @ \ {f}]
    /\ UNCHANGED <<lds, lman, marks, staging, pubFaults>>

\* _put_idempotent: whatever was there, the key ends up holding this manifest.
PutManifest(p) ==
    /\ pub[p].pc = "manifest"
    /\ LET g    == Min(pub[p].todo)
           last == pub[p].todo = {g}
       IN  /\ lman' = [lman EXCEPT ![pub[p].ver][g] = Part(pub[p].plan, g)]
           /\ pub' = IF ~last THEN [pub EXCEPT ![p].todo = @ \ {g}]
                     ELSE IF pub[p].kind = "s3" THEN [pub EXCEPT ![p].todo = {}, ![p].pc = "done"]
                     ELSE [pub EXCEPT ![p].todo = pub[p].files, ![p].pc = "cleanup"]
    /\ UNCHANGED <<lds, lobj, marks, staging, pubFaults>>

\* Mutant: the staging area is not cleared.
CleanupNothing(p) ==
    /\ pub[p].pc = "cleanup"
    /\ pub' = [pub EXCEPT ![p].todo = {}, ![p].pc = "done"]
    /\ UNCHANGED <<landingVars, staging, pubFaults>>

\* Best-effort clearing of the staging area: each delete may fail unnoticed.
Cleanup(p) ==
    /\ pub[p].pc = "cleanup"
    /\ LET f == Min(pub[p].todo)
       IN  /\ \/ staging' = [staging EXCEPT ![f] = Absent] /\ UNCHANGED pubFaults
              \/ /\ pubFaults < MaxPubFaults
                 /\ pubFaults' = pubFaults + 1
                 /\ UNCHANGED staging
           /\ pub' = [pub EXCEPT ![p].todo = @ \ {f},
                        ![p].pc = IF pub[p].todo = {f} THEN "done" ELSE @]
    /\ UNCHANGED landingVars

\* The producer's process dies; whatever it wrote stays.
PubCrash(p) ==
    /\ InFlight(p)
    /\ pubFaults < MaxPubFaults
    /\ pubFaults' = pubFaults + 1
    /\ Fail(p)
    /\ UNCHANGED <<landingVars, staging>>

\* What a run does once it has been called.
PublisherStep(p) ==
    \/ Stage(p) \/ Enumerate(p) \/ NextVersion(p) \/ Hash(p) \/ Head(p)
    \/ Reserve(p) \/ Copy(p) \/ PutManifest(p) \/ Cleanup(p)

PublishNext == \E p \in Publishers : Start(p) \/ PublisherStep(p) \/ PubCrash(p)
=============================================================================
