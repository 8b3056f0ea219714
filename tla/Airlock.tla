------------------------------ MODULE Airlock ------------------------------
(***************************************************************************)
(* Producers, the landing bucket's lifecycle, validator jobs and the data  *)
(* bucket together: what a reader of edullm-data may rely on.              *)
(***************************************************************************)
EXTENDS Publish, Promote

CONSTANT Expiry   \* whether landing's 14-day lifecycle rules ever fire

ASSUME AirlockAssumption == Expiry \in BOOLEAN

vars == <<landingVars, dataVars, pubVars, jobVars>>

Init == BucketsInit /\ PublishInit /\ PromoteInit

-----------------------------------------------------------------------------
\* Mutant: the rule covers the payload of the data bucket too.
ExpireBoth(v) ==
    /\ Expiry
    /\ v \in Taken
    /\ \A p \in Publishers : ~(InFlight(p) /\ pub[p].ver = v)
    /\ \A j \in Jobs : v \notin job[j].work
    /\ lds'   = [lds EXCEPT ![v] = NoDoc]
    /\ lman'  = [lman EXCEPT ![v] = [g \in Groups |-> NoDoc]]
    /\ lobj'  = [lobj EXCEPT ![v] = Empty]
    /\ marks' = [marks EXCEPT ![v] = {}]
    /\ dobj'  = [dobj EXCEPT ![v] = Empty]
    /\ UNCHANGED <<dds, dman, catalog, seal, pubVars, jobVars>>

\* The lifecycle rule deletes what lies under a version 14 days after it was written.  A
\* run of publish() or of a job takes hours: none is at work on the version by then.
Expire(v) ==
    /\ Expiry
    /\ v \in Taken
    /\ \A p \in Publishers : ~(InFlight(p) /\ pub[p].ver = v)
    /\ \A j \in Jobs : v \notin job[j].work
    /\ lds'   = [lds EXCEPT ![v] = NoDoc]
    /\ lman'  = [lman EXCEPT ![v] = [g \in Groups |-> NoDoc]]
    /\ lobj'  = [lobj EXCEPT ![v] = Empty]
    /\ marks' = [marks EXCEPT ![v] = {}]
    /\ UNCHANGED <<dataVars, pubVars, jobVars>>

Next ==
    \/ PublishNext /\ UNCHANGED <<dataVars, jobVars>>
    \/ ValidatorNext /\ UNCHANGED pubVars
    \/ \E v \in Versions : Expire(v)

Spec == Init /\ [][Next]_vars

\* A producer's run goes on until it returns or dies; the sweep is resubmitted for ever and a
\* job goes on until it ends or dies.  Nobody is obliged to start a publication.
Fairness ==
    /\ \A p \in Publishers :
          WF_vars(PublisherStep(p) /\ UNCHANGED <<dataVars, jobVars>>)
    /\ \A j \in Jobs : WF_vars(JobStep(j) /\ UNCHANGED pubVars)

FairSpec == Spec /\ Fairness

-----------------------------------------------------------------------------
TypeOK == BucketsTypeOK /\ PublishTypeOK /\ PromoteTypeOK

Sealed(v) == seal[v] # NoDoc

\* The sealed payload as a reader gets it: what the manifests of the sealed dataset.json list,
\* with the bytes that are there.
ListedIn(v, f) == \E g \in GroupsIn(dds[v]) : dman[v][g] # NoDoc /\ dman[v][g][f] # Absent
Readable(v)    == [f \in Files |-> IF ListedIn(v, f) THEN dobj[v][f] ELSE Absent]

\* A seal is never ahead of the data bucket: when it is there, so are the catalog entry,
\* dataset.json, the manifest of every group it pins and every object it has a CRC for
\* (promote() writes it last, and nobody deletes from edullm-data).  Holds however publish()
\* runs and jobs overlap or die.
SealImpliesPresent ==
    \A v \in Versions : Sealed(v) =>
        /\ catalog[v] # NoDoc
        /\ dds[v] # NoDoc
        /\ \A g \in GroupsIn(seal[v].pinned) : dman[v][g] # NoDoc
        /\ \A f \in NamesIn(seal[v].crc) : dobj[v][f] # Absent

\* Every copy that promote() has to make is made before it reads the first CRC: from then on
\* what the dataset.json and the manifests it holds name is in the data bucket, although
\* copies run in parallel and other jobs and producers write the same prefix.
PromotedIsThere ==
    \A j \in Jobs : job[j].pc \in {"crcs", "catalog", "seal", "mark"} =>
        /\ dds[Cur(j)] # NoDoc
        /\ \A g \in GroupsIn(job[j].ds) : dman[Cur(j)][g] # NoDoc
        /\ \A f \in Listed(j) : dobj[Cur(j)][f] # Absent

\* A sealed version is complete and its hash chain closes: verify_seal finds no problem, and
\* every entry of every manifest is there with the content whose digest the entry records.
SealImpliesComplete ==
    \A v \in Versions : Sealed(v) =>
        SealIntact(v) /\ \A f \in NamesIn(dds[v]) : dobj[v][f] = dds[v][f]

\* The catalog and the seal of a version name the same dataset.json.
CatalogMatchesSeal == \A v \in Versions : Sealed(v) => catalog[v] = seal[v].root

\* The landing marker that takes a prefix off the work list is only ever written once the
\* version is readable.
MarkedImpliesSealed == \A v \in Versions : "VALIDATED" \in marks[v] => Sealed(v)

\* One version, one verdict: jobs that process the same prefix never disagree, and a rejected
\* version is not readable.
OneVerdict ==
    \A v \in Versions : "REJECTED" \in marks[v] => "VALIDATED" \notin marks[v] /\ ~Sealed(v)

\* The run of publish() has put dataset.json, so it owns that version.
Owns(p) == pub[p].pc \in {"copy", "manifest", "cleanup", "done"}

\* A run that returns has published exactly the tree its producer gave it.
SourceFaithful == \A p \in Publishers : pub[p].pc = "done" => pub[p].plan = pub[p].src

\* What a run that returned left in landing is what it hashed: dataset.json, every manifest
\* and every object agree, unless another run reserved the same version.
LandingMatchesPlan ==
    \A p \in Publishers :
        /\ pub[p].pc = "done"
        /\ \A q \in Publishers \ {p} : Owns(q) => pub[q].ver # pub[p].ver
        => /\ lds[pub[p].ver] = pub[p].plan
           /\ lobj[pub[p].ver] = pub[p].plan
           /\ \A g \in GroupsIn(pub[p].plan) : lman[pub[p].ver][g] = Part(pub[p].plan, g)

\* Two seals say the same of the content; where both have a CRC, they have the same one.
SameClaim(s, t) ==
    /\ s # NoDoc /\ t # NoDoc
    /\ s.root = t.root /\ s.pinned = t.pinned
    /\ \A f \in NamesIn(s.crc) \cap NamesIn(t.crc) : s.crc[f] = t.crc[f]

\* Once sealed, a version stays what it is in the data bucket.
Freezes ==
    \A v \in Versions : Sealed(v) =>
        /\ SameClaim(seal[v], seal'[v]) /\ catalog'[v] = catalog[v] /\ dds'[v] = dds[v]
        /\ dman'[v] = dman[v] /\ dobj'[v] = dobj[v]

\* The data bucket only grows: no step of any process removes or empties a key.
KeepsKeys ==
    \A v \in Versions :
        /\ dds[v] # NoDoc => dds'[v] # NoDoc
        /\ catalog[v] # NoDoc => catalog'[v] # NoDoc
        /\ seal[v] # NoDoc => seal'[v] # NoDoc
        /\ \A g \in Groups : dman[v][g] # NoDoc => dman'[v][g] # NoDoc
        /\ \A f \in Files : dobj[v][f] # Absent => dobj'[v][f] # Absent
NothingDeleted == [][KeepsKeys]_vars

\* The airlock is a shelf: a version becomes readable in one step, as a whole, with a tree a
\* producer meant to publish, and stays what it is.
FitTree(t) == \A f \in NamesIn(t) : t[f] \notin Unfit
TheShelf == INSTANCE Shelf WITH
    Places <- Versions, Offered <- Sources, Fit <- FitTree, Vacant <- NoDoc,
    shelf  <- [v \in Versions |-> IF Sealed(v) THEN Readable(v) ELSE NoDoc]
ImplementsShelf == TheShelf!ShelfSpec

-----------------------------------------------------------------------------
\* A finished publication gets its verdict: it is marked, whatever the sweep has to do first.
EventuallyDecided == \A v \in Versions : v \in Pending ~> marks[v] # {}

\* Two runs of publish() have the version, or are about to.
Contended(v) ==
    \E p, q \in Publishers : \A r \in {p, q} :
        p # q /\ pub[r].ver = v /\ (Owns(r) \/ pub[r].pc = "reserve")

\* A finished publication that Gate A has no quarrel with becomes readable, unless another run
\* writes under the same version.
Publishable(t) == FitTree(t) /\ \A e, f \in NamesIn(t) : GroupOf[e] = GroupOf[f] /\ t[e] = t[f] => e = f
EventuallySealed ==
    \A v \in Versions : (v \in Pending /\ Publishable(lds[v]) /\ ~Contended(v)) ~> Sealed(v)

\* No run of publish() hangs: it returns or fails.
PublishEnds == \A p \in Publishers : InFlight(p) ~> ~InFlight(p)
=============================================================================
