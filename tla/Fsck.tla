-------------------------------- MODULE Fsck --------------------------------
(***************************************************************************)
(* wu-fsck, the weekly sweep over the catalog, which looks for decay.  It  *)
(* runs beside producers and validator jobs; each LIST, GET and HEAD is a  *)
(* step.                                                                   *)
(***************************************************************************)
EXTENDS Decay

VARIABLE sweep   \* the state of the sweep

FsckPhases == {"idle", "dataset", "seal", "groups", "heads", "done"}

SweepStates ==
    [pc       : FsckPhases,
     todo     : SUBSET Versions,           \* catalogued versions to check; the least is current
     ds       : Docs,
     seal     : Seals \cup {NoDoc},
     groups   : SUBSET Groups,             \* groups of the current version to check
     man      : Docs,
     left     : SUBSET Files,              \* files of the current group to HEAD
     observed : Trees,                     \* the CRCs of the HEADs
     findings : SUBSET (Codes \X Versions),
     old      : SUBSET (Decays \X Versions),   \* history: what had decayed when the sweep began
     blind    : SUBSET Versions]               \* history: met replaced bytes, had no CRC to compare

NewSweep == [pc |-> "idle", todo |-> {}, ds |-> NoDoc, seal |-> NoDoc, groups |-> {},
             man |-> NoDoc, left |-> {}, observed |-> Empty, findings |-> {}, old |-> {},
             blind |-> {}]

FsckInit == Init /\ decays = {} /\ sweep = NewSweep

-----------------------------------------------------------------------------
(* The sweep. *)

Catalogued == {v \in Versions : catalog[v] # NoDoc}
Current    == Min(sweep.todo)

\* The sweep turns to the next version, or ends.
TurnTo(todo, findings) ==
    [NewSweep EXCEPT !.todo = todo, !.findings = findings, !.old = sweep.old,
       !.blind = sweep.blind, !.pc = IF todo = {} THEN "done" ELSE "dataset"]

Found(code) == sweep.findings \cup {<<code, Current>>}

\* _catalog_datasets: one LIST.
StartSweep ==
    /\ sweep.pc \in {"idle", "done"}
    /\ sweep' = [TurnTo(Catalogued, {}) EXCEPT !.old = decays, !.blind = {}]

\* Mutant: a version whose dataset.json cannot be read is passed over.
CheckDatasetQuietly ==
    /\ sweep.pc = "dataset"
    /\ LET ds == dds[Current]
       IN  sweep' = IF ds = NoDoc THEN TurnTo(sweep.todo \ {Current}, sweep.findings)
                    ELSE [sweep EXCEPT !.ds = ds, !.pc = "seal"]

CheckDataset ==
    /\ sweep.pc = "dataset"
    /\ LET ds == dds[Current]
       IN  sweep' = IF ds = NoDoc
                    THEN TurnTo(sweep.todo \ {Current}, Found("dataset-json-gone"))
                    ELSE [sweep EXCEPT !.ds = ds, !.pc = "seal"]

\* An absent seal is not a finding.
LoadSeal ==
    /\ sweep.pc = "seal"
    /\ sweep' = [sweep EXCEPT !.seal = seal[Current], !.groups = GroupsIn(sweep.ds),
                   !.pc = "groups"]

CheckManifest ==
    /\ sweep.pc = "groups"
    /\ sweep.groups # {}
    /\ LET g    == Min(sweep.groups)
           m    == dman[Current][g]
           rest == [sweep EXCEPT !.groups = @ \ {g}]
       IN  sweep' = IF m = NoDoc THEN [rest EXCEPT !.findings = Found("manifest-gone")]
                    ELSE IF NamesIn(m) = {} THEN rest
                    ELSE [sweep EXCEPT !.man = m, !.left = NamesIn(m), !.pc = "heads"]

\* The seal in hand has a CRC of the file f.
Referenced(f) == sweep.seal # NoDoc /\ sweep.seal.crc[f] # Absent

\* One HEAD: the object is there, at the size the manifest declares, with a CRC or without.
HeadObject ==
    /\ sweep.pc = "heads"
    /\ LET f    == Min(sweep.left)
           o    == dobj[Current][f]
           last == sweep.left = {f}
       IN  \E c \in {o} \cup {Absent : e \in Crcless \cap {f}} :
             sweep' = [sweep EXCEPT
                         !.observed[f] = c,
                         !.findings = IF o = Absent THEN Found("object-gone")
                                      ELSE IF SizeOf[o] # SizeOf[sweep.man[f]]
                                      THEN Found("object-resized") ELSE @,
                         !.blind = IF o # sweep.man[f] /\ (c = Absent \/ ~Referenced(f))
                                   THEN @ \cup {Current} ELSE @,
                         !.left = @ \ {f},
                         !.groups = IF last THEN @ \ {Min(@)} ELSE @,
                         !.pc = IF last THEN "groups" ELSE @]

\* Mutant: a HEAD without a CRC counts as a change.
ContentChangedUnread ==
    \E f \in Files : Referenced(f) /\ sweep.observed[f] # sweep.seal.crc[f]

\* _check_crc64nvme: the observed CRCs against those the seal recorded at promotion; a file
\* without the one or the other is passed over in silence.
ContentChanged ==
    \E f \in Files : Referenced(f) /\ sweep.observed[f] \notin {Absent, sweep.seal.crc[f]}

CompareCrcs ==
    /\ sweep.pc = "groups"
    /\ sweep.groups = {}
    /\ sweep' = TurnTo(sweep.todo \ {Current},
                       IF ContentChanged THEN Found("object-content-changed")
                       ELSE sweep.findings)

SweepStep ==
    \/ StartSweep \/ CheckDataset \/ LoadSeal \/ CheckManifest \/ HeadObject \/ CompareCrcs

FsckNext ==
    \/ Next /\ UNCHANGED <<decays, sweep>>
    \/ DecayNext /\ UNCHANGED sweep
    \/ SweepStep /\ UNCHANGED <<vars, decays>>

FsckSpec == FsckInit /\ [][FsckNext]_<<vars, decays, sweep>>

-----------------------------------------------------------------------------
\* No alarm about data that is fine: the sweep reports a version only for something that did
\* decay there, although it may run in the middle of a promotion.
Causes(code) ==
    {code} \cup CASE code = "object-content-changed" -> {"object-resized"}
                  [] code = "manifest-gone"          -> {"dataset-rewritten"}
                  [] code \in {"object-gone", "object-resized"} -> {"manifest-rewritten"}
                  [] OTHER                           -> {}
SweepSound ==
    \A code \in Codes, v \in Versions :
        <<code, v>> \in sweep.findings => \E what \in Causes(code) : <<what, v>> \in decays

\* A sweep that ends has a finding about every version that had decayed when it began.  It
\* leaves to the readers a version that lost only its seal; where there is no seal, or the seal
\* or the sweep's own HEAD has no CRC of a file, it cannot tell that the file's bytes were
\* replaced at the same length; and it believes a document that was rewritten about what the
\* version consists of.
Silent(what, v) ==
    \/ what = "seal-gone"
    \/ what = "object-content-changed" /\ v \in sweep.blind
    \/ \E doc \in Rewritten : <<doc, v>> \in decays
SweepComplete ==
    sweep.pc = "done" =>
        \A what \in Decays, v \in Versions :
            <<what, v>> \in sweep.old =>
                Silent(what, v) \/ \E code \in Codes : <<code, v>> \in sweep.findings
=============================================================================
