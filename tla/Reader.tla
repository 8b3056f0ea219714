------------------------------- MODULE Reader -------------------------------
(***************************************************************************)
(* A consumer of the data bucket: dataset_paths() with its seal check,     *)
(* verify_seal(), and the loads of the payload it answers, every GET and   *)
(* HEAD a step of its own, beside producers and validator jobs at work and  *)
(* while what is published decays.                                         *)
(***************************************************************************)
EXTENDS Decay

VARIABLE reader

ReaderPhases == {"ask", "require", "seal", "root", "chain", "dataset", "manifest", "payload",
                 "served", "refused", "mismatch", "lost"}

\* A document that dataset_paths() or verify_seal() holds, and the tree the consumer loaded.
ReaderStates ==
    [pc       : ReaderPhases,
     ver      : 0 .. MaxVersion,
     seal     : Seals \cup {NoDoc},
     ds       : Docs,
     todo     : SUBSET Groups,      \* groups whose manifest verify_seal still has to fetch
     problems : BOOLEAN,
     group    : Groups,
     man      : Docs,
     got      : Trees,
     old      : SUBSET (Decays \X Versions)]   \* history: what had decayed when it asked

NewReader == [pc |-> "ask", ver |-> 0, seal |-> NoDoc, ds |-> NoDoc, todo |-> {},
              problems |-> FALSE, group |-> 1, man |-> NoDoc, got |-> Empty, old |-> {}]

Answered == reader.pc \in {"served", "refused", "mismatch", "lost"}

ReaderInit == Init /\ decays = {} /\ reader = NewReader

-----------------------------------------------------------------------------
\* A consumer asks for a version, the one resolve_latest names or any other, and for a group.
Ask ==
    /\ reader.pc = "ask" \/ Answered
    /\ \E v \in Versions, g \in Groups :
          reader' = [NewReader EXCEPT !.ver = v, !.group = g, !.pc = "require",
                              !.old = decays]

\* _require_validated: a HEAD on the marker.
Require ==
    /\ reader.pc = "require"
    /\ reader' = [reader EXCEPT !.pc = IF seal[reader.ver] = NoDoc THEN "refused" ELSE "seal"]

\* verify_seal fetches the seal.
GetSeal ==
    /\ reader.pc = "seal"
    /\ reader' = IF seal[reader.ver] = NoDoc THEN [reader EXCEPT !.pc = "refused"]
                 ELSE [reader EXCEPT !.seal = seal[reader.ver], !.pc = "root"]

GetRoot ==
    /\ reader.pc = "root"
    /\ LET ds == dds[reader.ver]
       IN  reader' = IF ds = NoDoc THEN [reader EXCEPT !.pc = "mismatch"]
                     ELSE [reader EXCEPT !.ds = ds, !.todo = GroupsIn(ds), !.pc = "chain",
                             !.problems = ds # reader.seal.root]

\* Mutant: every manifest is compared with the first group's.
GetChainFirst ==
    /\ reader.pc = "chain"
    /\ reader.todo # {}
    /\ LET g == Min(reader.todo)
           m == dman[reader.ver][g]
       IN  reader' = [reader EXCEPT !.todo = @ \ {g},
                        !.problems = @ \/ m # Part(reader.ds, Min(GroupsIn(reader.ds)))]

\* The manifest must be the one dataset.json declares and, if it records the group, the seal.
GetChain ==
    /\ reader.pc = "chain"
    /\ reader.todo # {}
    /\ LET g == Min(reader.todo)
           m == dman[reader.ver][g]
       IN  reader' = [reader EXCEPT !.todo = @ \ {g},
                        !.problems = \/ @
                                     \/ m # Part(reader.ds, g)
                                     \/ /\ g \in GroupsIn(reader.seal.pinned)
                                        /\ m # Part(reader.seal.pinned, g)]

\* Mutant: only a missing document counts as a problem.
VerifiedAnyway ==
    /\ reader.pc = "chain"
    /\ reader.todo = {}
    /\ reader' = [reader EXCEPT !.pc = "dataset"]

Verified ==
    /\ reader.pc = "chain"
    /\ reader.todo = {}
    /\ reader' = [reader EXCEPT !.pc = IF reader.problems THEN "mismatch" ELSE "dataset"]

\* dataset_paths fetches dataset.json again, and picks the group in it.
GetDataset ==
    /\ reader.pc = "dataset"
    /\ LET ds == dds[reader.ver]
       IN  reader' = [reader EXCEPT !.ds = ds,
                        !.pc = IF ds = NoDoc THEN "lost"
                               ELSE IF reader.group \in GroupsIn(ds) THEN "manifest" ELSE "refused"]

GetManifest ==
    /\ reader.pc = "manifest"
    /\ LET m == dman[reader.ver][reader.group]
       IN  reader' = IF m = NoDoc THEN [reader EXCEPT !.pc = "lost"]
                     ELSE [reader EXCEPT !.man = m, !.pc = "payload"]

\* The consumer opens the paths it was given, one after another.
LoadPayload ==
    /\ reader.pc = "payload"
    /\ LET left == NamesIn(reader.man) \ NamesIn(reader.got)
           f    == Min(left)
       IN  reader' = IF left = {} THEN [reader EXCEPT !.pc = "served"]
                     ELSE IF dobj[reader.ver][f] = Absent THEN [reader EXCEPT !.pc = "lost"]
                     ELSE [reader EXCEPT !.got[f] = dobj[reader.ver][f]]

ReaderStep ==
    \/ Require \/ GetSeal \/ GetRoot \/ GetChain \/ Verified
    \/ GetDataset \/ GetManifest \/ LoadPayload

ReaderNext ==
    \/ Next /\ UNCHANGED <<decays, reader>>
    \/ DecayNext /\ UNCHANGED reader
    \/ (Ask \/ ReaderStep) /\ UNCHANGED <<vars, decays>>

ReaderSpec == ReaderInit /\ [][ReaderNext]_<<vars, decays, reader>>

-----------------------------------------------------------------------------
Happened(whats, to) == \E what \in whats : <<what, reader.ver>> \in to

\* What a consumer ends up with is the group of the tree whose root digest the seal records,
\* complete and byte for byte, although it fetched dataset.json, the manifest and the payload
\* at different times while jobs were promoting.  A document that was edited before it asked is
\* never served; one that was edited since may be, and so may payload that was overwritten,
\* which no read looks for.
ServedIsSealed ==
    reader.pc = "served" /\ ~Happened(Rewritten, decays \ reader.old) =>
        /\ reader.seal # NoDoc
        /\ LET sealed == Part(reader.seal.root, reader.group)
           IN  /\ NamesIn(reader.got) = NamesIn(sealed)
               /\ \/ reader.got = sealed
                  \/ Happened({"object-resized", "object-content-changed"}, decays)

\* A reader of a dataset that did not decay is never told that it was altered, and never finds
\* a document or an object missing, at whatever moment of a promotion it asks.
NoFalseAlarm == reader.pc \in {"mismatch", "lost"} => Happened(Decays, decays)

\* Frozen means frozen: once sealed, nothing under the version changes in the data bucket, by
\* any job whatever it read before the seal appeared.
Frozen == [][decays' = decays => Freezes]_<<vars, decays, reader>>
=============================================================================
