------------------------------ MODULE Buckets ------------------------------
(***************************************************************************)
(* The two S3 buckets every other module works on: landing, where anybody *)
(* may write, and data (edullm-data), where only the validator writes and  *)
(* nobody deletes.  One dataset id is modelled; its versions v1, v2, ...   *)
(* are the numbers 1..MaxVersion.                                          *)
(*                                                                         *)
(* A payload object is its content.  A sha256 or a crc64nvme is modelled   *)
(* by the content it is computed from (no collisions).  A Tree says which  *)
(* files exist and with which content; it stands for the payload under a   *)
(* prefix, for a manifest (path -> digest and size) and for what           *)
(* dataset.json pins, the manifest digests of all its groups.              *)
(***************************************************************************)
EXTENDS Naturals, FiniteSets, FiniteSetsExt

CONSTANTS
    NFiles,       \* payload files are 1..NFiles, in the order of their keys
    NGroups,      \* groups are 1..NGroups, in the order of their names
    GroupOf,      \* the group of a file: the first segment of its path
    Contents,     \* what a payload object may hold
    SizeOf,       \* length of a content in bytes
    Unfit,        \* contents that a profile check of Gate A rejects
    MaxVersion,   \* bound on the versions of the dataset
    Absent,       \* no object under this key
    NoDoc         \* no control document under this key

Files    == 1 .. NFiles
Groups   == 1 .. NGroups
Versions == 1 .. MaxVersion

Trees == [Files -> Contents \cup {Absent}]

Docs  == Trees \cup {NoDoc}
Marks == {"VALIDATED", "REJECTED"}
\* What a seal records: the digest of dataset.json, the manifest digests per
\* group (those of the dataset.json promote() holds), the crc of each object.
Seals == [root : Docs, pinned : Trees, crc : Trees]

ASSUME BucketsAssumption ==
    /\ NFiles \in Nat /\ NGroups \in Nat /\ MaxVersion \in Nat
    /\ GroupOf \in [Files -> Groups]
    /\ SizeOf \in [Contents -> Nat]
    /\ Unfit \subseteq Contents
    /\ Absent \notin Contents
    /\ NoDoc \notin Trees /\ NoDoc \notin Seals

Empty        == [f \in Files |-> Absent]
NamesIn(t)   == {f \in Files : t[f] # Absent}
GroupsIn(t)  == {GroupOf[f] : f \in NamesIn(t)}
\* The part of a tree that lies under the prefix of group g: its manifest.
Part(t, g)   == [f \in Files |-> IF GroupOf[f] = g THEN t[f] ELSE Absent]

VARIABLES
    lds,      \* landing: <v>/dataset.json
    lman,     \* landing: <v>/<group>/manifest.json
    lobj,     \* landing: payload under <v>/
    marks,    \* landing: which of _VALIDATED.json and _REJECTED.json exist
    dds,      \* data: <v>/dataset.json
    dman,     \* data: <v>/<group>/manifest.json
    dobj,     \* data: payload under <v>/
    catalog,  \* data: _catalog/<id>/<v>.json (the root it records)
    seal      \* data: <v>/_VALIDATED.json

landingVars == <<lds, lman, lobj, marks>>
dataVars    == <<dds, dman, dobj, catalog, seal>>

BucketsTypeOK ==
    /\ lds     \in [Versions -> Docs]
    /\ lman    \in [Versions -> [Groups -> Docs]]
    /\ lobj    \in [Versions -> Trees]
    /\ marks   \in [Versions -> SUBSET Marks]
    /\ dds     \in [Versions -> Docs]
    /\ dman    \in [Versions -> [Groups -> Docs]]
    /\ dobj    \in [Versions -> Trees]
    /\ catalog \in [Versions -> Docs]
    /\ seal    \in [Versions -> Seals \cup {NoDoc}]

BucketsInit ==
    /\ lds     = [v \in Versions |-> NoDoc]
    /\ lman    = [v \in Versions |-> [g \in Groups |-> NoDoc]]
    /\ lobj    = [v \in Versions |-> Empty]
    /\ marks   = [v \in Versions |-> {}]
    /\ dds     = [v \in Versions |-> NoDoc]
    /\ dman    = [v \in Versions |-> [g \in Groups |-> NoDoc]]
    /\ dobj    = [v \in Versions |-> Empty]
    /\ catalog = [v \in Versions |-> NoDoc]
    /\ seal    = [v \in Versions |-> NoDoc]

(***************************************************************************)
(* What verify_seal recomputes from the data bucket for a sealed version:  *)
(* the root, then every group's manifest against both the dataset.json     *)
(* that is there and the seal.  It reads no payload byte.                  *)
(***************************************************************************)
SealIntact(v) ==
    /\ dds[v] # NoDoc
    /\ dds[v] = seal[v].root
    /\ \A g \in GroupsIn(dds[v]) :
          /\ dman[v][g] = Part(dds[v], g)
          /\ g \in GroupsIn(seal[v].pinned) => dman[v][g] = Part(seal[v].pinned, g)
=============================================================================
