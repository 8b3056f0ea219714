------------------------------- MODULE Decay -------------------------------
(***************************************************************************)
(* What happens to published versions behind the airlock's back: objects   *)
(* and documents of edullm-data that are deleted, cut short or             *)
(* overwritten.                                                            *)
(***************************************************************************)
EXTENDS Airlock

CONSTANT MaxDecays   \* bound: how often something decays

ASSUME DecayAssumption == MaxDecays \in Nat

VARIABLE decays   \* <<what, version>> of everything that decayed so far

\* Decays that have a finding of their own.
Codes     == {"dataset-json-gone", "manifest-gone", "object-gone", "object-resized",
              "object-content-changed"}
Rewritten == {"dataset-rewritten", "manifest-rewritten"}
Decays    == Codes \cup Rewritten \cup {"seal-gone"}

\* A version that was published long ago: no job comes back to it.
Old(v) == /\ "VALIDATED" \in marks[v]
          /\ \A j \in Jobs : v \notin job[j].work

Decayed(what, v) ==
    /\ Old(v)
    /\ Cardinality(decays) < MaxDecays
    /\ <<what, v>> \notin decays
    /\ decays' = decays \cup {<<what, v>>}
    /\ UNCHANGED <<landingVars, pubVars, jobVars, catalog>>

LoseDataset(v) ==
    /\ Decayed("dataset-json-gone", v)
    /\ dds' = [dds EXCEPT ![v] = NoDoc]
    /\ UNCHANGED <<dman, dobj, seal>>

LoseManifest(v) ==
    /\ Decayed("manifest-gone", v)
    /\ \E g \in Groups : dman[v][g] # NoDoc /\ dman' = [dman EXCEPT ![v][g] = NoDoc]
    /\ UNCHANGED <<dds, dobj, seal>>

LoseSeal(v) ==
    /\ Decayed("seal-gone", v)
    /\ seal' = [seal EXCEPT ![v] = NoDoc]
    /\ UNCHANGED <<dds, dman, dobj>>

LoseObject(v) ==
    /\ Decayed("object-gone", v)
    /\ \E f \in NamesIn(dobj[v]) : dobj' = [dobj EXCEPT ![v][f] = Absent]
    /\ UNCHANGED <<dds, dman, seal>>

\* An overwrite with other bytes, of another length or of the same.
Overwrite(v) ==
    /\ \E f \in NamesIn(dobj[v]) : \E k \in Contents \ {dobj[v][f]} :
          /\ Decayed(IF SizeOf[k] = SizeOf[dobj[v][f]] THEN "object-content-changed"
                     ELSE "object-resized", v)
          /\ dobj' = [dobj EXCEPT ![v][f] = k]
    /\ UNCHANGED <<dds, dman, seal>>

\* A document is edited: it now says something else about one file of `names`, or nothing.
Edits(t, names) == {[t EXCEPT ![f] = k] : f \in names, k \in Contents \cup {Absent}} \ {t}

RewriteDataset(v) ==
    /\ dds[v] # NoDoc
    /\ Decayed("dataset-rewritten", v)
    /\ \E t \in Edits(dds[v], Files) : dds' = [dds EXCEPT ![v] = t]
    /\ UNCHANGED <<dman, dobj, seal>>

RewriteManifest(v) ==
    /\ Decayed("manifest-rewritten", v)
    /\ \E g \in Groups :
          /\ dman[v][g] # NoDoc
          /\ \E t \in Edits(dman[v][g], {f \in Files : GroupOf[f] = g}) :
                dman' = [dman EXCEPT ![v][g] = t]
    /\ UNCHANGED <<dds, dobj, seal>>

DecayNext == \E v \in Versions :
    \/ LoseDataset(v) \/ LoseManifest(v) \/ LoseSeal(v) \/ LoseObject(v)
    \/ Overwrite(v) \/ RewriteDataset(v) \/ RewriteManifest(v)
=============================================================================
