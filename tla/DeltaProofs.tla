---------------------------- MODULE DeltaProofs ----------------------------
(***************************************************************************)
(* The delta algorithm, for any keys and any data: a delta computed from   *)
(* one snapshot to another, applied to the first, gives the second,        *)
(* removals and both kinds of change included.                             *)
(***************************************************************************)
EXTENDS Delta, TLAPS

\* A map is a function on a set of keys.
LEMMA MapsAreFunctions ==
  ASSUME NEW m \in Maps
  PROVE  DOMAIN m \subseteq Keys /\ m = [k \in DOMAIN m |-> m[k]] /\ \A k \in DOMAIN m : m[k] \in Data
  BY DEF Maps

\* diffValues and diffTargeting report changes that can be sent.
THEOREM DiffIsChanges ==
  ASSUME NEW old \in Maps, NEW new \in Maps
  PROVE  Diff(old, new) \in Changes
  <1>1. ChangedKeys(old, new) \subseteq DOMAIN new /\ DOMAIN new \subseteq Keys
    BY MapsAreFunctions DEF ChangedKeys
  <1>2. [k \in ChangedKeys(old, new) |-> new[k]] \in [ChangedKeys(old, new) -> Data]
    BY <1>1, MapsAreFunctions
  <1>3. [k \in ChangedKeys(old, new) |-> new[k]] \in Maps
    BY <1>1, <1>2 DEF Maps
  <1>4. DOMAIN old \ DOMAIN new \subseteq Keys
    BY MapsAreFunctions
  <1> QED BY <1>3, <1>4 DEF Diff, Changes

\* Patching the old map with the difference to the new one gives the new one.
THEOREM PatchOfDiff ==
  ASSUME NEW old \in Maps, NEW new \in Maps
  PROVE  Patch(old, Diff(old, new)) = new
  <1> DEFINE c == Diff(old, new)
             D == (DOMAIN old \cup DOMAIN c.set) \ c.remove
  <1>1. /\ c.set = [k \in ChangedKeys(old, new) |-> new[k]]
        /\ DOMAIN c.set = ChangedKeys(old, new)
        /\ c.remove = DOMAIN old \ DOMAIN new
    BY DEF Diff
  <1>2. D = DOMAIN new
    BY <1>1 DEF ChangedKeys
  <1>3. \A k \in D : (IF k \in DOMAIN c.set THEN c.set[k] ELSE old[k]) = new[k]
    BY <1>1, <1>2 DEF ChangedKeys
  <1>4. Patch(old, c) = [k \in D |-> IF k \in DOMAIN c.set THEN c.set[k] ELSE old[k]]
    BY DEF Patch
  <1> HIDE DEF c, D
  <1> QED BY <1>2, <1>3, <1>4, MapsAreFunctions DEF c

\* The round trip of a whole snapshot, in the SDKs and in the server's ApplyDelta.
THEOREM DeltaRoundTrip ==
  ASSUME NEW old \in Snapshots, NEW new \in Snapshots
  PROVE  /\ ApplyUnchecked(old, ComputeDelta(old, new)) = new
         /\ ApplyDelta(old, ComputeDelta(old, new)) = new
  <1>1. /\ old.row.values \in Maps /\ old.row.targeting \in Maps
        /\ new.row.values \in Maps /\ new.row.targeting \in Maps
    BY DEF Snapshots, Rows
  <1>2. new = [revision |-> new.revision,
               row |-> [values |-> new.row.values, targeting |-> new.row.targeting]]
    BY DEF Snapshots, Rows
  <1>3. ApplyUnchecked(old, ComputeDelta(old, new)) = new
    BY <1>1, <1>2, PatchOfDiff DEF ApplyUnchecked, ComputeDelta
  <1> QED BY <1>3 DEF ApplyDelta, ComputeDelta
=============================================================================
