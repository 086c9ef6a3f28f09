------------------------------- MODULE Delta -------------------------------
(***************************************************************************)
(* Snapshots and the deltas between them (internal/delivery/delta.go, and  *)
(* the hand-kept copies of its apply side in both SDKs).                   *)
(*                                                                         *)
(* A Go map is a function on the set of keys it holds.  A snapshot is its  *)
(* revision and its row, the values and the targeting rules of one         *)
(* config_version.  Version and SchemaHash, which every function here      *)
(* copies from the newer side unread, are left out.  A nil map and an      *)
(* empty one are the same function: both leave the key out of the JSON.    *)
(***************************************************************************)
EXTENDS Naturals, FiniteSets

CONSTANTS Keys,   \* field names
          Data    \* what a field, or a field's list of rules, may be

Maps == UNION {[S -> Data] : S \in SUBSET Keys}

Rows == [values : Maps, targeting : Maps]

Snapshots == [revision : Nat, row : Rows]

\* Set carries the new keys and those whose value changed, Remove the keys gone.
Changes == [set : Maps, remove : SUBSET Keys]

Deltas == [from : Nat, revision : Nat, values : Changes, targeting : Changes]

ChangedKeys(old, new) == {k \in DOMAIN new : k \notin DOMAIN old \/ old[k] # new[k]}

\* diffValues and diffTargeting, which are the same function at two types.
Diff(old, new) ==
  [set |-> [k \in ChangedKeys(old, new) |-> new[k]],
   remove |-> DOMAIN old \ DOMAIN new]

\* applyFieldDelta and applyTargetingDelta: copy, overwrite with Set, delete Remove.
Patch(base, c) ==
  [k \in (DOMAIN base \cup DOMAIN c.set) \ c.remove |->
     IF k \in DOMAIN c.set THEN c.set[k] ELSE base[k]]

ComputeDelta(old, new) ==
  [from      |-> old.revision,
   revision  |-> new.revision,
   values    |-> Diff(old.row.values, new.row.values),
   targeting |-> Diff(old.row.targeting, new.row.targeting)]

\* The SDKs' applyDelta: the caller has compared d.from with its revision, or not.
ApplyUnchecked(base, d) ==
  [revision |-> d.revision,
   row |-> [values    |-> Patch(base.row.values, d.values),
            targeting |-> Patch(base.row.targeting, d.targeting)]]

\* The server's ApplyDelta: a delta that was not computed against base is refused.
ApplyDelta(base, d) ==
  IF d.from = base.revision THEN ApplyUnchecked(base, d) ELSE base
=============================================================================
