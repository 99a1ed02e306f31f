----------------------------- MODULE FiniteMap -----------------------------
(***************************************************************************)
(* What a hash table promises: a map from keys to values that counts its   *)
(* keys.  Keys the table's equivalence does not tell apart share one       *)
(* binding.                                                                *)
(***************************************************************************)
EXTENDS Integers, FiniteSets

CONSTANTS Keys, Values

Absent == 0

VARIABLES map, count,
          eqv         \* the pairs of keys the table does not tell apart

Bind(k, v) == [j \in Keys |-> IF <<j, k>> \in eqv THEN v ELSE map[j]]

MapInit == /\ map = [k \in Keys |-> Absent] /\ count = 0
           /\ eqv \in SUBSET (Keys \X Keys)

Put(k, v) == /\ map' = Bind(k, v)
             /\ count' = IF map[k] = Absent THEN count + 1 ELSE count
             /\ UNCHANGED eqv

Remove(k) == /\ map[k] # Absent
             /\ map' = Bind(k, Absent)
             /\ count' = count - 1
             /\ UNCHANGED eqv

\* (a call that changes no binding is a stuttering step)
MapNext ==
  \E k \in Keys : /\ map'[k] # map[k]
                  /\ Remove(k) \/ (map'[k] \in Values /\ Put(k, map'[k]))

MapSpec == MapInit /\ [][MapNext]_<<map, count, eqv>>
=============================================================================
