------------------------------ MODULE MCKvRing ------------------------------
(* KvRing on a three-block stack: a sliding layer and a global layer that   *)
(* own their cache, and a shared sliding layer that reads the first one's.  *)
EXTENDS KvRing

MCLayerWindow == [l \in 0..2 |-> IF l = 1 THEN 0 ELSE 3]
MCKvSource == [l \in 0..2 |-> IF l = 2 THEN 0 ELSE l]
=============================================================================
