------------------------ MODULE MCFlightLookupCache ------------------------
(* A model-checking instance of the flight lookup cache. *)
EXTENDS FlightLookupCacheProperties, TLC

CONSTANT SQ318

Spelling == [raw \in Raws |-> IF raw = "sq 318" THEN SQ318 ELSE NoNumber]
Symmetry == Permutations(Callers)
=============================================================================
