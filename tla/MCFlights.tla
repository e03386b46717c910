----------------------------- MODULE MCFlights -----------------------------
(* A model-checking instance of flights and airports. *)
EXTENDS FlightsProperties, TLC

CONSTANTS ams, ams2

\* Amsterdam is deleted and added again under a new id.
IcaoOf   == ams :> "EHAM" @@ ams2 :> "EHAM"
IataOf   == ams :> "AMS"  @@ ams2 :> "AMS"
Symmetry == Permutations(Flts) \cup Permutations(Callers)
=============================================================================
