--------------------------- MODULE StreamClientMC ---------------------------
(* Sets of classes on which StreamClient is checked.                       *)
EXTENDS StreamClient

\* The classes that initialise the flags and consume sub_state.
ConsumingVenues == {v \in VenueNames : Profile[v].flags /\ Profile[v].consumed}
=============================================================================
