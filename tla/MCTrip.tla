-------------------------------- MODULE MCTrip --------------------------------
(* Small trips: a line of a few places, two segments, one fault.             *)
EXTENDS Trip

\* The ground is open: every search reaches its goal.
OpenGroundSpec == Init /\ [][Next /\ (Answered(trip)' => trip'.search.result.outcome = "Complete")]_vars
=============================================================================
