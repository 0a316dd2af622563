------------------------ MODULE MCTimetableSources ------------------------
(***************************************************************************)
(* Two trains and a z-train.  The trains are interchangeable.              *)
(***************************************************************************)
EXTENDS TimetableSources, TLC

CONSTANTS p, q, z

MCTrains == {p, q}

MCZTrains == {z}

TrainsAreAlike == Permutations(MCTrains)
============================================================================
