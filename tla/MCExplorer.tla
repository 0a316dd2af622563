--------------------------- MODULE MCExplorer ---------------------------
(***************************************************************************)
(* Two feeds, of which the second has no trips, two files and one thing to *)
(* type.                                                                   *)
(***************************************************************************)
EXTENDS Explorer

CONSTANTS Stops, Trips, Kings

MCFiles == {Stops, Trips}

MCTyping == {Kings}

MCLacking == {<<2, Trips>>}
=============================================================================
