--------------------------- MODULE MCOverlays ---------------------------
(***************************************************************************)
(* Overlays on four days, Friday to Monday, so that ranges cross the end   *)
(* of the numbered week.                                                   *)
(***************************************************************************)
EXTENDS Overlays

CONSTANTS a, b

Ranges == {<<5, 8>>, <<7, 8>>}

MCCalendars ==
  {[from |-> r[1], to |-> r[2], days |-> DaysOfWeek, exclude |-> {}] : r \in Ranges}
    \cup {[from |-> 5, to |-> 8, days |-> {0, 6}, exclude |-> {}],
          [from |-> 5, to |-> 6, days |-> {1}, exclude |-> {}]}
==========================================================================
