------------------------- MODULE MCAssociations -------------------------
(***************************************************************************)
(* Associations between three trains over the days 5 to 8, Friday to       *)
(* Monday, with a clock change on the Sunday, day 7.  The index holds any  *)
(* selection of the records below, in the order of their ids.              *)
(***************************************************************************)
EXTENDS Associations

CONSTANTS a, b, c, here

Daily(from, to) == [from |-> from, to |-> to, days |-> DaysOfWeek, exclude |-> {}]

(* The first record is what the second, an overlay, leaves of a permanent one. *)
Records ==
  << [tuid |-> a, calendar |-> [Daily(5, 8) EXCEPT !.exclude = {5, 6}],
      departs |-> "late", calls |-> {here}],
     [tuid |-> a, calendar |-> Daily(5, 6), departs |-> "day", calls |-> {here}],
     [tuid |-> b, calendar |-> Daily(5, 8), departs |-> "day", calls |-> {here}],
     [tuid |-> b, calendar |-> Daily(8, 9), departs |-> "late", calls |-> {here}],
     [tuid |-> b, calendar |-> Daily(7, 7), departs |-> "repeated", calls |-> {}],
     [tuid |-> c, calendar |-> Daily(6, 8), departs |-> "repeated", calls |-> {here}] >>

Numbered(k) ==
  [id |-> k, tuid |-> Records[k].tuid, calendar |-> Records[k].calendar,
   departs |-> Records[k].departs, calls |-> Records[k].calls]

RECURSIVE Filed(_, _, _)
Filed(ids, tuid, k) ==
  IF k > Len(Records) THEN <<>>
  ELSE (IF k \in ids /\ Records[k].tuid = tuid THEN <<Numbered(k)>> ELSE <<>>)
         \o Filed(ids, tuid, k + 1)

MCIndexes ==
  {[tuid \in Tuids |-> Filed(ids, tuid, 1)] : ids \in SUBSET (1 .. Len(Records))}

Between(base, assoc, dates, type, calendar) ==
  [base |-> base, assoc |-> assoc, location |-> here, dates |-> dates,
   type |-> type, calendar |-> calendar]

MCAssociationRecords ==
  {Between(a, b, "S", "VV", Daily(5, 8)),
   Between(a, b, "N", "JJ", Daily(5, 7)),
   Between(b, c, "S", "JJ", [Daily(5, 8) EXCEPT !.days = {0, 6}]),
   Between(c, a, "P", "VV", Daily(6, 9)),
   Between(a, c, "S", "NA", Daily(5, 8))}

OneAssociation == {Between(a, b, "S", "VV", Daily(5, 8))}
=========================================================================
