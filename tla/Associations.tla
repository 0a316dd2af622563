-------------------------- MODULE Associations --------------------------
(***************************************************************************)
(* What BuildFeed.getSchedules does after the overlays: applyAssociations  *)
(* (libs/gtfs/src/transform/ApplyAssociations.ts, model/Association.ts),   *)
(* resolveLinks (LinkedTrips.ts) and shiftLateNightServices.               *)
(*                                                                         *)
(* An association says that one train divides from, or joins, another at a *)
(* location.  Each record of the associated train that may take part is    *)
(* cut into the days it is coupled, which become a record of their own     *)
(* that a link names, and the days it runs by itself.  A train may be the  *)
(* base of one association and the associated train of another, so a cut   *)
(* can replace a record an earlier link names.                             *)
(*                                                                         *)
(* Ids stand for trips: mergeSchedules gives every record a trip id of its *)
(* own.  Times of day are abstracted to what the late night rule tells     *)
(* apart.                                                                  *)
(***************************************************************************)
EXTENDS ServiceCalendar, FiniteSets, Sequences, SequencesExt

CONSTANTS
  Tuids,              \* the trains
  Locations,          \* the places an association may name
  ClockChanges,       \* the Sundays on which the clocks go back
  Indexes,            \* what the overlays and the exclusions may leave
  Associations,       \* the associations the source may hold
  FirstId             \* where the builder's id generator starts

(***************************************************************************)
(* When a record departs: before two ("late"), in the Windrush night       *)
(* service's shape ("repeated"), at another hour ("day"), or after 24:00   *)
(* because copyToPreviousServiceDay wrote it ("past24").                   *)
(***************************************************************************)
Departures == {"late", "repeated", "day", "past24"}

Schedule ==
  [id : Nat, tuid : Tuids, calendar : Calendar,
   calls : SUBSET Locations, departs : Departures]

Association ==
  [base : Tuids, assoc : Tuids, location : Locations,
   dates : {"S", "N", "P"}, type : {"JJ", "VV", "NA"}, calendar : Calendar]

Link == [from : Nat, to : Nat, location : Locations, type : {"JJ", "VV"}]

RecordsOf(ix) == UNION {ToSet(ix[tuid]) : tuid \in Tuids}

ASSUME FirstIdAssumption == FirstId \in Nat

ASSUME AssociationsAssumption == Associations \subseteq Association

(* Every record has an id of its own, and the generator starts past them.  *)
ASSUME IndexesAssumption ==
  \A ix \in Indexes :
    /\ ix \in [Tuids -> Seq(Schedule)]
    /\ \A tuid \in Tuids : \A i \in 1 .. Len(ix[tuid]) :
         /\ ix[tuid][i].tuid = tuid
         /\ ix[tuid][i].id < FirstId
         /\ ix[tuid][i].departs # "past24"
         /\ \A other \in Tuids : \A j \in 1 .. Len(ix[other]) :
              ix[other][j].id = ix[tuid][i].id => other = tuid /\ j = i

VARIABLES
  duplicateOvernight, \* the build option
  index,              \* schedulesByTuid
  todo,               \* the associations not taken yet
  association,        \* the association being applied
  matching,           \* its associated schedules, as filtered when it was taken
  associated,         \* the coupled schedules, kept aside
  links,
  nextId,
  phase,
  trips               \* what the feed publishes

vars == <<duplicateOvernight, index, todo, association, matching, associated,
          links, nextId, phase, trips>>
-----------------------------------------------------------------------------
DayOffset(a) == CASE a.dates = "N" -> 1 [] a.dates = "P" -> -1 [] a.dates = "S" -> 0

InBaseDays(a, calendar) ==
  CASE a.dates = "N" -> ShiftBackward(calendar)
    [] a.dates = "P" -> ShiftForward(calendar)
    [] a.dates = "S" -> calendar

InAssocDays(a, calendar) ==
  CASE a.dates = "N" -> ShiftForward(calendar)
    [] a.dates = "P" -> ShiftBackward(calendar)
    [] a.dates = "S" -> calendar

RunsInTheRepeatedHour(s) ==
  /\ s.departs = "repeated"
  /\ s.calendar.from = s.calendar.to
  /\ s.calendar.from \in ClockChanges

IsLateNight(s) ==
  /\ s.departs \in {"late", "repeated"}
  /\ ~RunsInTheRepeatedHour(s)

DayShift(s) == IF IsLateNight(s) THEN 1 ELSE 0

(* A slip the runs must notice: a copy that keeps the id of what it copies. *)
CopyKeepingTheId(s, id) ==
  [s EXCEPT !.calendar = ShiftBackward(s.calendar), !.departs = "past24"]

CopyToPreviousServiceDay(s, id) ==
  [s EXCEPT !.id = id, !.calendar = ShiftBackward(s.calendar), !.departs = "past24"]

OnServiceDay(s) ==
  IF IsLateNight(s) THEN CopyToPreviousServiceDay(s, s.id) ELSE s
-----------------------------------------------------------------------------
(***************************************************************************)
(* The inner loop takes the matching records in the order of the index,    *)
(* and couples each with the first record of the base it overlaps.         *)
(***************************************************************************)
Place(s) == CHOOSE i \in 1 .. Len(index[s.tuid]) : index[s.tuid][i] = s

Foremost(s, among) == \A other \in among : Place(s) <= Place(other)

Bases(a, s) ==
  {base \in ToSet(index[a.base]) : Overlaps(InBaseDays(a, s.calendar), base.calendar)}

(* A slip the runs must notice: days the association is not in force. *)
CoupledAnyDay(a, base, s) == Intersect(base.calendar, InBaseDays(a, s.calendar))

Coupled(a, base, s) ==
  Intersect(Intersect(base.calendar, InBaseDays(a, s.calendar)), a.calendar)

Applies(a, base, s) ==
  /\ a.location \in base.calls
  /\ a.location \in s.calls
  /\ a.type \in {"JJ", "VV"}
  /\ ~IsEmpty(Coupled(a, base, s))

AsDated(a, base, s) ==
  [s EXCEPT !.id = nextId, !.calendar = InAssocDays(a, Coupled(a, base, s))]

(* A slip the runs must notice: the late night rule left out of the count. *)
DayGapAsDated(a, base, asDated) == DayOffset(a)

DayGap(a, base, asDated) == DayOffset(a) - DayShift(asDated) + DayShift(base)

Duplicates(a, base, asDated) ==
  /\ duplicateOvernight
  /\ DayGap(a, base, asDated) = 1
  /\ ~IsLateNight(asDated)

LinkOf(a, base, coupled) ==
  [from     |-> IF a.type = "JJ" THEN coupled.id ELSE base.id,
   to       |-> IF a.type = "JJ" THEN base.id ELSE coupled.id,
   location |-> a.location,
   type     |-> a.type]

(* A slip the runs must notice: the coupled days taken away as the base counts them. *)
ApplicationInBaseDays(a, base, s, asDated) ==
  LET remainder == [s EXCEPT !.id = nextId + 1,
                             !.calendar = WithoutDaysOf(s.calendar,
                                            InBaseDays(a, asDated.calendar))]
  IN  [coupled      |-> <<asDated>>,
       unassociated |-> IF IsEmpty(remainder.calendar) THEN <<>> ELSE <<remainder>>,
       link         |-> LinkOf(a, base, asDated)]

(***************************************************************************)
(* The coupled days as the record dates them, with the copy on the base's  *)
(* day if there is one, and what is left of the record, if anything.  Ids  *)
(* are handed out in this order.                                           *)
(***************************************************************************)
Application(a, base, s, asDated) ==
  LET coupled   == IF Duplicates(a, base, asDated)
                   THEN <<asDated, CopyToPreviousServiceDay(asDated, nextId + 1)>>
                   ELSE <<asDated>>
      remainder == [s EXCEPT !.id = nextId + Len(coupled),
                             !.calendar = WithoutDaysOf(s.calendar, asDated.calendar)]
  IN  [coupled      |-> coupled,
       unassociated |-> IF IsEmpty(remainder.calendar) THEN <<>> ELSE <<remainder>>,
       link         |-> LinkOf(a, base, Last(coupled))]

Splice(seq, i, replacements) ==
  SubSeq(seq, 1, i - 1) \o replacements \o SubSeq(seq, i + 1, Len(seq))
-----------------------------------------------------------------------------
Init ==
  /\ duplicateOvernight \in BOOLEAN
  /\ index \in Indexes
  /\ todo \in SUBSET Associations
  /\ association \in Associations
  /\ matching = {}
  /\ associated = <<>>
  /\ links = {}
  /\ nextId = FirstId
  /\ phase = "associations"
  /\ trips = {}

TakeAssociation ==
  /\ phase = "associations"
  /\ \E a \in todo :
       /\ association' = a
       /\ todo' = todo \ {a}
       /\ matching' =
            {s \in ToSet(index[a.assoc]) :
               Overlaps(InAssocDays(a, a.calendar), s.calendar)}
  /\ phase' = "schedules"
  /\ UNCHANGED <<duplicateOvernight, index, associated, links, nextId, trips>>

PassBy ==
  /\ phase = "schedules"
  /\ \E s \in matching :
       /\ Foremost(s, matching)
       /\ \A base \in Bases(association, s) :
            Foremost(base, Bases(association, s)) => ~Applies(association, base, s)
       /\ matching' = matching \ {s}
  /\ UNCHANGED <<duplicateOvernight, index, todo, association, associated,
                 links, nextId, phase, trips>>

(* A slip the runs must notice: a coupled schedule left where the next association looks. *)
CoupleInPlace ==
  /\ phase = "schedules"
  /\ \E s \in matching : \E base \in Bases(association, s) :
       /\ Foremost(s, matching)
       /\ Foremost(base, Bases(association, s))
       /\ Applies(association, base, s)
       /\ matching' = matching \ {s}
       /\ \E asDated \in {AsDated(association, base, s)} :
          \E applied \in {Application(association, base, s, asDated)} :
            /\ links' = links \cup {applied.link}
            /\ associated' = associated
            /\ index' = [index EXCEPT ![s.tuid] =
                           Splice(index[s.tuid], Place(s),
                                  applied.unassociated \o applied.coupled)]
            /\ nextId' = nextId + Len(applied.coupled) + Len(applied.unassociated)
  /\ UNCHANGED <<duplicateOvernight, todo, association, phase, trips>>

Couple ==
  /\ phase = "schedules"
  /\ \E s \in matching : \E base \in Bases(association, s) :
       /\ Foremost(s, matching)
       /\ Foremost(base, Bases(association, s))
       /\ Applies(association, base, s)
       /\ matching' = matching \ {s}
       /\ \E asDated \in {AsDated(association, base, s)} :
          \E applied \in {Application(association, base, s, asDated)} :
            /\ links' = links \cup {applied.link}
            /\ associated' = associated \o applied.coupled
            /\ index' = [index EXCEPT ![s.tuid] =
                           Splice(index[s.tuid], Place(s), applied.unassociated)]
            /\ nextId' = nextId + Len(applied.coupled) + Len(applied.unassociated)
  /\ UNCHANGED <<duplicateOvernight, todo, association, phase, trips>>

AssociationApplied ==
  /\ phase = "schedules"
  /\ matching = {}
  /\ phase' = "associations"
  /\ UNCHANGED <<duplicateOvernight, index, todo, association, matching,
                 associated, links, nextId, trips>>

(***************************************************************************)
(* Once every association has been applied the coupled schedules join the  *)
(* index, one after the other.                                             *)
(***************************************************************************)
PushAssociated ==
  /\ phase = "associations"
  /\ todo = {}
  /\ associated # <<>>
  /\ index' = [index EXCEPT ![Head(associated).tuid] = Append(@, Head(associated))]
  /\ associated' = Tail(associated)
  /\ UNCHANGED <<duplicateOvernight, todo, association, matching, links, nextId,
                 phase, trips>>

AssociationsApplied ==
  /\ phase = "associations"
  /\ todo = {}
  /\ associated = <<>>
  /\ phase' = "associated"
  /\ UNCHANGED <<duplicateOvernight, index, todo, association, matching,
                 associated, links, nextId, trips>>

(***************************************************************************)
(* mergeSchedules flattens the index, and a link survives if both records  *)
(* it names are still there and neither id was handed out twice.           *)
(***************************************************************************)
Handed(id) ==
  {at \in Tuids \X (1 .. nextId) :
     at[2] <= Len(index[at[1]]) /\ index[at[1]][at[2]].id = id}

ResolveLinks ==
  /\ phase = "associated"
  /\ trips' = RecordsOf(index)
  /\ links' = {link \in links :
                 /\ Cardinality(Handed(link.from)) = 1
                 /\ Cardinality(Handed(link.to)) = 1}
  /\ phase' = "resolved"
  /\ UNCHANGED <<duplicateOvernight, index, todo, association, matching,
                 associated, nextId>>

ShiftLateNightServices ==
  /\ phase = "resolved"
  /\ trips' = {s \in {OnServiceDay(trip) : trip \in trips} : ~IsEmpty(s.calendar)}
  /\ phase' = "done"
  /\ UNCHANGED <<duplicateOvernight, index, todo, association, matching,
                 associated, links, nextId>>

Returned == phase = "done" /\ UNCHANGED vars

Next ==
  \/ TakeAssociation
  \/ PassBy
  \/ Couple
  \/ AssociationApplied
  \/ PushAssociated
  \/ AssociationsApplied
  \/ ResolveLinks
  \/ ShiftLateNightServices
  \/ Returned

Spec == Init /\ [][Next]_vars
-----------------------------------------------------------------------------
AssocEnd(link) == IF link.type = "JJ" THEN link.from ELSE link.to

BaseEnd(link) == IF link.type = "JJ" THEN link.to ELSE link.from

Pieces == RecordsOf(index) \cup ToSet(associated)

TypeOK ==
  /\ duplicateOvernight \in BOOLEAN
  /\ index \in [Tuids -> Seq(Schedule)]
  /\ todo \subseteq Associations
  /\ association \in Associations
  /\ matching \subseteq ToSet(index[association.assoc])
  /\ associated \in Seq(Schedule)
  /\ links \subseteq Link
  /\ nextId \in Nat
  /\ phase \in {"associations", "schedules", "associated", "resolved", "done"}
  /\ trips \subseteq Schedule

(***************************************************************************)
(* Cutting a train never loses a day of it, never makes one up and never   *)
(* runs one twice that was run once.  The copies made for the planners     *)
(* that cannot follow a train over midnight are told apart and left out.   *)
(***************************************************************************)
Own(tuid) == {s \in Pieces : s.tuid = tuid /\ s.departs # "past24"}

Days(records) == UNION {RunDays(s.calendar) : s \in records}

DaysRun(tuid) == Days(Own(tuid))

DaysRunTwice(tuid) ==
  UNION {RunDays(s.calendar) \cap Days(Own(tuid) \ {s}) : s \in Own(tuid)}

CutsKeepTheTimetable ==
  [][\A tuid \in Tuids : /\ DaysRun(tuid)' = DaysRun(tuid)
                         /\ DaysRunTwice(tuid)' = DaysRunTwice(tuid)]_vars

(***************************************************************************)
(* No id is handed out twice, so no coupling is dropped as ambiguous, or   *)
(* names the wrong train.                                                  *)
(***************************************************************************)
IdsAreUnique ==
  /\ \A one, other \in Pieces : one.id = other.id => one = other
  /\ \A s \in Pieces : s.id < nextId

(***************************************************************************)
(* A schedule once coupled is never coupled a second time: the record a    *)
(* link names as its associated train stays, and one link names it.  Only  *)
(* the base end of a link can be replaced by a later association.          *)
(***************************************************************************)
CoupledOnce ==
  \A link \in links :
    /\ \E s \in Pieces : s.id = AssocEnd(link)
    /\ \A other \in links : AssocEnd(other) = AssocEnd(link) => other = link

(***************************************************************************)
(* The days a published link's two trips share are the coupled days and    *)
(* nothing else: on each day the associated trip runs, its base runs too   *)
(* and an association between them is in force, as the base counts days.   *)
(***************************************************************************)
JoinsTrains(a, link, base, coupled) ==
  /\ a.base = base.tuid
  /\ a.assoc = coupled.tuid
  /\ a.location = link.location
  /\ a.type = link.type

CoupledDaysAreShared ==
  phase = "resolved" =>
    \A link \in links : \E base, coupled \in trips :
      /\ base.id = BaseEnd(link)
      /\ coupled.id = AssocEnd(link)
      /\ \E a \in Associations :
           /\ JoinsTrains(a, link, base, coupled)
           /\ LET record == IF coupled.departs = "past24"
                            THEN ShiftForward(coupled.calendar)
                            ELSE coupled.calendar
              IN  RunDays(InBaseDays(a, record)) # {}
                  /\ RunDays(InBaseDays(a, record))
                       \subseteq RunDays(base.calendar) \cap RunDays(a.calendar)

(***************************************************************************)
(* A copy is made only where it closes the gap: once the late night rule   *)
(* has moved either train, the copy runs on the service days of the trains *)
(* it is coupled with, those of the base on which the association is in    *)
(* force, and it is not the train it copies told twice on one day.         *)
(***************************************************************************)
CoupledServiceDays(a, base) ==
  {date - DayShift(base) : date \in RunDays(base.calendar) \cap RunDays(a.calendar)}

CopiesCloseTheGap ==
  phase = "resolved" =>
    \A link \in links : \A base, coupled \in trips :
      (base.id = BaseEnd(link) /\ coupled.id = AssocEnd(link)
         /\ coupled.departs = "past24")
        => /\ \E a \in Associations :
                /\ JoinsTrains(a, link, base, coupled)
                /\ RunDays(coupled.calendar) \subseteq CoupledServiceDays(a, base)
           /\ \A s \in trips :
                s.tuid = coupled.tuid /\ s.id = coupled.id - 1
                  => RunDays(OnServiceDay(s).calendar) # RunDays(coupled.calendar)

(***************************************************************************)
(* "The associated schedule is cut to base, assoc and association and the  *)
(* days the two trips share are the days they are coupled": on a day the   *)
(* base runs and calls, the associated train runs and calls and the        *)
(* association is in force, no train is left running by itself.  The code  *)
(* does not keep this promise; see the README.                             *)
(***************************************************************************)
CoupledWheneverAllThreeRun ==
  (phase = "schedules" /\ matching = {}) =>
    \A base \in ToSet(index[association.base]),
       alone \in ToSet(index[association.assoc]) :
      (/\ association.type \in {"JJ", "VV"}
       /\ association.location \in base.calls
       /\ association.location \in alone.calls
       /\ base.tuid # alone.tuid)
        => RunDays(base.calendar)
             \cap RunDays(InBaseDays(association, alone.calendar))
             \cap RunDays(association.calendar) = {}
==========================================================================
