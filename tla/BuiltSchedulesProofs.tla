------------------------ MODULE BuiltSchedulesProofs ------------------------
(***************************************************************************)
(* The safety of Overlays, and of the builder before it, for every set of  *)
(* trains, every set of calendars and any number of records, with any      *)
(* timing points and whatever turns the two streams take:                  *)
(*                                                                         *)
(*   1. what the overlays do to a train's days (Spec);                     *)
(*   2. the rows of a query have an order, in which each record's are next *)
(*      to each other;                                                     *)
(*   3. the cursor of a stream is that of the record in hand, as though it *)
(*      were the only one;                                                 *)
(*   4. each record becomes one schedule, and those of a train come in the *)
(*      order the overlays may be given them in: AllSpec implements Spec;  *)
(*   5. a schedule serves the places of its record;                        *)
(*   6. its passes keep their places on the public clock;                  *)
(*   7. nothing of it is told before its origin.                           *)
(***************************************************************************)
EXTENDS BuiltSchedules, SequenceTheorems, FiniteSetTheorems, WellFoundedInduction, TLAPS

-----------------------------------------------------------------------------
(***************************************************************************)
(* 1. Overlays.                                                            *)
(***************************************************************************)

(***************************************************************************)
(* What overlap, exclusion and emptiness say of the days a calendar runs.  *)
(* AssociationsProofs has these facts with those of the other operations.  *)
(***************************************************************************)
LEMMA IsEmptyIsNoDays ==
  ASSUME NEW c \in Calendar
  PROVE  IsEmpty(c) <=> RunDays(c) = {}
BY DEF IsEmpty, RunDays

LEMMA SharedIsCommon ==
  ASSUME NEW c \in Calendar, NEW other \in Calendar
  PROVE  SharedDays(c, other) = RunDays(c) \cap RunDays(other)
BY DEF SharedDays, RunDays, RunsOn, Calendar, Later, Earlier

LEMMA OverlapIsCommon ==
  ASSUME NEW c \in Calendar, NEW other \in Calendar
  PROVE  Overlaps(c, other) <=> RunDays(c) \cap RunDays(other) # {}
<1>1. RunDays(c) \cap RunDays(other) # {} => c.days \cap other.days # {}
  BY DEF RunDays, RunsOn
<1> QED BY <1>1, SharedIsCommon DEF Overlaps

LEMMA WithoutDaysIs ==
  ASSUME NEW c \in Calendar, NEW other \in Calendar
  PROVE  /\ WithoutDaysOf(c, other) \in Calendar
         /\ RunDays(WithoutDaysOf(c, other)) = RunDays(c) \ RunDays(other)
<1>1. SharedDays(c, other) \subseteq Int
  BY DEF SharedDays
<1>2. WithoutDaysOf(c, other) \in Calendar
  BY <1>1 DEF WithoutDaysOf, Clone, Calendar
<1>3. \A date : \A d \in Calendar : date \in RunDays(d) <=> date \in Int /\ RunsOn(d, date)
  BY DEF RunDays, RunsOn, Calendar
<1>4. ASSUME NEW date \in Int
      PROVE  RunsOn(WithoutDaysOf(c, other), date)
               <=> RunsOn(c, date) /\ date \notin SharedDays(c, other)
  BY DEF WithoutDaysOf, Clone, RunsOn, Calendar
<1> QED BY <1>2, <1>3, <1>4, SharedIsCommon

(***************************************************************************)
(* splice(at, 1): the elements before the position stay, the others move   *)
(* down by one.                                                            *)
(***************************************************************************)
LEMMA RemoveAtProperties ==
  ASSUME NEW S, NEW s \in Seq(S), NEW i \in 1 .. Len(s)
  PROVE  /\ RemoveAt(s, i) \in Seq(S)
         /\ Len(RemoveAt(s, i)) = Len(s) - 1
         /\ \A k \in 1 .. Len(s) - 1 :
              RemoveAt(s, i)[k] = IF k < i THEN s[k] ELSE s[k + 1]
<1> DEFINE front == SubSeq(s, 1, i - 1)
           back  == SubSeq(s, i + 1, Len(s))
<1>1. /\ front \in Seq(S)
      /\ Len(front) = i - 1
      /\ \A k \in 1 .. i - 1 : front[k] = s[k]
  BY SubSeqProperties
<1>2. /\ back \in Seq(S)
      /\ Len(back) = Len(s) - i
      /\ \A k \in 1 .. Len(s) - i : back[k] = s[i + k]
  BY SubSeqProperties
<1>3. RemoveAt(s, i) = front \o back
  BY DEF RemoveAt
<1> HIDE DEF front, back
<1>4. /\ front \o back \in Seq(S)
      /\ Len(front \o back) = Len(front) + Len(back)
      /\ \A k \in 1 .. Len(front) + Len(back) :
           (front \o back)[k] =
             IF k <= Len(front) THEN front[k] ELSE back[k - Len(front)]
  BY <1>1, <1>2, ConcatProperties
<1>5. Len(s) \in Nat /\ (i - 1) + (Len(s) - i) = Len(s) - 1
  OBVIOUS
<1>6. ASSUME NEW k \in 1 .. Len(s) - 1
      PROVE  (front \o back)[k] = IF k < i THEN s[k] ELSE s[k + 1]
  <2>1. CASE k < i
    BY <2>1, <1>1, <1>2, <1>4, <1>5
  <2>2. CASE ~(k < i)
    <3>1. /\ k - (i - 1) \in 1 .. Len(s) - i
          /\ i + (k - (i - 1)) = k + 1
      BY <2>2
    <3>2. (front \o back)[k] = back[k - (i - 1)]
      BY <2>2, <1>1, <1>2, <1>4, <1>5
    <3>3. back[k - (i - 1)] = s[k + 1]
      BY <3>1, <1>2
    <3> QED
      BY <2>2, <3>2, <3>3
  <2> QED
    BY <2>1, <2>2
<1> QED
  BY <1>1, <1>2, <1>3, <1>4, <1>5, <1>6

(***************************************************************************)
(* A set of kept records is the set of the elements of the list.           *)
(***************************************************************************)
LEMMA KeptAreElements ==
  ASSUME NEW s \in Seq(Schedule), NEW e
  PROVE  e \in ToSet(s) <=> \E i \in 1 .. Len(s) : s[i] = e
BY DEF ToSet

(***************************************************************************)
(* Where the types hold, the record being applied is a record of some      *)
(* train, and its calendar, like every calendar kept, is a calendar.       *)
(***************************************************************************)
LEMMA RecordsAreSchedules ==
  ASSUME TypeOK, NEW k \in 1 .. Len(schedules)
  PROVE  /\ schedules[k] \in Schedule
         /\ schedules[k].id = k
         /\ schedules[k].tuid \in Tuids
         /\ schedules[k].calendar \in Calendar
<1>1. schedules[k] \in Schedule /\ schedules[k].id = k
  BY DEF TypeOK
<1> QED
  BY <1>1 DEF Schedule

LEMMA CurrentIsASchedule ==
  ASSUME TypeOK, phase = "overlay"
  PROVE  /\ Current \in Schedule
         /\ Current.tuid \in Tuids
         /\ Current.calendar \in Calendar
         /\ Current.id = Len(schedules)
         /\ Len(schedules) \in Nat \ {0}
         /\ Bases \in Seq(Schedule)
<1>1. Len(schedules) \in Nat \ {0}
  BY EmptySeq DEF TypeOK
<1>2. Current \in Schedule /\ Current.id = Len(schedules)
  BY <1>1 DEF TypeOK, Current
<1> QED
  BY <1>1, <1>2 DEF TypeOK, Schedule, Bases

LEMMA BaseIsASchedule ==
  ASSUME TypeOK, Applying
  PROVE  /\ at \in 1 .. Len(Bases)
         /\ Bases[at] \in Schedule
         /\ Bases[at].calendar \in Calendar
         /\ Remainder(Bases[at]) \in Calendar
         /\ RunDays(Remainder(Bases[at]))
              = RunDays(Bases[at].calendar) \ RunDays(Current.calendar)
<1>1. phase = "overlay" /\ at \in 1 .. Len(Bases)
  BY CurrentIsASchedule DEF Applying, TypeOK
<1>2. Bases[at] \in Schedule
  <2>1. Bases \in Seq(Schedule)
    BY <1>1, CurrentIsASchedule
  <2> QED
    BY <1>1, <2>1, ElementOfSeq
<1>3. Bases[at].calendar \in Calendar
  BY <1>2 DEF Schedule
<1> QED
  BY <1>1, <1>2, <1>3, CurrentIsASchedule, WithoutDaysIs
     DEF Remainder

(* One step keeps the types. *)
LEMMA TypesAreKept == ASSUME TypeOK, [Next]_vars PROVE TypeOK'
<1>1. CASE NextSchedule
  <2>1. PICK schedule \in Schedule :
          schedule.id = Len(schedules) + 1 /\ schedules' = Append(schedules, schedule)
    <3>1. PICK tuid \in Tuids, stp \in STP, calendar \in Calendars :
            schedules' = Append(schedules, [id       |-> Len(schedules) + 1,
                                            tuid     |-> tuid,
                                            stp      |-> stp,
                                            calendar |-> calendar])
      BY <1>1 DEF NextSchedule
    <3>2. Len(schedules) \in Nat /\ calendar \in Calendar
      BY CalendarsAssumption DEF TypeOK
    <3>3. [id |-> Len(schedules) + 1, tuid |-> tuid, stp |-> stp,
           calendar |-> calendar] \in Schedule
      BY <3>2 DEF Schedule
    <3> QED
      BY <3>1, <3>3
  <2>2. /\ schedules' \in Seq(Schedule)
        /\ schedules' # <<>>
        /\ \A k \in 1 .. Len(schedules') : schedules'[k].id = k
    BY <2>1 DEF TypeOK
  <2> QED
    BY <1>1, <2>2 DEF NextSchedule, TypeOK
<1>2. CASE KeepBase
  BY <1>2 DEF KeepBase, Applying, TypeOK
<1>3. CASE ExcludeFromBase
  <2>1. [Bases EXCEPT ![at] = Cut(Bases[at])] \in Seq(Schedule)
    <3>1. Cut(Bases[at]) \in Schedule
      BY <1>3, BaseIsASchedule DEF ExcludeFromBase, Cut, Schedule
    <3> QED
      BY <1>3, <3>1, BaseIsASchedule, CurrentIsASchedule, ExceptSeq
         DEF ExcludeFromBase, Applying
  <2>2. index' \in [Tuids -> Seq(Schedule)]
    BY <1>3, <2>1, CurrentIsASchedule DEF ExcludeFromBase, Applying, TypeOK, Bases
  <2> QED
    BY <1>3, <2>2 DEF ExcludeFromBase, Applying, TypeOK
<1>4. CASE DropBase
  <2>1. RemoveAt(Bases, at) \in Seq(Schedule)
    <3>1. at \in 1 .. Len(Bases)
      BY <1>4, BaseIsASchedule DEF DropBase
    <3>2. Bases \in Seq(Schedule)
      BY <1>4, CurrentIsASchedule DEF DropBase, Applying
    <3> QED
      BY <3>1, <3>2, RemoveAtProperties, Zenon
  <2>2. index' \in [Tuids -> Seq(Schedule)]
    BY <1>4, <2>1, CurrentIsASchedule DEF DropBase, Applying, TypeOK, Bases
  <2> QED
    BY <1>4, <2>2 DEF DropBase, Applying, TypeOK
<1>5. CASE AddToIndex
  <2>1. index' \in [Tuids -> Seq(Schedule)]
    BY <1>5, CurrentIsASchedule DEF AddToIndex, TypeOK, Bases
  <2> QED
    BY <1>5, <2>1 DEF AddToIndex, TypeOK
<1>6. CASE Return
  BY <1>6 DEF Return, TypeOK
<1>7. CASE Returned
  BY <1>7 DEF Returned, vars, TypeOK
<1>8. CASE UNCHANGED vars
  BY <1>8 DEF vars, TypeOK
<1> QED
  BY <1>1, <1>2, <1>3, <1>4, <1>5, <1>6, <1>7, <1>8 DEF Next

(***************************************************************************)
(* Type correctness.                                                       *)
(***************************************************************************)
THEOREM TypeInvariant == Spec => []TypeOK
<1>1. Init => TypeOK
  BY DEF Init, TypeOK
<1>2. TypeOK /\ [Next]_vars => TypeOK'
  BY TypesAreKept
<1> QED
  BY <1>1, <1>2, PTL DEF Spec

-----------------------------------------------------------------------------
(***************************************************************************)
(* One turn of the inner loop loses no day but those of the record being   *)
(* applied, and those only from its own train.                             *)
(***************************************************************************)
LEMMA OnlyItsDaysAreLost ==
  ASSUME TypeOK, KeepBase \/ ExcludeFromBase \/ DropBase,
         NEW tuid \in Tuids,
         NEW kept \in Kept(tuid),
         NEW date \in RunDays(kept.calendar),
         tuid = Current.tuid => date \notin RunDays(Current.calendar)
  PROVE  \E left \in Kept(tuid)' : left.id = kept.id /\ date \in RunDays(left.calendar)
<1>1. PICK i \in 1 .. Len(index[tuid]) : index[tuid][i] = kept
  BY KeptAreElements DEF TypeOK, Kept
<1>2. index[tuid] \in Seq(Schedule)
  BY DEF TypeOK
<1>3. CASE KeepBase
  BY <1>3 DEF KeepBase, Kept
<1>4. CASE ExcludeFromBase
  <2>1. Applying
    BY <1>4 DEF ExcludeFromBase
  <2>2. CASE tuid = Current.tuid
    <3> DEFINE cut == [Bases EXCEPT ![at] = Cut(Bases[at])]
    <3>1. index'[tuid] = cut /\ Bases = index[tuid]
      BY <1>4, <2>2 DEF ExcludeFromBase, Bases, TypeOK
    <3>2. /\ Cut(Bases[at]) \in Schedule
          /\ Cut(Bases[at]).id = Bases[at].id
          /\ Cut(Bases[at]).calendar = Remainder(Bases[at])
      BY <2>1, BaseIsASchedule DEF Cut, Schedule
    <3>3. cut \in Seq(Schedule) /\ Len(cut) = Len(Bases)
      BY <2>1, <3>2, BaseIsASchedule, CurrentIsASchedule, ExceptSeq DEF Applying
    <3>4. cut[i] = IF i = at THEN Cut(Bases[at]) ELSE Bases[i]
      BY <1>1, <1>2, <3>1
    <3>5. cut[i].id = kept.id /\ date \in RunDays(cut[i].calendar)
      BY <1>1, <2>1, <2>2, <3>1, <3>2, <3>4, BaseIsASchedule
    <3> QED
      BY <1>1, <3>1, <3>3, <3>5, KeptAreElements DEF Kept
  <2>3. CASE tuid # Current.tuid
    BY <1>4, <2>3 DEF ExcludeFromBase, Kept, TypeOK
  <2> QED
    BY <2>2, <2>3
<1>5. CASE DropBase
  <2>1. Applying
    BY <1>5 DEF DropBase
  <2>2. CASE tuid = Current.tuid
    <3>1. index'[tuid] = RemoveAt(Bases, at) /\ Bases = index[tuid]
      BY <1>5, <2>2 DEF DropBase, Bases, TypeOK
    <3>2. RunDays(Bases[at].calendar) \subseteq RunDays(Current.calendar)
      <4>1. RunDays(Remainder(Bases[at])) = {}
        BY <1>5, <2>1, BaseIsASchedule, IsEmptyIsNoDays DEF DropBase
      <4> QED
        BY <2>1, <4>1, BaseIsASchedule
    <3>3. i # at
      BY <1>1, <2>2, <3>1, <3>2
    <3>4. /\ RemoveAt(Bases, at) \in Seq(Schedule)
          /\ Len(RemoveAt(Bases, at)) = Len(Bases) - 1
          /\ \A k \in 1 .. Len(Bases) - 1 :
               RemoveAt(Bases, at)[k] = IF k < at THEN Bases[k] ELSE Bases[k + 1]
      <4>1. at \in 1 .. Len(Bases)
        BY <2>1, BaseIsASchedule
      <4>2. Bases \in Seq(Schedule)
        BY <2>1, CurrentIsASchedule DEF Applying
      <4> HIDE DEF Bases
      <4> QED
        BY <4>1, <4>2, RemoveAtProperties, Zenon
    <3> DEFINE j == IF i < at THEN i ELSE i - 1
    <3>5. j \in 1 .. Len(Bases) - 1 /\ (IF j < at THEN j ELSE j + 1) = i
      BY <1>1, <1>2, <2>1, <3>1, <3>3, BaseIsASchedule
    <3>6. RemoveAt(Bases, at)[j] = kept
      BY <1>1, <3>1, <3>4, <3>5
    <3>7. kept \in ToSet(index'[tuid])
      BY <3>1, <3>4, <3>5, <3>6, KeptAreElements
    <3> QED
      BY <3>7 DEF Kept
  <2>3. CASE tuid # Current.tuid
    BY <1>5, <2>3 DEF DropBase, Kept, TypeOK
  <2> QED
    BY <2>2, <2>3
<1> QED
  BY <1>3, <1>4, <1>5

(***************************************************************************)
(* No train is lost, for every set of trains and calendars and any number  *)
(* of records.                                                             *)
(***************************************************************************)
THEOREM NoDayIsLost == Spec => []NoDayLost
<1>1. Init => NoDayLost
  BY DEF Init, NoDayLost
<1>2. TypeOK /\ NoDayLost /\ [Next]_vars => NoDayLost'
  <2> SUFFICES ASSUME TypeOK, NoDayLost, [Next]_vars,
                      NEW k \in 1 .. Len(schedules'), Published(k)',
                      NEW date \in RunDays(schedules'[k].calendar),
                      LastWordOn(k, date)'
               PROVE  \E left \in Kept(schedules[k].tuid)' :
                        left.id = k /\ date \in RunDays(left.calendar)
    BY DEF NoDayLost
  <2>1. CASE NextSchedule
    <3>1. PICK schedule : schedules' = Append(schedules, schedule)
      BY <2>1 DEF NextSchedule
    <3>2. /\ phase = "next" /\ phase' = "overlay" /\ index' = index
          /\ Len(schedules') = Len(schedules) + 1
          /\ \A m \in 1 .. Len(schedules) : schedules'[m] = schedules[m]
      BY <2>1, <3>1 DEF NextSchedule, TypeOK
    <3>3. k \in 1 .. Len(schedules) /\ Published(k)
      BY <3>2 DEF Published, TypeOK
    <3>4. LastWordOn(k, date) /\ date \in RunDays(schedules[k].calendar)
      BY <3>2, <3>3 DEF LastWordOn, TypeOK
    <3>5. \E left \in Kept(schedules[k].tuid) :
            left.id = k /\ date \in RunDays(left.calendar)
      BY <3>3, <3>4 DEF NoDayLost
    <3> QED
      BY <3>2, <3>3, <3>5 DEF Kept
  <2>2. CASE KeepBase \/ ExcludeFromBase \/ DropBase
    <3>1. /\ phase = "overlay" /\ phase' = "overlay" /\ schedules' = schedules
      BY <2>2 DEF KeepBase, ExcludeFromBase, DropBase, Applying
    <3>2. Published(k) /\ LastWordOn(k, date) /\ k # Len(schedules)
      BY <3>1 DEF Published, LastWordOn
    <3>3. PICK kept \in Kept(schedules[k].tuid) :
            kept.id = k /\ date \in RunDays(kept.calendar)
      BY <3>1, <3>2 DEF NoDayLost
    <3>4. PICK tuid \in Tuids : tuid = schedules[k].tuid
      BY <3>1, RecordsAreSchedules
    <3>5. tuid = Current.tuid => date \notin RunDays(Current.calendar)
      BY <3>1, <3>2, <3>4, CurrentIsASchedule DEF LastWordOn, Current
    <3>6. \E left \in Kept(tuid)' : left.id = k /\ date \in RunDays(left.calendar)
      BY <2>2, <3>3, <3>4, <3>5, OnlyItsDaysAreLost
    <3> QED
      BY <3>1, <3>4, <3>6 DEF Kept
  <2>3. CASE AddToIndex
    <3>1. /\ phase = "overlay" /\ phase' = "next" /\ schedules' = schedules
      BY <2>3 DEF AddToIndex
    <3>2. PICK tuid \in Tuids : tuid = schedules[k].tuid
      BY <3>1, RecordsAreSchedules
    <3>3. CASE k = Len(schedules)
      <4>1. /\ schedules[k] = Current /\ Current.stp # "C" /\ tuid = Current.tuid
            /\ Current.id = k
        BY <3>1, <3>2, <3>3, CurrentIsASchedule DEF Published, Current
      <4>2. index'[tuid] = Append(index[tuid], Current)
        BY <2>3, <4>1 DEF AddToIndex, Bases, TypeOK
      <4>3. Current \in ToSet(index'[tuid])
        <5>1. index[tuid] \in Seq(Schedule) /\ Current \in Schedule
          BY <3>1, CurrentIsASchedule DEF TypeOK
        <5>2. /\ index'[tuid] \in Seq(Schedule)
              /\ Len(index'[tuid]) \in 1 .. Len(index'[tuid])
              /\ index'[tuid][Len(index'[tuid])] = Current
          BY <4>2, <5>1, AppendProperties
        <5> QED
          BY <5>2, KeptAreElements
      <4> QED
        BY <3>1, <3>2, <4>1, <4>3 DEF Kept
    <3>4. CASE k # Len(schedules)
      <4>1. Published(k) /\ LastWordOn(k, date)
        BY <3>1, <3>4 DEF Published, LastWordOn
      <4>2. PICK kept \in Kept(tuid) : kept.id = k /\ date \in RunDays(kept.calendar)
        BY <3>1, <3>2, <4>1 DEF NoDayLost
      <4>3. kept \in ToSet(index'[tuid])
        <5>1. index[tuid] \in Seq(Schedule) /\ Current \in Schedule
          BY <3>1, CurrentIsASchedule DEF TypeOK
        <5>2. CASE index'[tuid] = index[tuid]
          BY <4>2, <5>2 DEF Kept
        <5>3. CASE index'[tuid] = Append(index[tuid], Current)
          <6>1. PICK i \in 1 .. Len(index[tuid]) : index[tuid][i] = kept
            BY <4>2, <5>1, KeptAreElements DEF Kept
          <6>2. /\ index'[tuid] \in Seq(Schedule)
                /\ i \in 1 .. Len(index'[tuid])
                /\ index'[tuid][i] = kept
            BY <5>1, <5>3, <6>1, AppendProperties
          <6> QED
            BY <6>2, KeptAreElements
        <5> QED
          BY <2>3, <5>2, <5>3 DEF AddToIndex, Bases, TypeOK
      <4> QED
        BY <3>1, <3>2, <4>2, <4>3 DEF Kept
    <3> QED
      BY <3>3, <3>4
  <2>4. CASE Return \/ Returned \/ UNCHANGED vars
    <3>1. schedules' = schedules /\ index' = index
      BY <2>4 DEF Return, Returned, vars
    <3>2. Published(k) /\ LastWordOn(k, date)
      BY <2>4, <3>1 DEF Return, Returned, vars, Published, LastWordOn
    <3> QED
      BY <3>1, <3>2 DEF NoDayLost, Kept
  <2> QED
    BY <2>1, <2>2, <2>3, <2>4 DEF Next
<1> QED
  BY <1>1, <1>2, TypeInvariant, PTL DEF Spec

-----------------------------------------------------------------------------
(***************************************************************************)
(* What is kept of a train is in the order it was read.                    *)
(***************************************************************************)
KeptInOrder ==
  \A tuid \in Tuids : \A i, j \in 1 .. Len(index[tuid]) :
    i < j => index[tuid][i].id < index[tuid][j].id

(* And is what was read of it, and is not the record being applied. *)
KeptWasPublished ==
  \A tuid \in Tuids : \A i \in 1 .. Len(index[tuid]) :
    /\ index[tuid][i].id \in 1 .. Len(schedules)
    /\ schedules[index[tuid][i].id].tuid = tuid
    /\ Published(index[tuid][i].id)

(* A record the iterator has not come to, on a day it is about to lose. *)
YetToLose(tuid, i, date) ==
  /\ phase = "overlay"
  /\ tuid = Current.tuid
  /\ at <= i
  /\ date \in RunDays(Current.calendar)

PastADrop(tuid, n) == \E k \in 1 .. n - 1 : Dropped(tuid, k)

(***************************************************************************)
(* TwiceOnlyPastADrop inside the loop: a superseded day is one the         *)
(* iterator has yet to come to, or past a dropped record.                  *)
(***************************************************************************)
SupersededDays ==
  \A tuid \in Tuids : \A i \in 1 .. Len(index[tuid]) :
    \A date \in RunDays(index[tuid][i].calendar) :
      \/ LastWordOn(index[tuid][i].id, date)
      \/ PastADrop(tuid, index[tuid][i].id)
      \/ YetToLose(tuid, i, date)

Inv == TypeOK /\ KeptInOrder /\ KeptWasPublished /\ SupersededDays

(***************************************************************************)
(* One turn of the inner loop, for a record that stays: where it was, and  *)
(* that the record under the iterator has no day of the current one left.  *)
(***************************************************************************)
Was(tuid, j) ==
  IF tuid = Current.tuid /\ Overlaps(Bases[at].calendar, Current.calendar)
       /\ IsEmpty(Remainder(Bases[at])) /\ at <= j
  THEN j + 1
  ELSE j

LEMMA TurnOfTheLoop ==
  ASSUME TypeOK, KeepBase \/ ExcludeFromBase \/ DropBase,
         NEW tuid \in Tuids, NEW j \in 1 .. Len(index'[tuid])
  PROVE  /\ Was(tuid, j) \in 1 .. Len(index[tuid])
         /\ index'[tuid][j].id = index[tuid][Was(tuid, j)].id
         /\ RunDays(index'[tuid][j].calendar)
              \subseteq RunDays(index[tuid][Was(tuid, j)].calendar)
         /\ tuid = Current.tuid /\ j = at /\ Was(tuid, j) = j
              => RunDays(index'[tuid][j].calendar) \cap RunDays(Current.calendar) = {}
<1>1. Applying /\ at \in 1 .. Len(Bases) /\ Bases \in Seq(Schedule) /\ Current.tuid \in Tuids
  BY BaseIsASchedule, CurrentIsASchedule DEF KeepBase, ExcludeFromBase, DropBase, Applying
<1>2. index[tuid] \in Seq(Schedule) /\ Len(index[tuid]) \in Nat
  BY DEF TypeOK
<1>3. CASE tuid # Current.tuid
  <2>1. index'[tuid] = index[tuid]
    BY <1>1, <1>3 DEF KeepBase, ExcludeFromBase, DropBase, TypeOK
  <2> QED BY <1>3, <2>1 DEF Was
<1>4. CASE tuid = Current.tuid /\ KeepBase
  <2>1. index'[tuid] = index[tuid] /\ Was(tuid, j) = j /\ Bases = index[tuid]
    BY <1>4 DEF KeepBase, Was, Bases
  <2>2. RunDays(Bases[at].calendar) \cap RunDays(Current.calendar) = {}
    BY <1>1, <1>4, BaseIsASchedule, CurrentIsASchedule, OverlapIsCommon
       DEF KeepBase, Applying
  <2> QED BY <2>1, <2>2
<1>5. CASE tuid = Current.tuid /\ ExcludeFromBase
  <2>1. Was(tuid, j) = j /\ Bases = index[tuid]
    BY <1>5 DEF ExcludeFromBase, Was, Bases
  <2>2. index'[tuid] = [Bases EXCEPT ![at] = Cut(Bases[at])]
    BY <1>5 DEF ExcludeFromBase, TypeOK
  <2>3. /\ Cut(Bases[at]).id = Bases[at].id
        /\ Cut(Bases[at]).calendar = Remainder(Bases[at])
    BY <1>1, BaseIsASchedule DEF Cut, Schedule
  <2>4. /\ Len(index'[tuid]) = Len(Bases)
        /\ index'[tuid][j] = IF j = at THEN Cut(Bases[at]) ELSE Bases[j]
    BY <1>1, <2>2
  <2>5. RunDays(Remainder(Bases[at]))
          = RunDays(Bases[at].calendar) \ RunDays(Current.calendar)
    BY <1>1, BaseIsASchedule
  <2> QED BY <2>1, <2>3, <2>4, <2>5
<1>6. CASE tuid = Current.tuid /\ DropBase
  <2>1. Was(tuid, j) = (IF at <= j THEN j + 1 ELSE j) /\ Bases = index[tuid]
    BY <1>6 DEF DropBase, Was, Bases
  <2>2. index'[tuid] = RemoveAt(Bases, at)
    BY <1>6 DEF DropBase, TypeOK
  <2>3. /\ Len(index'[tuid]) = Len(Bases) - 1
        /\ index'[tuid][j] = IF j < at THEN Bases[j] ELSE Bases[j + 1]
    <3> HIDE DEF Bases
    <3>1. /\ Len(RemoveAt(Bases, at)) = Len(Bases) - 1
          /\ \A k \in 1 .. Len(Bases) - 1 :
               RemoveAt(Bases, at)[k] = IF k < at THEN Bases[k] ELSE Bases[k + 1]
      BY <1>1, RemoveAtProperties, Zenon
    <3> QED BY <2>2, <3>1
  <2> QED BY <1>1, <1>2, <2>1, <2>3
<1> QED BY <1>3, <1>4, <1>5, <1>6

(* A record that was dropped stays so through a turn of the inner loop. *)
LEMMA DroppedForGood ==
  ASSUME TypeOK, KeepBase \/ ExcludeFromBase \/ DropBase,
         NEW tuid \in Tuids, NEW k, Dropped(tuid, k)
  PROVE  Dropped(tuid, k)'
<1>1. schedules' = schedules /\ phase' = phase
  BY DEF KeepBase, ExcludeFromBase, DropBase
<1>2. ASSUME NEW kept \in Kept(tuid)' PROVE kept.id # k
  <2>1. PICK j \in 1 .. Len(index'[tuid]) : index'[tuid][j] = kept
    <3>1. index' \in [Tuids -> Seq(Schedule)]
      BY TypesAreKept DEF Next, TypeOK
    <3> QED BY <3>1, KeptAreElements DEF Kept
  <2>2. /\ Was(tuid, j) \in 1 .. Len(index[tuid])
        /\ kept.id = index[tuid][Was(tuid, j)].id
    BY <2>1, TurnOfTheLoop
  <2>3. index[tuid][Was(tuid, j)] \in Kept(tuid)
    BY <2>2, KeptAreElements DEF Kept, TypeOK
  <2> QED BY <2>2, <2>3 DEF Dropped
<1> QED BY <1>1, <1>2 DEF Dropped, Published

(* A turn of the inner loop keeps what is kept in order, as it was read. *)
LEMMA TurnKeepsTheOrder ==
  ASSUME TypeOK, KeptInOrder, KeptWasPublished, KeepBase \/ ExcludeFromBase \/ DropBase
  PROVE  KeptInOrder' /\ KeptWasPublished'
<1>1. schedules' = schedules /\ phase' = phase
  BY DEF KeepBase, ExcludeFromBase, DropBase
<1>2. ASSUME NEW tuid \in Tuids, NEW i \in 1 .. Len(index'[tuid]),
             NEW j \in 1 .. Len(index'[tuid]), i < j
      PROVE  index'[tuid][i].id < index'[tuid][j].id
  <2>1. /\ Was(tuid, i) \in 1 .. Len(index[tuid])
        /\ Was(tuid, j) \in 1 .. Len(index[tuid])
        /\ index'[tuid][i].id = index[tuid][Was(tuid, i)].id
        /\ index'[tuid][j].id = index[tuid][Was(tuid, j)].id
    BY TurnOfTheLoop
  <2>2. Was(tuid, i) < Was(tuid, j)
    BY <1>2 DEF Was, TypeOK
  <2> QED BY <2>1, <2>2 DEF KeptInOrder
<1>3. ASSUME NEW tuid \in Tuids, NEW i \in 1 .. Len(index'[tuid])
      PROVE  /\ index'[tuid][i].id \in 1 .. Len(schedules)
             /\ schedules[index'[tuid][i].id].tuid = tuid
             /\ Published(index'[tuid][i].id)
  <2>1. /\ Was(tuid, i) \in 1 .. Len(index[tuid])
        /\ index'[tuid][i].id = index[tuid][Was(tuid, i)].id
    BY TurnOfTheLoop
  <2> QED BY <2>1 DEF KeptWasPublished
<1>4. KeptInOrder'
  BY <1>2 DEF KeptInOrder
<1>5. KeptWasPublished'
  BY <1>1, <1>3 DEF KeptWasPublished, Published
<1> QED BY <1>4, <1>5

(***************************************************************************)
(* The record under the iterator loses its days or is dropped; if it is    *)
(* dropped, the one that is passed by, and all after it, are past it.      *)
(***************************************************************************)
LEMMA TurnSupersedes ==
  ASSUME Inv, KeepBase \/ ExcludeFromBase \/ DropBase
  PROVE  SupersededDays'
<1> USE DEF Inv
<1>1. /\ schedules' = schedules /\ phase' = phase /\ phase = "overlay"
      /\ at' = at + 1 /\ Current' = Current /\ at \in Nat
  BY DEF KeepBase, ExcludeFromBase, DropBase, Current, Applying, TypeOK
<1> SUFFICES ASSUME NEW tuid \in Tuids, NEW j \in 1 .. Len(index'[tuid]),
                    NEW date \in RunDays(index'[tuid][j].calendar),
                    NEW n, n = index'[tuid][j].id
             PROVE  \/ LastWordOn(n, date)'
                    \/ PastADrop(tuid, n)'
                    \/ YetToLose(tuid, j, date)'
  BY DEF SupersededDays
<1> DEFINE i == Was(tuid, j)
<1>2. /\ i \in 1 .. Len(index[tuid])
      /\ n = index[tuid][i].id
      /\ date \in RunDays(index[tuid][i].calendar)
      /\ tuid = Current.tuid /\ j = at /\ i = j => date \notin RunDays(Current.calendar)
  BY TurnOfTheLoop
<1>3. n \in 1 .. Len(schedules)
  BY <1>2 DEF KeptWasPublished
<1>4. CASE LastWordOn(n, date)
  <2>1. LastWordOn(n, date)'
    BY <1>1, <1>4 DEF LastWordOn
  <2> QED BY <1>2, <2>1
<1>5. CASE PastADrop(tuid, n)
  <2>1. PICK k \in 1 .. n - 1 : Dropped(tuid, k)
    BY <1>5 DEF PastADrop
  <2>2. Dropped(tuid, k)'
    BY <2>1, DroppedForGood
  <2> QED BY <1>2, <2>1, <2>2 DEF PastADrop
<1>6. CASE YetToLose(tuid, i, date)
  <2>1. tuid = Current.tuid /\ at <= i /\ date \in RunDays(Current.calendar)
    BY <1>6 DEF YetToLose
  <2>2. CASE i = j
    <3>1. at + 1 <= j
      BY <1>1, <1>2, <2>1, <2>2
    <3> QED BY <1>1, <2>1, <3>1 DEF YetToLose
  <2>3. CASE i # j
    <3>1. /\ Overlaps(Bases[at].calendar, Current.calendar)
          /\ IsEmpty(Remainder(Bases[at]))
          /\ at <= j /\ i = j + 1
      BY <2>3 DEF Was
    <3>2. DropBase /\ Applying
      BY <3>1 DEF KeepBase, ExcludeFromBase, DropBase
    <3>3. Bases = index[tuid] /\ at \in 1 .. Len(index[tuid]) /\ at < i
      BY <1>1, <2>1, <3>1, <3>2, BaseIsASchedule DEF Bases
    <3> PICK k : k = index[tuid][at].id
      OBVIOUS
    <3>4. k \in 1 .. n - 1
      BY <1>2, <1>3, <3>3 DEF KeptInOrder, KeptWasPublished
    <3>5. ASSUME NEW kept \in Kept(tuid)' PROVE kept.id # k
      <4>1. PICK m \in 1 .. Len(index'[tuid]) : index'[tuid][m] = kept
        <5>1. index' \in [Tuids -> Seq(Schedule)]
          BY TypesAreKept DEF Next, TypeOK
        <5> QED BY <5>1, KeptAreElements DEF Kept
      <4>2. /\ Was(tuid, m) \in 1 .. Len(index[tuid])
            /\ kept.id = index[tuid][Was(tuid, m)].id
        BY <4>1, TurnOfTheLoop
      <4>3. Was(tuid, m) # at
        BY <1>1, <2>1, <3>1, <4>1 DEF Was
      <4>4. /\ Was(tuid, m) < at => kept.id < k
            /\ at < Was(tuid, m) => k < kept.id
        BY <3>3, <4>2 DEF KeptInOrder
      <4>5. kept.id \in Nat /\ k \in Nat
        BY <3>3, <4>2 DEF KeptWasPublished
      <4> QED BY <1>1, <4>2, <4>3, <4>4, <4>5
    <3>6. Dropped(tuid, k)'
      BY <1>1, <3>3, <3>5 DEF Dropped, Published, KeptWasPublished
    <3> QED BY <1>2, <3>4, <3>6 DEF PastADrop
  <2> QED BY <2>2, <2>3
<1>7. \/ LastWordOn(n, date)
      \/ PastADrop(tuid, n)
      \/ YetToLose(tuid, i, date)
  BY <1>2 DEF SupersededDays
<1> QED BY <1>4, <1>5, <1>6, <1>7

(* A record that is read takes the last word on its days, not yet applied. *)
LEMMA ReadingSupersedes ==
  ASSUME Inv, NextSchedule
  PROVE  KeptInOrder' /\ KeptWasPublished' /\ SupersededDays'
<1> USE DEF Inv
<1>1. PICK schedule : schedules' = Append(schedules, schedule)
  BY DEF NextSchedule
<1>2. /\ phase = "next" /\ phase' = "overlay" /\ index' = index /\ at' = 1
      /\ Len(schedules) \in Nat /\ Len(schedules') = Len(schedules) + 1
      /\ \A m \in 1 .. Len(schedules) : schedules'[m] = schedules[m]
      /\ schedules'[Len(schedules')] = schedule /\ Current' = schedule
  BY <1>1 DEF NextSchedule, TypeOK, Current
<1>3. KeptInOrder'
  BY <1>2 DEF KeptInOrder
<1>4. KeptWasPublished'
  BY <1>2 DEF KeptWasPublished, Published
<1>5. ASSUME NEW tuid \in Tuids, NEW i \in 1 .. Len(index[tuid]),
             NEW date \in RunDays(index[tuid][i].calendar)
      PROVE  \/ LastWordOn(index[tuid][i].id, date)'
             \/ PastADrop(tuid, index[tuid][i].id)'
             \/ YetToLose(tuid, i, date)'
  <2> DEFINE n == index[tuid][i].id
  <2>1. n \in 1 .. Len(schedules) /\ schedules[n].tuid = tuid
    BY DEF KeptWasPublished
  <2>2. CASE LastWordOn(n, date)
    <3>1. CASE schedule.tuid = tuid /\ date \in RunDays(schedule.calendar)
      BY <1>2, <3>1 DEF YetToLose
    <3>2. CASE ~(schedule.tuid = tuid /\ date \in RunDays(schedule.calendar))
      <4>1. ASSUME NEW later \in n + 1 .. Len(schedules'),
                   schedules'[later].tuid = tuid
            PROVE  date \notin RunDays(schedules'[later].calendar)
        <5>1. CASE later = Len(schedules')
          BY <1>2, <3>2, <4>1, <5>1
        <5>2. CASE later # Len(schedules')
          BY <1>2, <2>1, <2>2, <4>1, <5>2 DEF LastWordOn
        <5> QED BY <5>1, <5>2
      <4> QED BY <1>2, <2>1, <4>1 DEF LastWordOn
    <3> QED BY <3>1, <3>2
  <2>3. CASE PastADrop(tuid, n)
    <3>1. PICK k \in 1 .. n - 1 : Dropped(tuid, k)
      BY <2>3 DEF PastADrop
    <3>2. Dropped(tuid, k)'
      BY <1>2, <2>1, <3>1 DEF Dropped, Published, Kept
    <3> QED BY <1>2, <3>1, <3>2 DEF PastADrop
  <2>4. ~YetToLose(tuid, i, date)
    BY <1>2 DEF YetToLose
  <2> QED BY <2>2, <2>3, <2>4 DEF SupersededDays
<1> QED BY <1>2, <1>3, <1>4, <1>5 DEF SupersededDays

(* A record that is put into the index is the last one read of any train. *)
LEMMA AddingSupersedes ==
  ASSUME Inv, AddToIndex
  PROVE  KeptInOrder' /\ KeptWasPublished' /\ SupersededDays'
<1> USE DEF Inv
<1>1. /\ phase = "overlay" /\ phase' = "next" /\ schedules' = schedules
      /\ at > Len(Bases) /\ at \in Nat /\ Len(schedules) \in Nat \ {0}
      /\ Current \in Schedule /\ Current.tuid \in Tuids /\ Current.id = Len(schedules)
      /\ Current = schedules[Len(schedules)]
  BY CurrentIsASchedule DEF AddToIndex, TypeOK, Current
<1>2. ASSUME NEW tuid \in Tuids, NEW j \in 1 .. Len(index'[tuid])
      PROVE  \/ j \in 1 .. Len(index[tuid]) /\ index'[tuid][j] = index[tuid][j]
             \/ /\ j = Len(index[tuid]) + 1 /\ index'[tuid][j] = Current
                /\ tuid = Current.tuid /\ Current.stp # "C"
  <2>1. index[tuid] \in Seq(Schedule)
    BY DEF TypeOK
  <2>2. \/ index'[tuid] = index[tuid]
        \/ /\ index'[tuid] = Append(index[tuid], Current)
           /\ tuid = Current.tuid /\ Current.stp # "C"
    BY <1>1 DEF AddToIndex, Bases, TypeOK
  <2> QED BY <1>1, <2>1, <2>2, SMTT(20)
<1>3. ASSUME NEW tuid \in Tuids, NEW i \in 1 .. Len(index[tuid])
      PROVE  index[tuid][i].id \in 1 .. Len(schedules) - 1
  BY <1>1 DEF KeptWasPublished, Published
<1>4. ASSUME NEW tuid \in Tuids PROVE Len(index[tuid]) \in Nat
  BY DEF TypeOK
<1>5. ASSUME NEW tuid \in Tuids, NEW i \in 1 .. Len(index'[tuid]),
             NEW j \in 1 .. Len(index'[tuid]), i < j
      PROVE  index'[tuid][i].id < index'[tuid][j].id
  <2>1. i \in 1 .. Len(index[tuid]) /\ index'[tuid][i] = index[tuid][i]
    BY <1>2, <1>4, <1>5
  <2>2. CASE j \in 1 .. Len(index[tuid]) /\ index'[tuid][j] = index[tuid][j]
    BY <1>5, <2>1, <2>2 DEF KeptInOrder
  <2>3. CASE index'[tuid][j] = Current
    <3>1. index[tuid][i].id \in 1 .. Len(schedules) - 1
      BY <1>3, <2>1
    <3> QED BY <1>1, <2>1, <2>3, <3>1
  <2> QED BY <1>2, <2>2, <2>3
<1>6. ASSUME NEW tuid \in Tuids, NEW j \in 1 .. Len(index'[tuid])
      PROVE  /\ index'[tuid][j].id \in 1 .. Len(schedules)
             /\ schedules[index'[tuid][j].id].tuid = tuid
             /\ schedules[index'[tuid][j].id].stp # "C"
  <2>1. CASE j \in 1 .. Len(index[tuid]) /\ index'[tuid][j] = index[tuid][j]
    BY <2>1 DEF KeptWasPublished, Published
  <2>2. CASE index'[tuid][j] = Current /\ tuid = Current.tuid /\ Current.stp # "C"
    BY <1>1, <2>2
  <2> QED BY <1>2, <2>1, <2>2
<1>7. ASSUME NEW tuid \in Tuids, NEW j \in 1 .. Len(index'[tuid]),
             NEW date \in RunDays(index'[tuid][j].calendar),
             NEW n, n = index'[tuid][j].id
      PROVE  LastWordOn(n, date)' \/ PastADrop(tuid, n)'
  <2>1. CASE j \in 1 .. Len(index[tuid]) /\ index'[tuid][j] = index[tuid][j]
    <3>1. ~YetToLose(tuid, j, date)
      BY <1>1, <1>4, <2>1 DEF YetToLose, Bases
    <3>2. CASE LastWordOn(n, date)
      BY <1>1, <3>2 DEF LastWordOn
    <3>3. CASE PastADrop(tuid, n)
      <4>1. PICK k \in 1 .. n - 1 : Dropped(tuid, k)
        BY <3>3 DEF PastADrop
      <4>2. ASSUME NEW kept \in Kept(tuid)' PROVE kept.id # k
        <5>1. PICK m \in 1 .. Len(index'[tuid]) : index'[tuid][m] = kept
          <6>1. index' \in [Tuids -> Seq(Schedule)]
            BY TypesAreKept DEF Next, TypeOK
          <6> QED BY <6>1, KeptAreElements DEF Kept
        <5>2. CASE m \in 1 .. Len(index[tuid]) /\ index'[tuid][m] = index[tuid][m]
          <6>1. kept \in Kept(tuid)
            BY <5>1, <5>2, KeptAreElements DEF Kept, TypeOK
          <6> QED BY <4>1, <6>1 DEF Dropped
        <5>3. CASE index'[tuid][m] = Current
          <6>1. n \in 1 .. Len(schedules) - 1
            BY <1>3, <1>7, <2>1
          <6> QED BY <1>1, <4>1, <5>1, <5>3, <6>1
        <5> QED BY <1>2, <5>1, <5>2, <5>3
      <4>3. Dropped(tuid, k)'
        BY <1>1, <4>1, <4>2 DEF Dropped, Published
      <4> QED BY <4>1, <4>3 DEF PastADrop
    <3> QED BY <1>7, <2>1, <3>1, <3>2, <3>3 DEF SupersededDays
  <2>2. CASE index'[tuid][j] = Current
    BY <1>1, <1>7, <2>2 DEF LastWordOn
  <2> QED BY <1>2, <2>1, <2>2
<1>8. KeptInOrder'
  BY <1>5 DEF KeptInOrder
<1>9. KeptWasPublished'
  BY <1>1, <1>6 DEF KeptWasPublished, Published
<1>10. SupersededDays'
  BY <1>7 DEF SupersededDays
<1> QED BY <1>8, <1>9, <1>10

(***************************************************************************)
(* The splice under the iterator is the only way a superseded day is left  *)
(* standing, for any trains, calendars and number of records.              *)
(***************************************************************************)
THEOREM TwiceMeansADrop == Spec => []TwiceOnlyPastADrop
<1>1. Init => Inv
  <2> SUFFICES ASSUME Init PROVE Inv
    OBVIOUS
  <2>1. TypeOK
    BY DEF Init, TypeOK
  <2>2. \A tuid \in Tuids : Len(index[tuid]) = 0
    BY DEF Init
  <2> QED BY <2>1, <2>2 DEF Inv, KeptInOrder, KeptWasPublished, SupersededDays
<1>2. Inv /\ [Next]_vars => Inv'
  <2> SUFFICES ASSUME Inv, [Next]_vars PROVE Inv'
    OBVIOUS
  <2>1. TypeOK'
    BY TypesAreKept DEF Inv
  <2>2. CASE NextSchedule
    BY <2>1, <2>2, ReadingSupersedes DEF Inv
  <2>3. CASE KeepBase \/ ExcludeFromBase \/ DropBase
    BY <2>1, <2>3, TurnKeepsTheOrder, TurnSupersedes DEF Inv
  <2>4. CASE AddToIndex
    BY <2>1, <2>4, AddingSupersedes DEF Inv
  <2>5. CASE Return \/ Returned \/ UNCHANGED vars
    <3>1. /\ schedules' = schedules /\ index' = index /\ at' = at
          /\ \/ phase' = phase
             \/ phase = "next" /\ phase' = "done"
      BY <2>5 DEF Return, Returned, vars
    <3>2. KeptInOrder' /\ KeptWasPublished'
      BY <3>1 DEF Inv, KeptInOrder, KeptWasPublished, Published
    <3>3. ASSUME NEW tuid \in Tuids, NEW n
          PROVE  /\ \A date : LastWordOn(n, date) => LastWordOn(n, date)'
                 /\ PastADrop(tuid, n) => PastADrop(tuid, n)'
      BY <3>1 DEF LastWordOn, PastADrop, Dropped, Published, Kept
    <3>4. ASSUME NEW tuid \in Tuids, NEW i, NEW date
          PROVE  YetToLose(tuid, i, date) => YetToLose(tuid, i, date)'
      BY <3>1 DEF YetToLose, Current
    <3>5. ASSUME NEW tuid \in Tuids, NEW i \in 1 .. Len(index'[tuid]),
                 NEW date \in RunDays(index'[tuid][i].calendar),
                 NEW n, n = index'[tuid][i].id
          PROVE  LastWordOn(n, date)' \/ PastADrop(tuid, n)' \/ YetToLose(tuid, i, date)'
      BY <3>1, <3>3, <3>4, <3>5 DEF Inv, SupersededDays
    <3>6. SupersededDays'
      BY <3>5 DEF SupersededDays
    <3> QED BY <2>1, <3>2, <3>6 DEF Inv
  <2> QED BY <2>2, <2>3, <2>4, <2>5 DEF Next
<1>3. Inv => TwiceOnlyPastADrop
  <2> SUFFICES ASSUME Inv, phase # "overlay",
                      NEW tuid \in Tuids, NEW kept \in Kept(tuid),
                      NEW date \in RunDays(kept.calendar)
               PROVE  \/ LastWordOn(kept.id, date)
                      \/ \E k \in 1 .. kept.id - 1 : Dropped(tuid, k)
    BY DEF TwiceOnlyPastADrop
  <2>1. PICK i \in 1 .. Len(index[tuid]) : index[tuid][i] = kept
    BY KeptAreElements DEF Inv, TypeOK, Kept
  <2> QED BY <2>1 DEF Inv, SupersededDays, YetToLose, PastADrop
<1> QED BY <1>1, <1>2, <1>3, PTL DEF Spec

-----------------------------------------------------------------------------
(***************************************************************************)
(* 2. The order of a query.                                                *)
(***************************************************************************)

(***************************************************************************)
(* The rows of a query can be put in order: no two of them have the same   *)
(* place in it.                                                            *)
(***************************************************************************)
CanBeOrdered(result) ==
  /\ IsFiniteSet(result)
  /\ \A row \in result :
       row.record.stp \in STP /\ row.record.id \in Int /\ row.stop \in Nat
  /\ \A one, other \in result :
       one.record.id = other.record.id =>
         /\ one.record = other.record
         /\ one.stop = other.stop => one = other

(* The indicators have numbers. *)
LEMMA DescendingIsANumber == \A stp \in STP : Descending[stp] \in 1 .. 4
BY DEF STP, Descending

LEMMA RowsHaveAnOrder ==
  ASSUME NEW result, CanBeOrdered(result)
  PROVE  /\ \A row \in result : ~GoesBefore(row, row)
         /\ \A one, other \in result :
              one # other => GoesBefore(one, other) \/ GoesBefore(other, one)
         /\ \A one, other, third \in result :
              GoesBefore(one, other) /\ GoesBefore(other, third) => GoesBefore(one, third)
<1>1. ASSUME NEW row \in result PROVE ~GoesBefore(row, row)
  <2>1. Descending[row.record.stp] \in 1 .. 4 /\ row.record.id \in Int /\ row.stop \in Nat
    BY DescendingIsANumber DEF CanBeOrdered
  <2> QED BY <2>1 DEF GoesBefore
<1>2. ASSUME NEW one \in result, NEW other \in result, one # other
      PROVE  GoesBefore(one, other) \/ GoesBefore(other, one)
  <2>1. /\ Descending[one.record.stp] \in 1 .. 4 /\ one.record.id \in Int /\ one.stop \in Nat
        /\ Descending[other.record.stp] \in 1 .. 4 /\ other.record.id \in Int /\ other.stop \in Nat
    BY DescendingIsANumber DEF CanBeOrdered
  <2>2. ~(one.record.id = other.record.id /\ one.stop = other.stop)
    BY <1>2 DEF CanBeOrdered
  <2> QED BY <2>1, <2>2 DEF GoesBefore
<1>3. ASSUME NEW one \in result, NEW other \in result, NEW third \in result,
             GoesBefore(one, other), GoesBefore(other, third)
      PROVE  GoesBefore(one, third)
  <2>1. /\ Descending[one.record.stp] \in 1 .. 4 /\ one.record.id \in Int /\ one.stop \in Nat
        /\ Descending[other.record.stp] \in 1 .. 4 /\ other.record.id \in Int /\ other.stop \in Nat
        /\ Descending[third.record.stp] \in 1 .. 4 /\ third.record.id \in Int /\ third.stop \in Nat
    BY DescendingIsANumber DEF CanBeOrdered
  <2>2. /\ one.record.id = other.record.id =>
             Descending[one.record.stp] = Descending[other.record.stp]
        /\ other.record.id = third.record.id =>
             Descending[other.record.stp] = Descending[third.record.stp]
    BY DEF CanBeOrdered
  <2> QED BY <1>3, <2>1, <2>2 DEF GoesBefore
<1> QED BY <1>1, <1>2, <1>3

(***************************************************************************)
(* Each row has the place that as many rows go before, and each place is   *)
(* taken.                                                                  *)
(***************************************************************************)
GoBefore(result, row) == {before \in result : GoesBefore(before, row)}

LEMMA PlacesAreTaken ==
  ASSUME NEW result, CanBeOrdered(result)
  PROVE  /\ Cardinality(result) \in Nat
         /\ \A row \in result : Cardinality(GoBefore(result, row)) \in 0 .. Cardinality(result) - 1
         /\ \A one, other \in result :
              GoesBefore(one, other) =>
                Cardinality(GoBefore(result, one)) < Cardinality(GoBefore(result, other))
         /\ \A place \in 0 .. Cardinality(result) - 1 :
              \E row \in result : Cardinality(GoBefore(result, row)) = place
<1> DEFINE n == Cardinality(result)
           place == [row \in result |-> Cardinality(GoBefore(result, row))]
<1>1. IsFiniteSet(result) /\ n \in Nat
  BY FS_CardinalityType DEF CanBeOrdered
<1>2. ASSUME NEW row \in result
      PROVE  Cardinality(GoBefore(result, row)) \in 0 .. n - 1
  <2>1. GoBefore(result, row) \in SUBSET (result \ {row})
    BY RowsHaveAnOrder DEF GoBefore
  <2>2. IsFiniteSet(result \ {row}) /\ Cardinality(result \ {row}) = n - 1
    BY <1>1, FS_RemoveElement
  <2>3. /\ IsFiniteSet(GoBefore(result, row))
        /\ Cardinality(GoBefore(result, row)) <= n - 1
    BY <2>1, <2>2, FS_Subset
  <2>4. Cardinality(GoBefore(result, row)) \in Nat
    BY <2>3, FS_CardinalityType
  <2> QED BY <1>1, <2>3, <2>4
<1>3. ASSUME NEW one \in result, NEW other \in result, GoesBefore(one, other)
      PROVE  Cardinality(GoBefore(result, one)) < Cardinality(GoBefore(result, other))
  <2>1. /\ GoBefore(result, one) \in SUBSET GoBefore(result, other)
        /\ one \in GoBefore(result, other) /\ one \notin GoBefore(result, one)
    BY <1>3, RowsHaveAnOrder DEF GoBefore
  <2>2. GoBefore(result, other) \in SUBSET result
    BY DEF GoBefore
  <2>3. IsFiniteSet(GoBefore(result, other))
    BY <1>1, <2>2, FS_Subset
  <2>4. /\ Cardinality(GoBefore(result, one)) <= Cardinality(GoBefore(result, other))
        /\ Cardinality(GoBefore(result, other)) # Cardinality(GoBefore(result, one))
    BY <2>1, <2>3, FS_Subset
  <2>5. Cardinality(GoBefore(result, one)) \in 0 .. n - 1 /\ Cardinality(GoBefore(result, other)) \in 0 .. n - 1
    BY <1>2
  <2> QED BY <2>4, <2>5
<1>4. place \in Injection(result, 0 .. n - 1)
  <2>1. place \in [result -> 0 .. n - 1]
    BY <1>2
  <2>2. \A one, other \in result : one # other => place[one] # place[other]
    <3> SUFFICES ASSUME NEW one \in result, NEW other \in result, one # other
                 PROVE  place[one] # place[other]
      OBVIOUS
    <3>1. place[one] \in 0 .. n - 1 /\ place[other] \in 0 .. n - 1
      BY <2>1
    <3>2. place[one] < place[other] \/ place[other] < place[one]
      BY <1>3, RowsHaveAnOrder
    <3> HIDE DEF place
    <3> QED BY <1>1, <3>1, <3>2
  <2> QED BY <2>1, <2>2 DEF Injection, IsInjective
<1>5. IsFiniteSet(0 .. n - 1) /\ Cardinality(0 .. n - 1) = n
  BY <1>1, FS_Interval
<1>6. place \in Surjection(result, 0 .. n - 1)
  <2> HIDE DEF place
  <2> QED BY <1>4, <1>5, FS_Injection
<1>7. \A k \in 0 .. n - 1 : \E row \in result : place[row] = k
  BY <1>6 DEF Surjection
<1> QED BY <1>1, <1>2, <1>3, <1>7

LEMMA OrderedIs ==
  ASSUME NEW result, CanBeOrdered(result)
  PROVE  /\ Ordered(result) \in Seq(result)
         /\ Len(Ordered(result)) = Cardinality(result)
         /\ Cardinality(result) \in Nat
         /\ \A i \in 1 .. Cardinality(result) :
              /\ Ordered(result)[i] \in result
              /\ Cardinality(GoBefore(result, Ordered(result)[i])) = i - 1
         /\ \A i, j \in 1 .. Cardinality(result) :
              i < j => GoesBefore(Ordered(result)[i], Ordered(result)[j])
         /\ \A row \in result : \E i \in 1 .. Cardinality(result) : Ordered(result)[i] = row
<1> DEFINE n == Cardinality(result)
           s == Ordered(result)
           At0(row) == Cardinality(GoBefore(result, row))
<1>1. n \in Nat
  BY PlacesAreTaken
<1>2. ASSUME NEW i \in 1 .. n PROVE s[i] \in result /\ At0(s[i]) = i - 1
  <2>1. i - 1 \in 0 .. n - 1
    BY <1>1
  <2>2. \E row \in result : At0(row) = i - 1
    BY <2>1, PlacesAreTaken
  <2>3. s[i] = CHOOSE row \in result : At0(row) = i - 1
    BY DEF Ordered, GoBefore
  <2> QED BY <2>2, <2>3
<1>3. s \in Seq(result) /\ Len(s) = n
  <2>1. s = [i \in 1 .. n |-> s[i]]
    <3> DEFINE put(i) == CHOOSE row \in result :
                 Cardinality({before \in result : GoesBefore(before, row)}) = i - 1
    <3>1. s = [i \in 1 .. n |-> put(i)]
      BY DEF Ordered
    <3> HIDE DEF put, s
    <3> QED BY <3>1
  <2>2. s \in [1 .. n -> result]
    BY <1>2, <2>1
  <2> QED BY <1>1, <2>2
<1>4. ASSUME NEW one \in result, NEW other \in result
      PROVE  /\ At0(one) \in 0 .. n - 1 /\ At0(other) \in 0 .. n - 1
             /\ At0(one) < At0(other) => GoesBefore(one, other)
             /\ At0(one) = At0(other) => one = other
  <2>1. At0(one) \in 0 .. n - 1 /\ At0(other) \in 0 .. n - 1
    BY PlacesAreTaken
  <2>2. one = other \/ GoesBefore(one, other) \/ GoesBefore(other, one)
    BY RowsHaveAnOrder
  <2>3. /\ GoesBefore(one, other) => At0(one) < At0(other)
        /\ GoesBefore(other, one) => At0(other) < At0(one)
    BY PlacesAreTaken
  <2> HIDE DEF At0
  <2> QED BY <1>1, <2>1, <2>2, <2>3
<1>5. ASSUME NEW i \in 1 .. n, NEW j \in 1 .. n, i < j
      PROVE  GoesBefore(s[i], s[j])
  <2>1. i - 1 < j - 1
    BY <1>1, <1>5
  <2> HIDE DEF At0, s
  <2> QED BY <1>2, <1>4, <2>1
<1>6. ASSUME NEW row \in result PROVE \E i \in 1 .. n : s[i] = row
  <2> DEFINE i == At0(row) + 1
  <2>1. At0(row) \in 0 .. n - 1
    BY <1>4
  <2>2. i \in 1 .. n /\ i - 1 = At0(row)
    <3> HIDE DEF At0
    <3> QED BY <1>1, <2>1
  <2> HIDE DEF i, At0, s
  <2>3. s[i] \in result /\ At0(s[i]) = i - 1
    BY <1>2, <2>2 DEF At0
  <2>4. s[i] = row
    BY <1>4, <2>2, <2>3
  <2> QED BY <2>2, <2>4
<1> QED BY <1>1, <1>2, <1>3, <1>5, <1>6 DEF s

(* A function of a finite set has finitely many values, and no more. *)
LEMMA ImagesAreFinite ==
  ASSUME NEW f, IsFiniteSet(DOMAIN f)
  PROVE  /\ IsFiniteSet({f[x] : x \in DOMAIN f})
         /\ Cardinality({f[x] : x \in DOMAIN f}) <= Cardinality(DOMAIN f)
<1> DEFINE g == [x \in DOMAIN f |-> f[x]]
<1>1. g \in Surjection(DOMAIN f, {f[x] : x \in DOMAIN f})
  BY DEF Surjection
<1> HIDE DEF g
<1> QED BY <1>1, FS_Surjection

(* A set of naturals has a least. *)
LEMMA LeastExists ==
  ASSUME NEW S \in SUBSET Nat, S # {}
  PROVE  \E x \in S : \A y \in S : x <= y
<1>1. PICK x \in S : \A y \in S : ~(<<y, x>> \in OpToRel(<, Nat))
  BY NatLessThanWellFounded, WFMin
<1>2. \A y \in S : ~(y < x)
  BY <1>1 DEF OpToRel
<1> QED BY <1>2

(* The greatest is the one that the fewest are above. *)
LEMMA MaxIsGreatest ==
  ASSUME NEW S \in SUBSET Int, S # {}, IsFiniteSet(S)
  PROVE  Max(S) \in S /\ \A y \in S : y <= Max(S)
<1> DEFINE above(x) == {y \in S : x < y}
           counts == {Cardinality(above(x)) : x \in S}
<1>1. ASSUME NEW x \in S PROVE IsFiniteSet(above(x)) /\ Cardinality(above(x)) \in Nat
  <2>1. above(x) \in SUBSET S
    OBVIOUS
  <2> HIDE DEF above
  <2>2. IsFiniteSet(above(x))
    BY <2>1, FS_Subset
  <2> QED BY <2>2, FS_CardinalityType
<1>2. counts \in SUBSET Nat /\ counts # {}
  <2> HIDE DEF above
  <2> QED BY <1>1
<1>3. PICK least \in counts : \A c \in counts : least <= c
  BY <1>2, LeastExists
<1>4. PICK x \in S : least = Cardinality(above(x))
  <2> HIDE DEF above
  <2> QED BY <1>3
<1>5. ASSUME NEW y \in S PROVE x >= y
  <2> SUFFICES ASSUME x < y PROVE FALSE
    OBVIOUS
  <2>1. x \in Int /\ y \in Int /\ \A z \in S : z \in Int
    OBVIOUS
  <2>2. ~(y < y) /\ \A z \in S : y < z => x < z
    BY <2>1
  <2>3. above(y) \in SUBSET above(x) /\ y \in above(x) /\ y \notin above(y)
    BY <2>2
  <2>4. Cardinality(above(x)) <= Cardinality(above(y))
    BY <1>3, <1>4
  <2> HIDE DEF above
  <2>5. Cardinality(above(y)) <= Cardinality(above(x)) /\ Cardinality(above(y)) # Cardinality(above(x))
    BY <1>1, <2>3, FS_Subset
  <2> QED BY <1>1, <2>4, <2>5
<1>6. \E z \in S : \A y \in S : z >= y
  BY <1>5
<1>7. Max(S) \in S /\ \A y \in S : Max(S) >= y
  BY <1>6 DEF Max
<1> QED BY <1>7

(***************************************************************************)
(* What the queries read, in each state of the run: tables with records in *)
(* them, those of the z-trains under ids of their own.                     *)
(***************************************************************************)
Given == tables \in Timetables /\ tables["schedule"] # {}

(* What is assumed of the tables, of those at hand. *)
LEMMA TablesAre ==
  ASSUME Given
  PROVE  /\ \A stream \in Streams : IsATable(tables[stream])
         /\ IsOfZTrains(tables["z_schedule"], tables["schedule"])
         /\ Cardinality(tables["schedule"]) + Cardinality(tables["z_schedule"]) <= MaxSchedules
BY TimetablesAssumption DEF Given

(* No schedule is above the last. *)
LEMMA LastScheduleIs ==
  ASSUME Given
  PROVE  LastSchedule \in Nat /\ \A record \in tables["schedule"] : record.id <= LastSchedule
<1> DEFINE idOf == [record \in tables["schedule"] |-> record.id]
           ids == {record.id : record \in tables["schedule"]}
<1>1. IsFiniteSet(tables["schedule"]) /\ tables["schedule"] \subseteq Record
  BY TablesAre DEF IsATable, Streams
<1>2. IsFiniteSet(ids)
  <2>1. DOMAIN idOf = tables["schedule"] /\ {idOf[x] : x \in DOMAIN idOf} = ids
    OBVIOUS
  <2> HIDE DEF idOf
  <2> QED BY <1>1, <2>1, ImagesAreFinite
<1>3. ids \subseteq Nat /\ ids # {}
  BY <1>1 DEF Record, Given
<1>4. Max(ids) \in ids /\ \A y \in ids : y <= Max(ids)
  <2> HIDE DEF ids
  <2>1. ids \in SUBSET Int
    BY <1>3
  <2> QED BY <1>2, <1>3, <2>1, MaxIsGreatest
<1>5. LastSchedule = Max(ids)
  BY DEF LastSchedule
<1> HIDE DEF ids
<1>6. \A record \in tables["schedule"] : record.id \in ids
  BY DEF ids
<1> QED BY <1>3, <1>4, <1>5, <1>6

(* A z-train under the id it goes by is still the record it was. *)
LEMMA ZTrainIs ==
  ASSUME Given, NEW record \in Record
  PROVE  /\ ZTrain(record) \in Record
         /\ ZTrain(record).id = record.id + LastSchedule
         /\ ZTrain(record).tuid = record.tuid
         /\ ZTrain(record).stp = record.stp
         /\ ZTrain(record).calendar = record.calendar
         /\ ZTrain(record).locations = record.locations
<1>1. LastSchedule \in Nat
  BY LastScheduleIs
<1>2. record.id \in Nat \ {0} /\ record.id + LastSchedule \in Nat \ {0}
  BY <1>1 DEF Record
<1> QED BY <1>2 DEF ZTrain, Record

(* Nor do the records of the two queries share an id, or a train. *)
LEMMA RecordsAre ==
  ASSUME Given
  PROVE  /\ \A stream \in Streams : IsATable(RecordsOf(stream))
         /\ IsOfZTrains(RecordsOf("z_schedule"), RecordsOf("schedule"))
         /\ \A one \in RecordsOf("schedule"), other \in RecordsOf("z_schedule") : one.id # other.id
         /\ Cardinality(RecordsOf("schedule")) + Cardinality(RecordsOf("z_schedule")) <= MaxSchedules
<1> DEFINE zs == {r \in tables["z_schedule"] : r.locations # <<>>}
           moved == [r \in zs |-> ZTrain(r)]
<1>1. /\ IsATable(tables["schedule"]) /\ IsATable(tables["z_schedule"])
      /\ IsOfZTrains(tables["z_schedule"], tables["schedule"])
      /\ Cardinality(tables["schedule"]) + Cardinality(tables["z_schedule"]) <= MaxSchedules
  BY TablesAre DEF Streams
<1>2. RecordsOf("schedule") = tables["schedule"] /\ RecordsOf("z_schedule") = {moved[r] : r \in DOMAIN moved}
  BY DEF RecordsOf
<1>3. /\ IsFiniteSet(zs) /\ Cardinality(zs) <= Cardinality(tables["z_schedule"])
      /\ zs \subseteq tables["z_schedule"]
  <2>1. zs \in SUBSET tables["z_schedule"]
    OBVIOUS
  <2> HIDE DEF zs
  <2> QED BY <1>1, <2>1, FS_Subset DEF IsATable
<1>4. /\ IsFiniteSet({moved[r] : r \in DOMAIN moved})
      /\ Cardinality({moved[r] : r \in DOMAIN moved}) <= Cardinality(zs)
  <2>1. DOMAIN moved = zs
    OBVIOUS
  <2> HIDE DEF zs, moved
  <2> QED BY <1>3, <2>1, ImagesAreFinite
<1>5. ASSUME NEW z \in RecordsOf("z_schedule")
      PROVE  \E r \in tables["z_schedule"] :
               /\ r \in Record /\ z \in Record /\ z = ZTrain(r)
               /\ z.id = r.id + LastSchedule
               /\ z.tuid = r.tuid /\ z.stp = r.stp /\ z.calendar = r.calendar
  <2>1. PICK r \in zs : z = ZTrain(r)
    BY <1>2
  <2>2. r \in Record /\ r \in tables["z_schedule"]
    BY <1>1 DEF IsATable
  <2> QED BY <2>1, <2>2, ZTrainIs
<1> HIDE DEF zs, moved
<1>6. IsATable(RecordsOf("z_schedule"))
  <2>1. RecordsOf("z_schedule") \subseteq Record
    BY <1>5
  <2>2. ASSUME NEW one \in RecordsOf("z_schedule"), NEW other \in RecordsOf("z_schedule"),
               \/ one.id = other.id
               \/ one.tuid = other.tuid /\ one.stp = other.stp /\ one.calendar.from = other.calendar.from
        PROVE  one = other
    <3>1. PICK r \in tables["z_schedule"] :
            /\ r \in Record /\ one = ZTrain(r) /\ one.id = r.id + LastSchedule
            /\ one.tuid = r.tuid /\ one.stp = r.stp /\ one.calendar = r.calendar
      BY <1>5
    <3>2. PICK q \in tables["z_schedule"] :
            /\ q \in Record /\ other = ZTrain(q) /\ other.id = q.id + LastSchedule
            /\ other.tuid = q.tuid /\ other.stp = q.stp /\ other.calendar = q.calendar
      BY <1>5
    <3>3. r.id \in Nat /\ q.id \in Nat /\ LastSchedule \in Nat
      BY <3>1, <3>2, LastScheduleIs DEF Record
    <3>4. one.id = other.id => r.id = q.id
      BY <3>1, <3>2, <3>3
    <3>5. r = q
      BY <1>1, <2>2, <3>1, <3>2, <3>4 DEF IsATable
    <3> QED BY <3>1, <3>2, <3>5
  <2> QED BY <1>2, <1>4, <2>1, <2>2 DEF IsATable
<1>7. IsOfZTrains(RecordsOf("z_schedule"), RecordsOf("schedule"))
  BY <1>1, <1>2, <1>5 DEF IsOfZTrains
<1>8. ASSUME NEW one \in RecordsOf("schedule"), NEW other \in RecordsOf("z_schedule")
      PROVE  one.id # other.id
  <2>1. one.id <= LastSchedule /\ LastSchedule \in Nat /\ one.id \in Nat
    BY <1>1, <1>2, LastScheduleIs DEF IsATable, Record
  <2>2. PICK r \in Record : other.id = r.id + LastSchedule
    BY <1>5
  <2>3. r.id \in Nat \ {0}
    BY DEF Record
  <2> QED BY <2>1, <2>2, <2>3
<1>9. Cardinality(RecordsOf("schedule")) + Cardinality(RecordsOf("z_schedule")) <= MaxSchedules
  <2>1. /\ Cardinality(tables["schedule"]) \in Nat /\ Cardinality(tables["z_schedule"]) \in Nat
        /\ Cardinality(zs) \in Nat /\ Cardinality(RecordsOf("z_schedule")) \in Nat
    BY <1>1, <1>2, <1>3, <1>4, FS_CardinalityType DEF IsATable
  <2> QED BY <1>1, <1>2, <1>3, <1>4, <2>1, MaxSchedulesAssumption
<1>10. \A stream \in Streams : IsATable(RecordsOf(stream))
  BY <1>1, <1>2, <1>6 DEF Streams
<1> QED BY <1>7, <1>8, <1>9, <1>10

(***************************************************************************)
(* The rows of a table, and those of one record among them.                *)
(***************************************************************************)
LEMMA RowIs ==
  ASSUME NEW record \in Record, NEW row \in RowsOf(record)
  PROVE  /\ row.record = Identity(record)
         /\ row.record.id = record.id /\ row.record.tuid = record.tuid
         /\ row.record.stp = record.stp /\ row.record.calendar = record.calendar
         /\ row.stop \in Nat
         /\ \/ row = [record |-> Identity(record), stop |-> 0, location |-> <<>>]
               /\ record.locations = <<>>
            \/ /\ row.stop \in DOMAIN record.locations
               /\ record.locations[row.stop].crs # NoStation
               /\ row = [record |-> Identity(record), stop |-> row.stop,
                         location |-> <<record.locations[row.stop]>>]
<1>1. record.locations \in Seq(Location)
  BY DEF Record
<1>2. CASE record.locations = <<>>
  <2>1. row = [record |-> Identity(record), stop |-> 0, location |-> <<>>]
    BY <1>2 DEF RowsOf
  <2> QED BY <1>2, <2>1 DEF Identity
<1>3. CASE record.locations # <<>>
  <2>1. PICK i \in DOMAIN record.locations :
          /\ record.locations[i].crs # NoStation
          /\ row = [record |-> Identity(record), stop |-> i, location |-> <<record.locations[i]>>]
    BY <1>3 DEF RowsOf
  <2>2. row.stop = i /\ row.record = Identity(record)
    BY <2>1
  <2>3. i \in Nat
    BY <1>1, <2>1
  <2> QED BY <2>1, <2>2, <2>3 DEF Identity
<1> QED BY <1>2, <1>3

(* A record has finitely many rows, *)
LEMMA RowsAreFinite ==
  ASSUME NEW record \in Record
  PROVE  IsFiniteSet(RowsOf(record))
<1> DEFINE here == {j \in DOMAIN record.locations : record.locations[j].crs # NoStation}
           rowAt == [i \in here |-> [record |-> Identity(record), stop |-> i,
                                     location |-> <<record.locations[i]>>]]
<1>1. CASE record.locations = <<>>
  <2>1. RowsOf(record) = {[record |-> Identity(record), stop |-> 0, location |-> <<>>]}
    BY <1>1 DEF RowsOf
  <2> QED BY <2>1, FS_Singleton
<1>2. CASE record.locations # <<>>
  <2>1. RowsOf(record) = {rowAt[i] : i \in DOMAIN rowAt} /\ DOMAIN rowAt = here
    BY <1>2 DEF RowsOf
  <2>2. Len(record.locations) \in Nat /\ here \in SUBSET (1 .. Len(record.locations))
    <3>1. record.locations \in Seq(Location)
      BY DEF Record
    <3> QED BY <3>1
  <2> HIDE DEF here, rowAt
  <2>3. IsFiniteSet(here)
    <3>1. IsFiniteSet(1 .. Len(record.locations))
      BY <2>2, FS_Interval
    <3> QED BY <2>2, <3>1, FS_Subset
  <2> QED BY <2>1, <2>3, ImagesAreFinite
<1> QED BY <1>1, <1>2

AllRows(records) == UNION {RowsOf(record) : record \in records}

(* and a row of the table is some record's. *)
LEMMA RowOfARecord ==
  ASSUME NEW records, IsATable(records), NEW row \in AllRows(records)
  PROVE  \E record \in records : record \in Record /\ row \in RowsOf(record)
BY DEF AllRows, IsATable

(* So the rows of a table can be put in order, as can those of a record. *)
LEMMA TheirRows ==
  ASSUME NEW records, IsATable(records)
  PROVE  /\ CanBeOrdered(AllRows(records))
         /\ \A record \in records :
              /\ record \in Record
              /\ RowsOf(record) \subseteq AllRows(records)
              /\ CanBeOrdered(RowsOf(record))
<1>1. IsFiniteSet(AllRows(records))
  <2> DEFINE rowsOf == [record \in records |-> RowsOf(record)]
  <2>1. {RowsOf(record) : record \in records} = {rowsOf[record] : record \in DOMAIN rowsOf}
    OBVIOUS
  <2>2. IsFiniteSet({rowsOf[record] : record \in DOMAIN rowsOf})
    <3>1. IsFiniteSet(DOMAIN rowsOf)
      BY DEF IsATable
    <3> HIDE DEF rowsOf
    <3> QED BY <3>1, ImagesAreFinite
  <2>3. \A T \in {RowsOf(record) : record \in records} : IsFiniteSet(T)
    BY RowsAreFinite DEF IsATable
  <2> QED BY <2>1, <2>2, <2>3, FS_UNION DEF AllRows
<1>2. ASSUME NEW row \in AllRows(records)
      PROVE  row.record.stp \in STP /\ row.record.id \in Int /\ row.stop \in Nat
  <2>1. PICK record \in records : record \in Record /\ row \in RowsOf(record)
    BY RowOfARecord
  <2>2. row.record.id = record.id /\ row.record.stp = record.stp /\ row.stop \in Nat
    BY <2>1, RowIs
  <2> QED BY <2>1, <2>2 DEF Record
<1>3. ASSUME NEW one \in AllRows(records), NEW other \in AllRows(records),
             one.record.id = other.record.id
      PROVE  one.record = other.record /\ (one.stop = other.stop => one = other)
  <2>1. PICK a \in records : a \in Record /\ one \in RowsOf(a)
    BY RowOfARecord
  <2>2. PICK b \in records : b \in Record /\ other \in RowsOf(b)
    BY RowOfARecord
  <2>3. one.record.id = a.id /\ other.record.id = b.id /\ one.record = Identity(a) /\ other.record = Identity(b)
    BY <2>1, <2>2, RowIs
  <2>4. a = b
    BY <1>3, <2>1, <2>2, <2>3 DEF IsATable
  <2>5. ASSUME one.stop = other.stop PROVE one = other
    <3>1. \/ one = [record |-> Identity(a), stop |-> 0, location |-> <<>>]
               /\ a.locations = <<>>
          \/ /\ one.stop \in DOMAIN a.locations
             /\ one = [record |-> Identity(a), stop |-> one.stop,
                       location |-> <<a.locations[one.stop]>>]
      BY <2>1, RowIs
    <3>2. \/ other = [record |-> Identity(a), stop |-> 0, location |-> <<>>]
               /\ a.locations = <<>>
          \/ /\ other.stop \in DOMAIN a.locations
             /\ other = [record |-> Identity(a), stop |-> other.stop,
                         location |-> <<a.locations[other.stop]>>]
      BY <2>2, <2>4, RowIs
    <3>3. a.locations = <<>> => \A i : i \notin DOMAIN a.locations
      OBVIOUS
    <3> QED BY <2>5, <3>1, <3>2, <3>3
  <2> QED BY <2>3, <2>4, <2>5
<1>4. CanBeOrdered(AllRows(records))
  BY <1>1, <1>2, <1>3 DEF CanBeOrdered
<1>5. ASSUME NEW record \in records
      PROVE  record \in Record /\ RowsOf(record) \subseteq AllRows(records) /\ CanBeOrdered(RowsOf(record))
  <2>1. record \in Record /\ RowsOf(record) \subseteq AllRows(records)
    BY DEF AllRows, IsATable
  <2>2. IsFiniteSet(RowsOf(record))
    BY <2>1, RowsAreFinite
  <2> QED BY <1>4, <2>1, <2>2 DEF CanBeOrdered
<1> QED BY <1>4, <1>5

(***************************************************************************)
(* A query is its records, one after the other, each with its own rows in  *)
(* its own order.                                                          *)
(***************************************************************************)
GoesFirst(one, other) ==
  \/ Descending[one.stp] < Descending[other.stp]
  \/ Descending[one.stp] = Descending[other.stp] /\ one.id < other.id

(* All rows of a record are before all rows of another, or after them. *)
LEMMA RecordsHaveAnOrder ==
  ASSUME NEW records, IsATable(records), NEW one \in records, NEW other \in records
  PROVE  /\ one # other => GoesFirst(one, other) \/ GoesFirst(other, one)
         /\ ~(GoesFirst(one, other) /\ GoesFirst(other, one))
         /\ \A x \in RowsOf(one), y \in RowsOf(other) :
              GoesFirst(one, other) => GoesBefore(x, y) /\ ~GoesBefore(y, x)
<1>1. /\ Descending[one.stp] \in 1 .. 4 /\ Descending[other.stp] \in 1 .. 4
      /\ one.id \in Int /\ other.id \in Int /\ one \in Record /\ other \in Record
      /\ one.id = other.id => one = other
  BY DescendingIsANumber DEF IsATable, Record
<1>2. ASSUME NEW x \in RowsOf(one), NEW y \in RowsOf(other), GoesFirst(one, other)
      PROVE  GoesBefore(x, y) /\ ~GoesBefore(y, x)
  <2>1. x.record.id = one.id /\ x.record.stp = one.stp /\ y.record.id = other.id /\ y.record.stp = other.stp
    BY <1>1, RowIs
  <2>2. one.id # other.id
    BY <1>1, <1>2 DEF GoesFirst
  <2> QED BY <1>1, <1>2, <2>1, <2>2 DEF GoesBefore, GoesFirst
<1> QED BY <1>1, <1>2 DEF GoesFirst

Offset(records, record) ==
  Cardinality({row \in AllRows(records) : GoesFirst(row.record, record)})

Length(record) == Cardinality(RowsOf(record))

(* The place of a row: its own among those of its record, past all of the records before. *)
LEMMA PlaceInTheQuery ==
  ASSUME NEW records, IsATable(records), NEW record \in records, NEW row \in RowsOf(record)
  PROVE  /\ Offset(records, record) \in Nat
         /\ Cardinality(GoBefore(AllRows(records), row))
              = Offset(records, record) + Cardinality(GoBefore(RowsOf(record), row))
<1> DEFINE all == AllRows(records)
           earlier == {x \in all : GoesFirst(x.record, record)}
           own == GoBefore(RowsOf(record), row)
<1>1. IsFiniteSet(all) /\ record \in Record /\ RowsOf(record) \subseteq all
  BY TheirRows DEF CanBeOrdered
<1>2. earlier \in SUBSET all /\ own \in SUBSET all
  BY <1>1 DEF GoBefore
<1>3. IsFiniteSet(earlier) /\ IsFiniteSet(own)
  <2> HIDE DEF earlier, own, all
  <2> QED BY <1>1, <1>2, FS_Subset
<1>4. ASSUME NEW x \in all
      PROVE  /\ GoesBefore(x, row) <=> x \in earlier \/ x \in own
             /\ ~(x \in earlier /\ x \in own)
  <2>1. PICK of \in records : of \in Record /\ x \in RowsOf(of)
    BY RowOfARecord
  <2>2. x.record.id = of.id /\ x.record.stp = of.stp
    BY <2>1, RowIs
  <2>3. GoesFirst(x.record, record) <=> GoesFirst(of, record)
    BY <2>2 DEF GoesFirst
  <2>4. CASE of = record
    <3>1. ~GoesFirst(of, record)
      BY <2>4, RecordsHaveAnOrder
    <3> QED BY <2>1, <2>3, <2>4, <3>1 DEF GoBefore
  <2>5. CASE of # record
    <3>1. x \notin RowsOf(record)
      <4>1. of.id # record.id
        BY <2>5 DEF IsATable
      <4> QED BY <1>1, <2>2, <4>1, RowIs
    <3>2. CASE GoesFirst(of, record)
      <4>1. GoesBefore(x, row)
        BY <2>1, <3>2, RecordsHaveAnOrder
      <4> QED BY <2>3, <3>1, <3>2, <4>1 DEF GoBefore
    <3>3. CASE GoesFirst(record, of)
      <4>1. ~GoesBefore(x, row) /\ ~GoesFirst(of, record)
        BY <2>1, <3>3, RecordsHaveAnOrder
      <4> QED BY <2>3, <3>1, <4>1 DEF GoBefore
    <3> QED BY <2>5, <3>2, <3>3, RecordsHaveAnOrder
  <2> QED BY <2>4, <2>5
<1> HIDE DEF earlier, own
<1>5. GoBefore(all, row) = earlier \cup own /\ earlier \cap own = {}
  BY <1>2, <1>4 DEF GoBefore
<1>6. Cardinality(GoBefore(all, row)) = Cardinality(earlier) + Cardinality(own)
  <2>1. Cardinality(earlier) \in Nat /\ Cardinality(own) \in Nat
    BY <1>3, FS_CardinalityType
  <2>2. Cardinality(earlier \cup own)
          = Cardinality(earlier) + Cardinality(own) - Cardinality(earlier \cap own)
    BY <1>3, FS_Union
  <2>3. Cardinality(earlier \cap own) = 0
    BY <1>5, FS_EmptySet
  <2> QED BY <1>5, <2>1, <2>2, <2>3
<1> QED BY <1>3, <1>6, FS_CardinalityType DEF Offset, earlier, own

Query(records) == Ordered(AllRows(records))

(* Every row of the query is within some record's. *)
LEMMA QueryIs ==
  ASSUME NEW records, IsATable(records)
  PROVE  /\ Query(records) \in Seq(AllRows(records)) /\ Len(Query(records)) \in Nat
         /\ \A n \in 1 .. Len(Query(records)) : \E record \in records :
              Offset(records, record) < n /\ n <= Offset(records, record) + Length(record)
<1> DEFINE all == AllRows(records)
           q == Query(records)
<1>1. CanBeOrdered(all)
  BY TheirRows
<1>2. /\ q \in Seq(all) /\ Len(q) = Cardinality(all) /\ Len(q) \in Nat
      /\ \A i \in 1 .. Len(q) : q[i] \in all /\ Cardinality(GoBefore(all, q[i])) = i - 1
  <2> HIDE DEF all
  <2> QED BY <1>1, OrderedIs DEF Query, all
<1>3. ASSUME NEW n \in 1 .. Len(q)
      PROVE  \E record \in records :
               Offset(records, record) < n /\ n <= Offset(records, record) + Length(record)
  <2>1. PICK record \in records : record \in Record /\ q[n] \in RowsOf(record)
    BY <1>2, RowOfARecord
  <2>2. /\ Offset(records, record) \in Nat
        /\ n - 1 = Offset(records, record) + Cardinality(GoBefore(RowsOf(record), q[n]))
    BY <1>2, <2>1, PlaceInTheQuery
  <2>3. /\ Length(record) \in Nat
        /\ Cardinality(GoBefore(RowsOf(record), q[n])) \in 0 .. Length(record) - 1
    BY <2>1, TheirRows, PlacesAreTaken DEF Length
  <2> HIDE DEF q
  <2>4. n \in Nat
    BY <1>2
  <2> QED BY <2>2, <2>3, <2>4
<1> QED BY <1>2, <1>3

(* The rows of a record are those its own query would give. *)
LEMMA RowsOfOneRecord ==
  ASSUME NEW records, IsATable(records), NEW record \in records
  PROVE  /\ Offset(records, record) \in Nat \/ RowsOf(record) = {}
         /\ Length(record) \in Nat /\ (Length(record) = 0 <=> RowsOf(record) = {})
         /\ Ordered(RowsOf(record)) \in Seq(RowsOf(record))
         /\ Len(Ordered(RowsOf(record))) = Length(record)
         /\ \A j \in 1 .. Length(record) :
              /\ Ordered(RowsOf(record))[j] \in RowsOf(record)
              /\ Offset(records, record) + j \in 1 .. Len(Query(records))
              /\ Query(records)[Offset(records, record) + j] = Ordered(RowsOf(record))[j]
<1> DEFINE all == AllRows(records)
           q == Query(records)
           own == Ordered(RowsOf(record))
           o == Offset(records, record)
<1>1. CanBeOrdered(all) /\ CanBeOrdered(RowsOf(record)) /\ RowsOf(record) \subseteq all
  BY TheirRows
<1>2. /\ own \in Seq(RowsOf(record)) /\ Len(own) = Length(record) /\ Length(record) \in Nat
      /\ \A j \in 1 .. Length(record) :
           own[j] \in RowsOf(record) /\ Cardinality(GoBefore(RowsOf(record), own[j])) = j - 1
  BY <1>1, OrderedIs DEF Length
<1>3. /\ Len(q) = Cardinality(all) /\ Len(q) \in Nat
      /\ \A i \in 1 .. Len(q) : q[i] \in all /\ Cardinality(GoBefore(all, q[i])) = i - 1
      /\ \A row \in all : \E i \in 1 .. Len(q) : q[i] = row
  BY <1>1, OrderedIs DEF Query
<1>4. \A row \in RowsOf(record) : o \in Nat
  BY PlaceInTheQuery
<1>5. ASSUME NEW j \in 1 .. Length(record)
      PROVE  own[j] \in RowsOf(record) /\ o + j \in 1 .. Len(q) /\ q[o + j] = own[j]
  <2>1. own[j] \in RowsOf(record) /\ own[j] \in all /\ o \in Nat
    BY <1>1, <1>2, <1>4
  <2>2. Cardinality(GoBefore(all, own[j])) = o + Cardinality(GoBefore(RowsOf(record), own[j]))
    BY <2>1, PlaceInTheQuery
  <2>3. Cardinality(GoBefore(RowsOf(record), own[j])) = j - 1
    BY <1>2
  <2>4. PICK i \in 1 .. Len(q) : q[i] = own[j]
    BY <1>3, <2>1
  <2>5. Cardinality(GoBefore(all, own[j])) = i - 1
    BY <1>3, <2>4
  <2> HIDE DEF all, q, own, o
  <2>6. i = o + j
    <3>1. i - 1 = o + (j - 1)
      BY <2>2, <2>3, <2>5
    <3>2. i \in Int /\ j \in Int
      BY <1>2, <1>3
    <3> QED BY <2>1, <3>1, <3>2
  <2> QED BY <2>1, <2>4, <2>6
<1>6. Length(record) = 0 <=> RowsOf(record) = {}
  BY <1>1, FS_EmptySet DEF Length, CanBeOrdered
<1> QED BY <1>2, <1>4, <1>5, <1>6

(* No row of one record is among those of another. *)
LEMMA OneAfterTheOther ==
  ASSUME NEW records, IsATable(records), NEW one \in records, NEW other \in records,
         Length(one) # 0, Length(other) # 0
  PROVE  /\ Offset(records, one) \in Nat /\ Offset(records, other) \in Nat
         /\ Length(one) \in Nat /\ Length(other) \in Nat
         /\ GoesFirst(one, other) => Offset(records, one) + Length(one) <= Offset(records, other)
<1> DEFINE q == Query(records)
           o == Offset(records, one)
           p == Offset(records, other)
           last == o + Length(one)
<1>1. o \in Nat /\ p \in Nat /\ Length(one) \in Nat /\ Length(other) \in Nat
  BY RowsOfOneRecord
<1>2. ASSUME GoesFirst(one, other) PROVE last <= p
  <2>1. Length(one) \in 1 .. Length(one) /\ 1 \in 1 .. Length(other)
    BY <1>1
  <2>2. /\ last \in 1 .. Len(q) /\ p + 1 \in 1 .. Len(q)
        /\ q[last] \in RowsOf(one) /\ q[p + 1] \in RowsOf(other)
    BY <2>1, RowsOfOneRecord
  <2>3. GoesBefore(q[last], q[p + 1]) /\ ~GoesBefore(q[p + 1], q[last])
    BY <1>2, <2>2, RecordsHaveAnOrder
  <2>4. \A i, j \in 1 .. Len(q) : i < j => GoesBefore(q[i], q[j])
    <3>1. CanBeOrdered(AllRows(records))
      BY TheirRows
    <3> QED BY <3>1, OrderedIs DEF Query
  <2>5. ~(p + 1 < last)
    BY <2>2, <2>3, <2>4
  <2>6. p + 1 # last
    BY <2>3
  <2> HIDE DEF q, o, p
  <2> QED BY <1>1, <2>5, <2>6
<1> QED BY <1>1, <1>2

-----------------------------------------------------------------------------
(***************************************************************************)
(* 3. The cursor of a stream.                                              *)
(***************************************************************************)

(***************************************************************************)
(* The cursor after some rows, by induction over sets of numbers.          *)
(***************************************************************************)
LEMMA SetInduction ==
  ASSUME NEW S \in SUBSET Nat, 0 \in S, \A n \in S : n + 1 \in S
  PROVE  \A n \in Nat : n \in S
<1> SUFFICES ASSUME Nat \ S # {} PROVE FALSE
  OBVIOUS
<1>1. PICK n \in Nat \ S : \A y \in Nat \ S : n <= y
  <2>1. Nat \ S \in SUBSET Nat
    OBVIOUS
  <2> QED BY <2>1, LeastExists
<1>2. n # 0 /\ n - 1 \in Nat /\ ~(n <= n - 1) /\ (n - 1) + 1 = n
  BY <1>1
<1>3. n - 1 \in S
  BY <1>1, <1>2
<1> QED BY <1>1, <1>2, <1>3

RowByRow(after, result, removes, m) ==
  after = [n \in 0 .. m |->
             IF n = 0 THEN NewCursor ELSE Processed(after[n - 1], result[n], removes)]

(* There is a cursor after each of the rows, *)
LEMMA RowByRowExists ==
  ASSUME NEW result, NEW removes, NEW m \in Nat
  PROVE  \E after : RowByRow(after, result, removes, m)
<1> DEFINE S == {k \in Nat : \E after : RowByRow(after, result, removes, k)}
<1>1. 0 \in S
  <2> DEFINE f == [n \in 0 .. 0 |-> NewCursor]
  <2>1. \A n \in 0 .. 0 : n = 0
    OBVIOUS
  <2>2. f = [n \in 0 .. 0 |->
               IF n = 0 THEN NewCursor ELSE Processed(f[n - 1], result[n], removes)]
    BY <2>1
  <2> QED BY <2>2 DEF RowByRow
<1>2. ASSUME NEW k \in S PROVE k + 1 \in S
  <2>1. PICK f : RowByRow(f, result, removes, k)
    OBVIOUS
  <2> DEFINE last == Processed(f[k], result[k + 1], removes)
             g == [n \in 0 .. k + 1 |-> IF n = k + 1 THEN last ELSE f[n]]
  <2>2. k \in Nat /\ DOMAIN g = 0 .. k + 1 /\ g = [n \in 0 .. k + 1 |-> g[n]]
    OBVIOUS
  <2>3. ASSUME NEW n \in 0 .. k + 1
        PROVE  g[n] = IF n = 0 THEN NewCursor ELSE Processed(g[n - 1], result[n], removes)
    <3>1. CASE n = k + 1
      <4>1. g[n] = last /\ n # 0 /\ n - 1 = k /\ g[k] = f[k]
        BY <2>2, <3>1
      <4> HIDE DEF g
      <4> QED BY <3>1, <4>1
    <3>2. CASE n # k + 1
      <4>1. g[n] = f[n] /\ n \in 0 .. k /\ (n # 0 => g[n - 1] = f[n - 1])
        BY <2>2, <3>2
      <4>2. f[n] = IF n = 0 THEN NewCursor ELSE Processed(f[n - 1], result[n], removes)
        BY <2>1, <4>1 DEF RowByRow
      <4> HIDE DEF g
      <4> QED BY <4>1, <4>2
    <3> QED BY <3>1, <3>2
  <2> HIDE DEF g
  <2>4. RowByRow(g, result, removes, k + 1)
    BY <2>2, <2>3 DEF RowByRow
  <2> QED BY <2>2, <2>4
<1>3. S \in SUBSET Nat
  OBVIOUS
<1>4. m \in S
  <2> HIDE DEF S
  <2> QED BY <1>1, <1>2, <1>3, SetInduction
<1> QED BY <1>4

(* which is what the definition says: the recursion is well founded. *)
LEMMA CursorAfterIs ==
  ASSUME NEW result, NEW removes, Len(result) \in Nat
  PROVE  /\ CursorAfter(result, removes)[0] = NewCursor
         /\ \A n \in 1 .. Len(result) :
              CursorAfter(result, removes)[n]
                = Processed(CursorAfter(result, removes)[n - 1], result[n], removes)
<1> DEFINE m == Len(result)
           f == CHOOSE g : g = [n \in 0 .. m |->
                  IF n = 0 THEN NewCursor ELSE Processed(g[n - 1], result[n], removes)]
<1>1. CursorAfter(result, removes) = f
  BY Zenon DEF CursorAfter
<1>2. \E g : g = [n \in 0 .. m |->
                IF n = 0 THEN NewCursor ELSE Processed(g[n - 1], result[n], removes)]
  <2>1. \E g : RowByRow(g, result, removes, m)
    BY RowByRowExists
  <2> QED BY <2>1 DEF RowByRow
<1>3. RowByRow(f, result, removes, m)
  BY <1>2 DEF RowByRow
<1> HIDE DEF f
<1>4. \A n \in 1 .. m : n \in 0 .. m /\ n # 0
  OBVIOUS
<1>5. 0 \in 0 .. m
  OBVIOUS
<1> QED BY <1>1, <1>3, <1>4, <1>5 DEF RowByRow

(* What every cursor is. *)
IsACursor(cursor) ==
  cursor = [record |-> cursor.record, stops |-> cursor.stops,
            path |-> cursor.path, originHour |-> cursor.originHour]

(* A row leaves a cursor behind, and its record in it. *)
LEMMA ProcessedIs ==
  ASSUME NEW cursor, IsACursor(cursor), NEW row, NEW removes
  PROVE  /\ IsACursor(Processed(cursor, row, removes))
         /\ Processed(cursor, row, removes).record = <<row.record>>
<1> DEFINE begun == Begun(cursor, row)
<1>1. IsACursor(begun)
  <2>1. CASE Starts(cursor, row)
    BY <2>1 DEF Begun, NewCursor, IsACursor
  <2>2. CASE ~Starts(cursor, row)
    BY <2>2 DEF Begun
  <2> QED BY <2>1, <2>2
<1> DEFINE along == IF Called(row) THEN WithPath(begun.path, row.location[1].crs) ELSE begun.path
           stopping == IF BecomesAStop(row, removes)
                       THEN WithStop(begun.stops, StopAt(row.location[1], begun.originHour))
                       ELSE begun.stops
<1>2. Processed(cursor, row, removes)
        = [begun EXCEPT !.record = <<row.record>>, !.path = along, !.stops = stopping]
  BY <1>1 DEF Processed, IsACursor
<1> HIDE DEF begun, along, stopping
<1>3. Processed(cursor, row, removes)
        = [record |-> <<row.record>>, stops |-> stopping,
           path |-> along, originHour |-> begun.originHour]
  BY <1>1, <1>2 DEF IsACursor
<1> QED BY <1>3 DEF IsACursor

(***************************************************************************)
(* Sequences of whatever their members are.                                *)
(***************************************************************************)
IsSeq(s) == s \in Seq(Range(s))

(* A sequence is made of the members it has. *)
LEMMA SequenceHas ==
  ASSUME NEW s, IsSeq(s)
  PROVE  /\ Len(s) \in Nat /\ DOMAIN s = 1 .. Len(s)
         /\ \A i \in 1 .. Len(s) : s[i] \in Range(s)
         /\ \A x \in Range(s) : \E i \in 1 .. Len(s) : s[i] = x
<1>1. Len(s) \in Nat /\ DOMAIN s = 1 .. Len(s)
  BY DEF IsSeq
<1> QED BY <1>1 DEF Range

(* A list of any length is a sequence. *)
LEMMA ListIsSeq ==
  ASSUME NEW n \in Nat, NEW s, DOMAIN s = 1 .. n, s = [i \in 1 .. n |-> s[i]]
  PROVE  IsSeq(s) /\ Len(s) = n
<1>1. \A i \in 1 .. n : s[i] \in Range(s)
  BY DEF Range
<1>2. s \in [1 .. n -> Range(s)]
  BY <1>1
<1> QED BY <1>2 DEF IsSeq

(* A sequence over a set is one of its members. *)
LEMMA OfItsMembers == ASSUME NEW S, NEW s \in Seq(S) PROVE IsSeq(s)
<1>1. Len(s) \in Nat /\ s \in [1 .. Len(s) -> S] /\ DOMAIN s = 1 .. Len(s)
  OBVIOUS
<1>2. s = [i \in 1 .. Len(s) |-> s[i]]
  BY <1>1
<1> QED BY <1>1, <1>2, ListIsSeq

Appended(after, s, x) ==
  /\ IsSeq(after)
  /\ Len(after) = Len(s) + 1
  /\ \A i \in 1 .. Len(s) : after[i] = s[i]
  /\ after[Len(s) + 1] = x
  /\ Range(after) = Range(s) \cup {x}

(* What appending leaves. *)
LEMMA AppendHas ==
  ASSUME NEW s, IsSeq(s), NEW x
  PROVE  Appended(Append(s, x), s, x)
<1> DEFINE S == Range(s) \cup {x}
           after == Append(s, x)
<1>1. s \in Seq(S) /\ x \in S /\ Len(s) \in Nat
  BY DEF IsSeq
<1>2. /\ after \in Seq(S) /\ Len(after) = Len(s) + 1
      /\ \A i \in 1 .. Len(s) : after[i] = s[i]
      /\ after[Len(s) + 1] = x
  BY <1>1
<1> HIDE DEF after
<1>3. DOMAIN after = 1 .. Len(s) + 1 /\ DOMAIN s = 1 .. Len(s)
  BY <1>1, <1>2
<1>4. Range(after) = S
  <2>1. ASSUME NEW y \in Range(after) PROVE y \in S
    <3>1. PICK i \in DOMAIN after : after[i] = y
      BY DEF Range
    <3> QED BY <1>2, <3>1
  <2>2. ASSUME NEW y \in S PROVE y \in Range(after)
    <3>1. CASE y = x
      BY <1>1, <1>2, <1>3, <3>1 DEF Range
    <3>2. CASE y \in Range(s)
      <4>1. PICK i \in DOMAIN s : s[i] = y
        BY <3>2 DEF Range
      <4> QED BY <1>1, <1>2, <1>3, <4>1 DEF Range
    <3> QED BY <3>1, <3>2
  <2> QED BY <2>1, <2>2
<1>5. IsSeq(after)
  BY <1>2, <1>4 DEF IsSeq
<1> QED BY <1>2, <1>4, <1>5 DEF Appended, after

(* What taking the first leaves. *)
LEMMA TailHas ==
  ASSUME NEW s, IsSeq(s), s # <<>>
  PROVE  /\ IsSeq(Tail(s)) /\ Len(s) \in Nat \ {0}
         /\ Len(Tail(s)) = Len(s) - 1
         /\ \A i \in 1 .. Len(s) - 1 : Tail(s)[i] = s[i + 1]
         /\ Head(s) = s[1]
<1>1. s \in Seq(Range(s)) /\ Len(s) \in Nat \ {0} /\ DOMAIN s = 1 .. Len(s)
  BY DEF IsSeq
<1>2. /\ Len(Tail(s)) = Len(s) - 1
      /\ Tail(s) \in Seq(Range(s))
      /\ Head(s) = s[1]
  BY <1>1
<1>3. \A i \in 1 .. Len(s) - 1 : Tail(s)[i] = s[i + 1]
  BY <1>1
<1>4. IsSeq(Tail(s))
  BY <1>2, OfItsMembers
<1> QED BY <1>1, <1>2, <1>3, <1>4

(***************************************************************************)
(* How far a query has been read, and which of its records are over.       *)
(***************************************************************************)
Own(record) == Ordered(RowsOf(record))

Ends(records, record) == Offset(records, record) + Length(record)

Read(records, left) == Len(Query(records)) - Len(left)

IsReading(records, removes, left, cursor, how) ==
  /\ IsSeq(left)
  /\ Read(records, left) \in Nat
  /\ \A i \in 1 .. Len(left) : left[i] = Query(records)[Read(records, left) + i]
  /\ how = "resolved" => Len(left) = 0
  /\ how = "loading" =>
       /\ Read(records, left) = 0 => cursor = NewCursor
       /\ \A record \in records :
            Offset(records, record) < Read(records, left)
              /\ Read(records, left) <= Ends(records, record) =>
                   cursor = CursorAfter(Own(record), removes)
                              [Read(records, left) - Offset(records, record)]

IsOver(records, record, left, how) ==
  /\ Length(record) # 0
  /\ \/ Ends(records, record) < Read(records, left)
     \/ Ends(records, record) = Read(records, left) /\ how = "resolved"

(* What a step adds to the schedules, and to the records that are over. *)
Adds(records, removes, added, left, how, after, then) ==
  \/ /\ added = <<>>
     /\ \A record \in records :
          IsOver(records, record, after, then) <=> IsOver(records, record, left, how)
  \/ \E last \in records :
       /\ Length(last) # 0
       /\ added = Load(Own(last), removes)
       /\ \A record \in records :
            IsOver(records, record, after, then)
              <=> record = last \/ IsOver(records, record, left, how)
       /\ \A record \in records :
            IsOver(records, record, left, how) => GoesFirst(record, last)

(* The cursors over the rows of one record, and nothing else. *)
LEMMA OwnRowsAre ==
  ASSUME NEW records, IsATable(records), NEW record \in records, NEW removes
  PROVE  /\ Length(record) \in Nat /\ Len(Own(record)) = Length(record)
         /\ \A j \in 1 .. Length(record) : Own(record)[j].record = Identity(record)
         /\ CursorAfter(Own(record), removes)[0] = NewCursor
         /\ \A j \in 1 .. Length(record) :
              /\ CursorAfter(Own(record), removes)[j]
                   = Processed(CursorAfter(Own(record), removes)[j - 1], Own(record)[j], removes)
              /\ IsACursor(CursorAfter(Own(record), removes)[j])
              /\ CursorAfter(Own(record), removes)[j].record = <<Identity(record)>>
<1> DEFINE n == Length(record)
           f == CursorAfter(Own(record), removes)
<1>1. /\ n \in Nat /\ Len(Own(record)) = n
      /\ \A j \in 1 .. n : Own(record)[j] \in RowsOf(record)
  BY RowsOfOneRecord DEF Own
<1>2. \A j \in 1 .. n : Own(record)[j].record = Identity(record)
  <2>1. record \in Record
    BY DEF IsATable
  <2> QED BY <1>1, <2>1, RowIs
<1>3. f[0] = NewCursor /\ \A j \in 1 .. n : f[j] = Processed(f[j - 1], Own(record)[j], removes)
  BY <1>1, CursorAfterIs
<1> DEFINE S == {j \in Nat : j \in 0 .. n => IsACursor(f[j])}
<1>4. 0 \in S
  BY <1>3 DEF NewCursor, IsACursor
<1>5. ASSUME NEW j \in S PROVE j + 1 \in S
  <2> SUFFICES ASSUME j + 1 \in 0 .. n PROVE IsACursor(f[j + 1])
    OBVIOUS
  <2>1. j \in 0 .. n /\ j + 1 \in 1 .. n /\ (j + 1) - 1 = j
    BY <1>1
  <2>2. IsACursor(f[j]) /\ f[j + 1] = Processed(f[j], Own(record)[j + 1], removes)
    BY <1>3, <2>1
  <2> HIDE DEF f
  <2> QED BY <2>2, ProcessedIs
<1>6. \A j \in Nat : j \in S
  <2>1. S \in SUBSET Nat
    OBVIOUS
  <2> HIDE DEF S
  <2> QED BY <1>4, <1>5, <2>1, SetInduction
<1>7. ASSUME NEW j \in 1 .. n PROVE IsACursor(f[j]) /\ f[j].record = <<Identity(record)>>
  <2>1. j - 1 \in Nat /\ j - 1 \in 0 .. n
    BY <1>1
  <2>2. IsACursor(f[j - 1]) /\ f[j] = Processed(f[j - 1], Own(record)[j], removes)
    BY <1>3, <1>6, <2>1
  <2> HIDE DEF f
  <2> QED BY <1>2, <2>2, ProcessedIs
<1> QED BY <1>1, <1>2, <1>3, <1>7

(* A cursor with a record in it gives one schedule, *)
LEMMA FlushOfARecord ==
  ASSUME NEW cursor, NEW removes, NEW record, cursor.record = <<Identity(record)>>
  PROVE  /\ Flush(cursor, removes) = <<BuiltFrom(Identity(record), cursor, removes)>>
         /\ Identity(BuiltFrom(Identity(record), cursor, removes)) = Identity(record)
<1>1. DOMAIN cursor.record = 1 .. 1 /\ cursor.record[1] = Identity(record)
  OBVIOUS
<1>2. Flush(cursor, removes) = [i \in 1 .. 1 |-> BuiltFrom(Identity(record), cursor, removes)]
  <2>1. \A i \in 1 .. 1 : cursor.record[i] = Identity(record)
    BY <1>1
  <2> QED BY <1>1, <2>1 DEF Flush
<1>3. [i \in 1 .. 1 |-> BuiltFrom(Identity(record), cursor, removes)]
        = <<BuiltFrom(Identity(record), cursor, removes)>>
  OBVIOUS
<1>4. Identity(BuiltFrom(Identity(record), cursor, removes)) = Identity(record)
  BY DEF Identity, BuiltFrom
<1> QED BY <1>2, <1>3, <1>4

(* and so does a record with rows. *)
LEMMA LoadIs ==
  ASSUME NEW records, IsATable(records), NEW record \in records, Length(record) # 0, NEW removes
  PROVE  \E schedule : /\ Load(Own(record), removes) = <<schedule>>
                       /\ Identity(schedule) = Identity(record)
<1> DEFINE cursor == CursorAfter(Own(record), removes)[Length(record)]
<1>1. Length(record) \in 1 .. Length(record) /\ Len(Own(record)) = Length(record)
  BY OwnRowsAre
<1>2. cursor.record = <<Identity(record)>>
  BY <1>1, OwnRowsAre
<1>3. Load(Own(record), removes) = Flush(cursor, removes)
  BY <1>1 DEF Load
<1> HIDE DEF cursor
<1> QED BY <1>2, <1>3, FlushOfARecord

(* The first row of a record makes nothing of what the cursor held. *)
LEMMA StartsAfresh ==
  ASSUME NEW cursor, NEW row, NEW removes, Starts(cursor, row)
  PROVE  Processed(cursor, row, removes) = Processed(NewCursor, row, removes)
<1>1. Starts(NewCursor, row)
  BY DEF Starts, NewCursor
<1>2. Begun(cursor, row) = Begun(NewCursor, row)
  BY <1>1 DEF Begun
<1> QED BY <1>2 DEF Processed

(* A row is one record's. *)
Covers(records, record, n) == Offset(records, record) < n /\ n <= Ends(records, record)

(* Each row is of one record, and the next row of the same one or of the next. *)
LEMMA CoveredOnce ==
  ASSUME NEW records, IsATable(records), NEW n \in Int
  PROVE  /\ n \in 1 .. Len(Query(records)) => \E record \in records : Covers(records, record, n)
         /\ \A record \in records :
              Covers(records, record, n) =>
                /\ Length(record) # 0 /\ Length(record) \in Nat
                /\ Offset(records, record) \in Nat
                /\ Ends(records, record) = Offset(records, record) + Length(record)
                /\ Ends(records, record) <= Len(Query(records))
                /\ \A other \in records :
                     /\ Covers(records, other, n) => other = record
                     /\ Covers(records, other, n + 1) /\ other # record =>
                          Ends(records, record) = n /\ Offset(records, other) = n
         /\ \A record, other \in records :
              Length(record) # 0 /\ Length(other) # 0 /\ record # other
                /\ Ends(records, record) <= Ends(records, other) => GoesFirst(record, other)
<1>1. n \in 1 .. Len(Query(records)) => \E record \in records : Covers(records, record, n)
  BY QueryIs DEF Covers, Ends
<1>2. ASSUME NEW record \in records, NEW m \in Int, Covers(records, record, m)
      PROVE  /\ Length(record) # 0 /\ Length(record) \in Nat
             /\ Offset(records, record) \in Nat
             /\ Ends(records, record) = Offset(records, record) + Length(record)
             /\ Ends(records, record) <= Len(Query(records))
  <2>1. Length(record) \in Nat /\ (Length(record) # 0 => Offset(records, record) \in Nat)
    BY RowsOfOneRecord
  <2>2. Length(record) # 0
    <3> SUFFICES ASSUME Length(record) = 0 PROVE FALSE
      OBVIOUS
    <3>1. Offset(records, record) < m /\ m <= Offset(records, record) + 0
      BY <1>2 DEF Covers, Ends
    <3>2. Offset(records, record) \in Nat
      <4>1. IsFiniteSet(AllRows(records))
        BY TheirRows DEF CanBeOrdered
      <4>2. {row \in AllRows(records) : GoesFirst(row.record, record)} \in SUBSET AllRows(records)
        OBVIOUS
      <4> QED BY <4>1, <4>2, FS_Subset, FS_CardinalityType DEF Offset
    <3> QED BY <3>1, <3>2
  <2>3. Length(record) \in 1 .. Length(record)
    BY <2>1, <2>2
  <2>4. Offset(records, record) + Length(record) \in 1 .. Len(Query(records))
    BY <2>3, RowsOfOneRecord
  <2>5. Len(Query(records)) \in Nat
    BY QueryIs
  <2> QED BY <2>1, <2>2, <2>4, <2>5 DEF Ends
<1>3. ASSUME NEW record \in records, NEW other \in records,
             Length(record) # 0, Length(other) # 0, record # other
      PROVE  /\ Offset(records, record) \in Nat /\ Offset(records, other) \in Nat
             /\ Length(record) \in Nat \ {0} /\ Length(other) \in Nat \ {0}
             /\ \/ GoesFirst(record, other)
                   /\ Offset(records, record) + Length(record) <= Offset(records, other)
                \/ Offset(records, other) + Length(other) <= Offset(records, record)
  BY <1>3, OneAfterTheOther, RecordsHaveAnOrder
<1>4. ASSUME NEW record \in records, NEW other \in records, record # other,
             Covers(records, record, n)
      PROVE  /\ ~Covers(records, other, n)
             /\ Covers(records, other, n + 1) =>
                  Ends(records, record) = n /\ Offset(records, other) = n
  <2>1. ASSUME NEW m \in Int, m = n \/ m = n + 1, Covers(records, other, m)
        PROVE  m = n + 1 /\ Ends(records, record) = n /\ Offset(records, other) = n
    <3>1. Length(record) # 0 /\ Length(other) # 0
      BY <1>2, <1>4, <2>1
    <3>2. /\ Offset(records, record) < n /\ n <= Offset(records, record) + Length(record)
          /\ Offset(records, other) < m /\ m <= Offset(records, other) + Length(other)
      BY <1>4, <2>1 DEF Covers, Ends
    <3> QED BY <1>3, <1>4, <2>1, <3>1, <3>2 DEF Ends
  <2>2. n + 1 # n
    OBVIOUS
  <2> QED BY <2>1, <2>2
<1>5. ASSUME NEW record \in records, NEW other \in records,
             Length(record) # 0, Length(other) # 0, record # other,
             Ends(records, record) <= Ends(records, other)
      PROVE  GoesFirst(record, other)
  BY <1>3, <1>5 DEF Ends
<1> QED BY <1>1, <1>2, <1>4, <1>5

(* The records over before a row go before the one it is of. *)
LEMMA OverBefore ==
  ASSUME NEW records, IsATable(records), NEW left, NEW how, NEW n \in Nat,
         n = Read(records, left), NEW last \in records, Covers(records, last, n)
  PROVE  /\ how # "resolved" => ~IsOver(records, last, left, how)
         /\ \A record \in records :
              /\ Length(record) # 0 /\ Ends(records, record) = n => record = last
              /\ Length(record) # 0 /\ Ends(records, record) < n => GoesFirst(record, last)
<1>1. /\ Length(last) # 0 /\ Length(last) \in Nat /\ Offset(records, last) \in Nat
      /\ Ends(records, last) = Offset(records, last) + Length(last)
      /\ Offset(records, last) < n /\ n <= Ends(records, last)
  BY CoveredOnce DEF Covers
<1>2. how # "resolved" => ~IsOver(records, last, left, how)
  BY <1>1 DEF IsOver
<1>3. ASSUME NEW record \in records, Length(record) # 0
      PROVE  /\ Offset(records, record) \in Nat /\ Length(record) \in Nat \ {0}
             /\ Ends(records, record) = Offset(records, record) + Length(record)
  BY <1>3, RowsOfOneRecord DEF Ends
<1>4. ASSUME NEW record \in records, Length(record) # 0, Ends(records, record) = n
      PROVE  record = last
  <2>1. Covers(records, record, n)
    BY <1>3, <1>4 DEF Covers
  <2> QED BY <2>1, CoveredOnce
<1>5. ASSUME NEW record \in records, Length(record) # 0, Ends(records, record) < n
      PROVE  GoesFirst(record, last)
  <2>1. record # last /\ Ends(records, record) <= Ends(records, last)
    BY <1>1, <1>3, <1>5
  <2> QED BY <1>1, <1>5, <2>1, CoveredOnce
<1> QED BY <1>2, <1>4, <1>5

(***************************************************************************)
(* A row that arrives is the next of the record in hand, or the first of   *)
(* another; then the one in hand is over.                                  *)
(***************************************************************************)
LEMMA RowArrives ==
  ASSUME NEW records, IsATable(records), NEW removes, NEW left, NEW cursor,
         IsReading(records, removes, left, cursor, "loading"), left # <<>>
  PROVE  /\ IsReading(records, removes, Tail(left), Processed(cursor, Head(left), removes), "loading")
         /\ \A any : IsReading(records, removes, Tail(left), any, "rejected")
         /\ \A then \in {"loading", "rejected"} :
              Adds(records, removes,
                   IF Starts(cursor, Head(left)) THEN Flush(cursor, removes) ELSE <<>>,
                   left, "loading", Tail(left), then)
<1> DEFINE n == Read(records, left)
           q == Query(records)
           row == Head(left)
           after == Tail(left)
<1>1. /\ IsSeq(after) /\ Len(left) \in Nat \ {0} /\ Len(after) = Len(left) - 1
      /\ \A i \in 1 .. Len(left) - 1 : after[i] = left[i + 1]
      /\ row = left[1]
  BY TailHas DEF IsReading
<1>2. /\ n \in Nat /\ Len(q) \in Nat /\ n = Len(q) - Len(left)
      /\ Read(records, after) = n + 1 /\ n + 1 \in 1 .. Len(q)
  <2>1. n \in Nat
    BY DEF IsReading
  <2>2. Len(q) \in Nat
    BY QueryIs
  <2>3. n = Len(q) - Len(left) /\ Read(records, after) = Len(q) - Len(after)
    BY DEF Read
  <2> HIDE DEF n, q, after
  <2> QED BY <1>1, <2>1, <2>2, <2>3
<1>3. row = q[n + 1]
  <2>1. 1 \in 1 .. Len(left)
    BY <1>1
  <2> QED BY <1>1, <2>1 DEF IsReading
<1>4. \A i \in 1 .. Len(after) : after[i] = q[(n + 1) + i]
  <2> SUFFICES ASSUME NEW i \in 1 .. Len(after) PROVE after[i] = q[(n + 1) + i]
    OBVIOUS
  <2>1. i + 1 \in 1 .. Len(left) /\ n + (i + 1) = (n + 1) + i /\ i \in 1 .. Len(left) - 1
    BY <1>1, <1>2
  <2>2. left[i + 1] = q[n + (i + 1)]
    BY <2>1 DEF IsReading
  <2> QED BY <1>1, <2>1, <2>2
<1>5. PICK next \in records : Covers(records, next, n + 1)
  <2>1. n + 1 \in Int
    BY <1>2
  <2> QED BY <1>2, <2>1, CoveredOnce
<1>6. /\ Length(next) \in Nat \ {0} /\ Offset(records, next) \in Nat
      /\ Offset(records, next) <= n /\ n + 1 <= Offset(records, next) + Length(next)
      /\ Ends(records, next) = Offset(records, next) + Length(next)
      /\ \A other \in records : Covers(records, other, n + 1) => other = next
  <2>1. n + 1 \in Int
    BY <1>2
  <2>2. /\ Length(next) \in Nat \ {0} /\ Offset(records, next) \in Nat
        /\ Ends(records, next) = Offset(records, next) + Length(next)
        /\ \A other \in records : Covers(records, other, n + 1) => other = next
    BY <1>5, <2>1, CoveredOnce
  <2>3. Offset(records, next) < n + 1 /\ n + 1 <= Ends(records, next)
    BY <1>5 DEF Covers
  <2> HIDE DEF n
  <2> QED BY <1>2, <2>2, <2>3
<1> DEFINE j == (n + 1) - Offset(records, next)
<1>7. j \in 1 .. Length(next) /\ Offset(records, next) + j = n + 1
  <2> HIDE DEF n
  <2> QED BY <1>2, <1>6
<1>8. row = Own(next)[j] /\ row.record = Identity(next)
  <2>1. q[Offset(records, next) + j] = Own(next)[j]
    BY <1>7, RowsOfOneRecord DEF Own
  <2>2. Own(next)[j].record = Identity(next)
    BY <1>7, OwnRowsAre
  <2> QED BY <1>3, <1>7, <2>1, <2>2
<1>9. /\ CursorAfter(Own(next), removes)[0] = NewCursor
      /\ CursorAfter(Own(next), removes)[j]
           = Processed(CursorAfter(Own(next), removes)[j - 1], row, removes)
  BY <1>7, <1>8, OwnRowsAre
<1>10. Starts(NewCursor, row)
  BY DEF NewCursor, Starts
<1>11. CASE n = 0
  <2>1. cursor = NewCursor /\ Starts(cursor, row) /\ Flush(cursor, removes) = <<>>
    <3>1. cursor = NewCursor
      BY <1>11 DEF IsReading
    <3> QED BY <1>10, <3>1 DEF NewCursor, Flush
  <2>2. j = 1 /\ Offset(records, next) = 0
    <3> HIDE DEF n
    <3> QED BY <1>6, <1>11
  <2>3. Processed(cursor, row, removes) = CursorAfter(Own(next), removes)[j]
    BY <1>9, <2>1, <2>2
  <2>4. ASSUME NEW then \in {"loading", "rejected"}, NEW record \in records
        PROVE  ~IsOver(records, record, after, then) /\ ~IsOver(records, record, left, "loading")
    <3>1. Length(record) # 0 => Ends(records, record) \in Nat \ {0}
      BY RowsOfOneRecord DEF Ends
    <3>2. Read(records, left) = 0 /\ Read(records, after) = 1
      BY <1>2, <1>11
    <3> QED BY <3>1, <3>2 DEF IsOver
  <2>5. \A then \in {"loading", "rejected"} :
          Adds(records, removes, <<>>, left, "loading", after, then)
    BY <2>4 DEF Adds
  <2> HIDE DEF n, q, row, after, j
  <2>6. IsReading(records, removes, after, Processed(cursor, row, removes), "loading")
    <3>1. ASSUME NEW record \in records, Offset(records, record) < n + 1, n + 1 <= Ends(records, record)
          PROVE  Processed(cursor, row, removes)
                   = CursorAfter(Own(record), removes)[(n + 1) - Offset(records, record)]
      <4>1. record = next
        BY <1>6, <3>1 DEF Covers
      <4> QED BY <2>3, <4>1 DEF j
    <3>2. n + 1 # 0 /\ n + 1 \in Nat
      BY <1>2
    <3>3. Len(after) \in Nat
      BY <1>1
    <3> QED BY <1>1, <1>2, <1>4, <3>1, <3>2, <3>3 DEF IsReading, q
  <2>7. \A any : IsReading(records, removes, after, any, "rejected")
    BY <1>1, <1>2, <1>4 DEF IsReading, q
  <2> QED BY <2>1, <2>5, <2>6, <2>7 DEF row, after
<1>12. CASE n # 0
  <2>1. PICK last \in records : Covers(records, last, n)
    <3>1. n \in Int /\ n \in 1 .. Len(q)
      <4> HIDE DEF n, q
      <4> QED BY <1>2, <1>12
    <3> QED BY <3>1, CoveredOnce
  <2>2. /\ Length(last) \in Nat \ {0} /\ Offset(records, last) \in Nat
        /\ Offset(records, last) < n /\ n <= Offset(records, last) + Length(last)
        /\ Ends(records, last) = Offset(records, last) + Length(last)
        /\ next # last => Ends(records, last) = n /\ Offset(records, next) = n
    <3>1. n \in Int
      BY <1>2
    <3> QED BY <1>5, <2>1, <3>1, CoveredOnce DEF Covers
  <2> DEFINE i == n - Offset(records, last)
  <2>3. i \in 1 .. Length(last)
    <3> HIDE DEF n
    <3> QED BY <1>2, <2>2
  <2>4. cursor = CursorAfter(Own(last), removes)[i]
    BY <2>1 DEF IsReading, Covers
  <2>5. cursor.record = <<Identity(last)>>
    BY <2>3, <2>4, OwnRowsAre
  <2>6. Starts(cursor, row) <=> next # last
    <3>1. Starts(cursor, row) <=> last.id # next.id
      <4>1. DOMAIN cursor.record = 1 .. 1 /\ cursor.record[1].id = last.id /\ row.record.id = next.id
        BY <1>8, <2>5 DEF Identity
      <4>2. \A k \in 1 .. 1 : k = 1
        OBVIOUS
      <4> QED BY <4>1, <4>2 DEF Starts
    <3> QED BY <3>1 DEF IsATable
  <2>7. Processed(cursor, row, removes) = CursorAfter(Own(next), removes)[j]
    <3>1. CASE next = last
      <4>1. j - 1 = i
        <5> HIDE DEF n
        <5> QED BY <1>2, <1>6, <3>1
      <4> QED BY <1>9, <2>4, <3>1, <4>1
    <3>2. CASE next # last
      <4>1. j - 1 = 0
        <5> HIDE DEF n
        <5> QED BY <1>2, <2>2, <3>2
      <4> QED BY <1>9, <2>6, <3>2, <4>1, StartsAfresh
    <3> QED BY <3>1, <3>2
  <2>8. /\ ~IsOver(records, last, left, "loading")
        /\ \A record \in records :
             /\ Length(record) # 0 /\ Ends(records, record) = n => record = last
             /\ Length(record) # 0 /\ Ends(records, record) < n => GoesFirst(record, last)
    BY <1>2, <2>1, OverBefore
  <2>9. ASSUME NEW then \in {"loading", "rejected"}, NEW record \in records
        PROVE  /\ IsOver(records, record, left, "loading")
                    <=> Length(record) # 0 /\ Ends(records, record) < n
               /\ IsOver(records, record, after, then)
                    <=> Length(record) # 0 /\ (Ends(records, record) < n \/ Ends(records, record) = n)
    <3>1. Length(record) # 0 => Ends(records, record) \in Nat
      BY RowsOfOneRecord DEF Ends
    <3>2. Read(records, after) = n + 1 /\ then # "resolved" /\ n = Read(records, left)
      BY <1>2
    <3> HIDE DEF n, after
    <3> QED BY <1>2, <3>1, <3>2 DEF IsOver
  <2>10. \A then \in {"loading", "rejected"} :
           Adds(records, removes,
                IF Starts(cursor, row) THEN Flush(cursor, removes) ELSE <<>>,
                left, "loading", after, then)
    <3> SUFFICES ASSUME NEW then \in {"loading", "rejected"}
                 PROVE  Adds(records, removes,
                             IF Starts(cursor, row) THEN Flush(cursor, removes) ELSE <<>>,
                             left, "loading", after, then)
      OBVIOUS
    <3>1. CASE next = last
      <4>1. ~Starts(cursor, row)
        BY <2>6, <3>1
      <4>2. ~(Ends(records, last) = n)
        <5> HIDE DEF n
        <5> QED BY <1>2, <1>6, <2>2, <3>1
      <4>3. \A record \in records : Length(record) # 0 => Ends(records, record) # n
        BY <2>8, <4>2
      <4> HIDE DEF n, after, row
      <4> QED BY <2>9, <4>1, <4>3 DEF Adds
    <3>2. CASE next # last
      <4>1. Starts(cursor, row) /\ Ends(records, last) = n /\ i = Length(last)
        <5>1. Ends(records, last) = n /\ Starts(cursor, row)
          BY <2>2, <2>6, <3>2
        <5> HIDE DEF n
        <5> QED BY <1>2, <2>2, <5>1
      <4>2. Flush(cursor, removes) = Load(Own(last), removes)
        <5>1. Len(Own(last)) = Length(last)
          BY OwnRowsAre
        <5> QED BY <2>4, <4>1, <5>1 DEF Load
      <4>3. \A record \in records :
              IsOver(records, record, after, then)
                <=> record = last \/ IsOver(records, record, left, "loading")
        <5> HIDE DEF n, after
        <5> QED BY <2>2, <2>8, <2>9, <4>1
      <4>4. \A record \in records :
              IsOver(records, record, left, "loading") => GoesFirst(record, last)
        <5> HIDE DEF n
        <5> QED BY <2>8, <2>9
      <4>5. Length(last) # 0
        BY <2>2
      <4> HIDE DEF n, after, row
      <4> QED BY <4>1, <4>2, <4>3, <4>4, <4>5 DEF Adds
    <3> QED BY <3>1, <3>2
  <2> HIDE DEF n, q, row, after, j, i
  <2>11. IsReading(records, removes, after, Processed(cursor, row, removes), "loading")
    <3>1. ASSUME NEW record \in records, Offset(records, record) < n + 1, n + 1 <= Ends(records, record)
          PROVE  Processed(cursor, row, removes)
                   = CursorAfter(Own(record), removes)[(n + 1) - Offset(records, record)]
      <4>1. record = next
        BY <1>6, <3>1 DEF Covers
      <4> QED BY <2>7, <4>1 DEF j
    <3>2. n + 1 # 0 /\ n + 1 \in Nat
      BY <1>2
    <3> QED BY <1>1, <1>2, <1>4, <3>1, <3>2 DEF IsReading, q
  <2>12. \A any : IsReading(records, removes, after, any, "rejected")
    BY <1>1, <1>2, <1>4 DEF IsReading, q
  <2> QED BY <2>10, <2>11, <2>12 DEF row, after
<1> QED BY <1>11, <1>12

(* At the end of the rows the record in hand is over. *)
LEMMA RowsEnd ==
  ASSUME NEW records, IsATable(records), NEW removes, NEW left, NEW cursor,
         IsReading(records, removes, left, cursor, "loading"), left = <<>>
  PROVE  /\ \A any : IsReading(records, removes, left, any, "resolved")
         /\ Adds(records, removes, Flush(cursor, removes), left, "loading", left, "resolved")
<1> DEFINE n == Read(records, left)
           q == Query(records)
<1>1. n \in Nat /\ Len(q) \in Nat /\ n = Len(q) /\ Len(left) = 0
  <2>1. Len(left) = 0
    OBVIOUS
  <2>2. n \in Nat /\ Len(q) \in Nat /\ n = Len(q) - Len(left)
    BY QueryIs DEF IsReading, Read
  <2> HIDE DEF n, q
  <2> QED BY <2>1, <2>2
<1>2. \A any : IsReading(records, removes, left, any, "resolved")
  BY <1>1 DEF IsReading
<1>3. ASSUME NEW record \in records
      PROVE  /\ IsOver(records, record, left, "loading")
                  <=> Length(record) # 0 /\ Ends(records, record) < n
             /\ IsOver(records, record, left, "resolved")
                  <=> Length(record) # 0 /\ (Ends(records, record) < n \/ Ends(records, record) = n)
  BY DEF IsOver
<1>4. CASE n = 0
  <2>1. cursor = NewCursor
    BY <1>4 DEF IsReading
  <2>2. Flush(cursor, removes) = <<>>
    BY <2>1 DEF NewCursor, Flush
  <2>3. \A record \in records : Length(record) # 0 => Ends(records, record) \in Nat \ {0}
    BY RowsOfOneRecord DEF Ends
  <2> HIDE DEF n
  <2>4. \A record \in records :
          IsOver(records, record, left, "resolved") <=> IsOver(records, record, left, "loading")
    BY <1>3, <1>4, <2>3
  <2> QED BY <1>2, <2>2, <2>4 DEF Adds
<1>5. CASE n # 0
  <2>1. n \in Int /\ n \in 1 .. Len(q)
    <3> HIDE DEF n, q
    <3> QED BY <1>1, <1>5
  <2>2. PICK last \in records : Covers(records, last, n)
    BY <2>1, CoveredOnce
  <2>3. /\ Length(last) \in Nat \ {0} /\ Offset(records, last) \in Nat
        /\ Offset(records, last) < n /\ n <= Offset(records, last) + Length(last)
        /\ Ends(records, last) = Offset(records, last) + Length(last)
        /\ Ends(records, last) <= Len(q)
    BY <2>1, <2>2, CoveredOnce DEF Covers
  <2>4. Ends(records, last) = n /\ n - Offset(records, last) = Length(last)
    <3> HIDE DEF n, q
    <3> QED BY <1>1, <2>3
  <2>5. cursor = CursorAfter(Own(last), removes)[Length(last)]
    BY <2>2, <2>4 DEF IsReading, Covers
  <2>6. Flush(cursor, removes) = Load(Own(last), removes)
    <3>1. Len(Own(last)) = Length(last)
      BY OwnRowsAre
    <3> QED BY <2>5, <3>1 DEF Load
  <2>7. /\ ~IsOver(records, last, left, "loading")
        /\ \A record \in records :
             /\ Length(record) # 0 /\ Ends(records, record) = n => record = last
             /\ Length(record) # 0 /\ Ends(records, record) < n => GoesFirst(record, last)
    BY <1>1, <2>2, OverBefore
  <2> HIDE DEF n
  <2>8. \A record \in records :
          /\ IsOver(records, record, left, "resolved")
               <=> record = last \/ IsOver(records, record, left, "loading")
          /\ IsOver(records, record, left, "loading") => GoesFirst(record, last)
    BY <1>3, <2>3, <2>4, <2>7
  <2> QED BY <1>2, <2>3, <2>6, <2>8 DEF Adds
<1> QED BY <1>4, <1>5

-----------------------------------------------------------------------------
(***************************************************************************)
(* 4. What both streams make, and the order it is in.                      *)
(***************************************************************************)

(***************************************************************************)
(* What the builder has made, of what has been read.                       *)
(***************************************************************************)
AreRead(recs) ==
  /\ \A stream \in Streams : IsATable(recs[stream])
  /\ IsOfZTrains(recs["z_schedule"], recs["schedule"])
  /\ \A one \in recs["schedule"], other \in recs["z_schedule"] : one.id # other.id
  /\ Cardinality(recs["schedule"]) + Cardinality(recs["z_schedule"]) <= MaxSchedules

MadeFrom(schedule, record, removes) == <<schedule>> = Load(Own(record), removes)

Making(recs, removes, left, how, made) ==
  /\ IsSeq(made)
  /\ \A k \in 1 .. Len(made) : \E stream \in Streams : \E record \in recs[stream] :
       /\ IsOver(recs[stream], record, left[stream], how[stream])
       /\ MadeFrom(made[k], record, removes)
  /\ \A stream \in Streams : \A record \in recs[stream] :
       IsOver(recs[stream], record, left[stream], how[stream]) =>
         \E k \in 1 .. Len(made) : MadeFrom(made[k], record, removes)
  /\ \A k, l \in 1 .. Len(made) : k < l =>
       \A stream \in Streams : \A one, other \in recs[stream] :
         /\ Length(one) # 0 /\ Length(other) # 0
         /\ MadeFrom(made[k], one, removes) /\ MadeFrom(made[l], other, removes)
         => GoesFirst(one, other)

(* A schedule names the record it is made from, *)
LEMMA MadeFromOne ==
  ASSUME NEW recs, AreRead(recs), NEW removes, NEW schedule,
         NEW stream \in Streams, NEW record \in recs[stream], Length(record) # 0,
         MadeFrom(schedule, record, removes)
  PROVE  /\ Identity(schedule) = Identity(record)
         /\ schedule.id = record.id /\ schedule.tuid = record.tuid
         /\ schedule.stp = record.stp /\ schedule.calendar = record.calendar
<1>1. IsATable(recs[stream])
  BY DEF AreRead
<1>2. PICK x : Load(Own(record), removes) = <<x>> /\ Identity(x) = Identity(record)
  BY <1>1, LoadIs
<1>3. schedule = x
  BY <1>2 DEF MadeFrom
<1> QED BY <1>2, <1>3 DEF Identity

(* and no other: the ids are their own. *)
LEMMA OneRecordOf ==
  ASSUME NEW recs, AreRead(recs),
         NEW s \in Streams, NEW one \in recs[s], NEW t \in Streams, NEW other \in recs[t],
         one.id = other.id
  PROVE  s = t /\ one = other
<1>1. s = t
  BY DEF AreRead, Streams
<1> QED BY <1>1 DEF AreRead, IsATable

(* A step of one stream keeps what both have made. *)
LEMMA MakingGoesOn ==
  ASSUME NEW recs, AreRead(recs), NEW removes, NEW left, NEW how, NEW made,
         Making(recs, removes, left, how, made),
         NEW stream \in Streams, NEW after, NEW then, NEW added,
         \A each \in Streams \ {stream} : after[each] = left[each] /\ then[each] = how[each],
         Adds(recs[stream], removes, added, left[stream], how[stream], after[stream], then[stream])
  PROVE  Making(recs, removes, after, then, made \o added)
<1> DEFINE Over(s, r) == IsOver(recs[s], r, left[s], how[s])
           OverNow(s, r) == IsOver(recs[s], r, after[s], then[s])
<1>1. \A s \in Streams \ {stream} : \A r \in recs[s] : OverNow(s, r) <=> Over(s, r)
  OBVIOUS
<1>2. /\ IsSeq(made)
      /\ \A k \in 1 .. Len(made) : \E s \in Streams : \E r \in recs[s] :
           Over(s, r) /\ MadeFrom(made[k], r, removes)
      /\ \A s \in Streams : \A r \in recs[s] :
           Over(s, r) => \E k \in 1 .. Len(made) : MadeFrom(made[k], r, removes)
      /\ \A k, l \in 1 .. Len(made) : k < l =>
           \A s \in Streams : \A one, other \in recs[s] :
             /\ Length(one) # 0 /\ Length(other) # 0
             /\ MadeFrom(made[k], one, removes) /\ MadeFrom(made[l], other, removes)
             => GoesFirst(one, other)
  BY DEF Making
<1>3. CASE /\ added = <<>>
           /\ \A r \in recs[stream] : OverNow(stream, r) <=> Over(stream, r)
  <2>1. made \o added = made
    <3>1. made \in Seq(Range(made))
      BY <1>2 DEF IsSeq
    <3> QED BY <1>3, <3>1
  <2>2. \A s \in Streams : \A r \in recs[s] : OverNow(s, r) <=> Over(s, r)
    BY <1>1, <1>3
  <2> HIDE DEF Over, OverNow
  <2>3. /\ \A k \in 1 .. Len(made) : \E s \in Streams : \E r \in recs[s] :
             OverNow(s, r) /\ MadeFrom(made[k], r, removes)
        /\ \A s \in Streams : \A r \in recs[s] :
             OverNow(s, r) => \E k \in 1 .. Len(made) : MadeFrom(made[k], r, removes)
    BY <1>2, <2>2
  <2> QED BY <1>2, <2>1, <2>3 DEF Making, OverNow
<1>4. ASSUME NEW last \in recs[stream],
             Length(last) # 0,
             added = Load(Own(last), removes),
             \A r \in recs[stream] : OverNow(stream, r) <=> r = last \/ Over(stream, r),
             \A r \in recs[stream] : Over(stream, r) => GoesFirst(r, last)
      PROVE  Making(recs, removes, after, then, made \o added)
  <2>1. PICK x : added = <<x>> /\ MadeFrom(x, last, removes)
    <3>1. IsATable(recs[stream])
      BY DEF AreRead
    <3>2. PICK x : Load(Own(last), removes) = <<x>>
      BY <1>4, <3>1, LoadIs
    <3> QED BY <1>4, <3>2 DEF MadeFrom
  <2> DEFINE new == Append(made, x)
  <2>2. made \o added = new
    <3>1. made \in Seq(Range(made))
      BY <1>2 DEF IsSeq
    <3> QED BY <2>1, <3>1
  <2>3. /\ IsSeq(new) /\ Len(new) = Len(made) + 1 /\ Len(made) \in Nat
        /\ \A k \in 1 .. Len(made) : new[k] = made[k]
        /\ new[Len(made) + 1] = x
    BY <1>2, AppendHas, SequenceHas DEF Appended
  <2>4. \A s \in Streams : \A r \in recs[s] :
          OverNow(s, r) <=> (s = stream /\ r = last) \/ Over(s, r)
    BY <1>1, <1>4
  <2>5. \A s \in Streams : \A r \in recs[s] : Over(s, r) => Length(r) # 0
    BY DEF IsOver
  <2> HIDE DEF Over, OverNow, new
  <2>6. ASSUME NEW k \in 1 .. Len(new)
        PROVE  \E s \in Streams : \E r \in recs[s] : OverNow(s, r) /\ MadeFrom(new[k], r, removes)
    <3>1. CASE k \in 1 .. Len(made)
      BY <1>2, <2>3, <2>4, <3>1
    <3>2. CASE k = Len(made) + 1
      BY <2>1, <2>3, <2>4, <3>2
    <3> QED BY <2>3, <3>1, <3>2
  <2>7. ASSUME NEW s \in Streams, NEW r \in recs[s], OverNow(s, r)
        PROVE  \E k \in 1 .. Len(new) : MadeFrom(new[k], r, removes)
    <3>1. CASE s = stream /\ r = last
      <4>1. Len(made) + 1 \in 1 .. Len(new)
        BY <2>3
      <4> QED BY <2>1, <2>3, <3>1, <4>1
    <3>2. CASE Over(s, r)
      <4>1. PICK k \in 1 .. Len(made) : MadeFrom(made[k], r, removes)
        BY <1>2, <3>2
      <4>2. k \in 1 .. Len(new) /\ new[k] = made[k]
        BY <2>3
      <4> QED BY <4>1, <4>2
    <3> QED BY <2>4, <2>7, <3>1, <3>2
  <2>8. ASSUME NEW k \in 1 .. Len(new), NEW l \in 1 .. Len(new), k < l,
               NEW s \in Streams, NEW one \in recs[s], NEW other \in recs[s],
               Length(one) # 0, Length(other) # 0,
               MadeFrom(new[k], one, removes), MadeFrom(new[l], other, removes)
        PROVE  GoesFirst(one, other)
    <3>1. CASE l \in 1 .. Len(made)
      <4>1. k \in 1 .. Len(made)
        BY <2>3, <2>8, <3>1
      <4>2. MadeFrom(made[k], one, removes) /\ MadeFrom(made[l], other, removes)
        BY <2>3, <2>8, <3>1, <4>1
      <4> QED BY <1>2, <2>8, <3>1, <4>1, <4>2
    <3>2. CASE l = Len(made) + 1
      <4>1. k \in 1 .. Len(made)
        BY <2>3, <2>8, <3>2
      <4>2. new[k] = made[k] /\ new[l] = x
        BY <2>3, <3>2, <4>1
      <4>3. x.id = other.id /\ x.id = last.id
        BY <1>4, <2>1, <2>8, <4>2, MadeFromOne
      <4>4. s = stream /\ other = last
        BY <4>3, OneRecordOf
      <4>5. PICK y : y = made[k]
        OBVIOUS
      <4>6. PICK t \in Streams : \E r \in recs[t] : Over(t, r) /\ MadeFrom(y, r, removes)
        BY <1>2, <4>1, <4>5
      <4>7. PICK r \in recs[t] : Over(t, r) /\ MadeFrom(y, r, removes)
        BY <4>6
      <4>8. Length(r) # 0
        BY <2>5, <4>7
      <4>9. y.id = r.id
        BY ONLY AreRead(recs), <4>7, <4>8, MadeFromOne
      <4>10. MadeFrom(y, one, removes) /\ Length(one) # 0
        BY <2>8, <4>2, <4>5
      <4>11. y.id = one.id
        BY ONLY AreRead(recs), <4>10, MadeFromOne
      <4>12. t = s /\ r = one
        <5>1. r.id = one.id
          BY <4>9, <4>11
        <5> QED BY ONLY AreRead(recs), <5>1, OneRecordOf
      <4> QED BY <1>4, <4>4, <4>7, <4>12
    <3> QED BY <2>3, <3>1, <3>2
  <2>9. Making(recs, removes, after, then, new)
    BY <2>3, <2>6, <2>7, <2>8 DEF Making, OverNow
  <2> QED BY <2>2, <2>9
<1>5. \/ /\ added = <<>>
         /\ \A r \in recs[stream] : OverNow(stream, r) <=> Over(stream, r)
      \/ \E last \in recs[stream] :
           /\ Length(last) # 0
           /\ added = Load(Own(last), removes)
           /\ \A r \in recs[stream] : OverNow(stream, r) <=> r = last \/ Over(stream, r)
           /\ \A r \in recs[stream] : Over(stream, r) => GoesFirst(r, last)
  BY DEF Adds
<1> HIDE DEF Over, OverNow
<1> QED BY <1>3, <1>4, <1>5

(***************************************************************************)
(* A record becomes one schedule at most, and those of a train come in the *)
(* order the overlays may be given them in.                                *)
(***************************************************************************)
LEMMA MadeOnce ==
  ASSUME NEW recs, AreRead(recs), NEW removes, NEW left, NEW how, NEW made,
         Making(recs, removes, left, how, made)
  PROVE  /\ \A k \in 1 .. Len(made) : \E s \in Streams : \E r \in recs[s] :
              /\ Length(r) # 0 /\ MadeFrom(made[k], r, removes) /\ r \in Record
              /\ made[k].id = r.id /\ made[k].tuid = r.tuid
              /\ made[k].stp = r.stp /\ made[k].calendar = r.calendar
         /\ \A k, l \in 1 .. Len(made) : k < l =>
              /\ made[k].id # made[l].id
              /\ made[k].tuid = made[l].tuid =>
                   /\ Rank(made[k].stp) <= Rank(made[l].stp)
                   /\ made[k].stp = made[l].stp => made[k].calendar.from # made[l].calendar.from
<1>1. ASSUME NEW k \in 1 .. Len(made)
      PROVE  \E s \in Streams : \E r \in recs[s] :
               /\ Length(r) # 0 /\ MadeFrom(made[k], r, removes) /\ r \in Record
               /\ made[k].id = r.id /\ made[k].tuid = r.tuid
               /\ made[k].stp = r.stp /\ made[k].calendar = r.calendar
  <2>1. PICK x : x = made[k]
    OBVIOUS
  <2>2. PICK s \in Streams : \E r \in recs[s] :
          IsOver(recs[s], r, left[s], how[s]) /\ MadeFrom(x, r, removes)
    BY <2>1 DEF Making
  <2>3. PICK r \in recs[s] : IsOver(recs[s], r, left[s], how[s]) /\ MadeFrom(x, r, removes)
    BY <2>2
  <2>4. Length(r) # 0
    BY <2>3 DEF IsOver
  <2>5. x.id = r.id /\ x.tuid = r.tuid /\ x.stp = r.stp /\ x.calendar = r.calendar
    BY ONLY AreRead(recs), <2>3, <2>4, MadeFromOne
  <2>6. r \in Record
    BY DEF AreRead, IsATable
  <2> QED BY <2>1, <2>3, <2>4, <2>5, <2>6
<1>2. ASSUME NEW k \in 1 .. Len(made), NEW l \in 1 .. Len(made), k < l
      PROVE  /\ made[k].id # made[l].id
             /\ made[k].tuid = made[l].tuid =>
                  /\ Rank(made[k].stp) <= Rank(made[l].stp)
                  /\ made[k].stp = made[l].stp => made[k].calendar.from # made[l].calendar.from
  <2>1. PICK s \in Streams : \E r \in recs[s] :
          /\ Length(r) # 0 /\ MadeFrom(made[k], r, removes) /\ r \in Record
          /\ made[k].id = r.id /\ made[k].tuid = r.tuid
          /\ made[k].stp = r.stp /\ made[k].calendar = r.calendar
    BY <1>1
  <2>2. PICK r \in recs[s] :
          /\ Length(r) # 0 /\ MadeFrom(made[k], r, removes) /\ r \in Record
          /\ made[k].id = r.id /\ made[k].tuid = r.tuid
          /\ made[k].stp = r.stp /\ made[k].calendar = r.calendar
    BY <2>1
  <2>3. PICK t \in Streams : \E q \in recs[t] :
          /\ Length(q) # 0 /\ MadeFrom(made[l], q, removes) /\ q \in Record
          /\ made[l].id = q.id /\ made[l].tuid = q.tuid
          /\ made[l].stp = q.stp /\ made[l].calendar = q.calendar
    BY <1>1
  <2>4. PICK q \in recs[t] :
          /\ Length(q) # 0 /\ MadeFrom(made[l], q, removes) /\ q \in Record
          /\ made[l].id = q.id /\ made[l].tuid = q.tuid
          /\ made[l].stp = q.stp /\ made[l].calendar = q.calendar
    BY <2>3
  <2>5. s = t => GoesFirst(r, q)
    BY <1>2, <2>2, <2>4 DEF Making
  <2>6. Descending[r.stp] \in 1 .. 4 /\ Descending[q.stp] \in 1 .. 4 /\ r.id \in Int /\ q.id \in Int
    BY <2>2, <2>4, DescendingIsANumber DEF Record
  <2>7. r.id # q.id
    <3>1. ASSUME r.id = q.id PROVE s = t /\ r = q
      BY ONLY AreRead(recs), <3>1, OneRecordOf
    <3> QED BY <2>5, <2>6, <3>1 DEF GoesFirst
  <2>8. ASSUME r.tuid = q.tuid
        PROVE  /\ Rank(r.stp) <= Rank(q.stp)
               /\ r.stp = q.stp => r.calendar.from # q.calendar.from
    <3>1. s = t
      BY <2>8 DEF AreRead, IsOfZTrains, Streams
    <3>2. Descending[r.stp] <= Descending[q.stp]
      BY <2>5, <2>6, <3>1 DEF GoesFirst
    <3>3. Rank(r.stp) = Descending[r.stp] /\ Rank(q.stp) = Descending[q.stp]
      BY <2>2, <2>4 DEF Rank, Descending, Record, STP
    <3>4. r # q
      BY <2>7
    <3>5. r.stp = q.stp => r.calendar.from # q.calendar.from
      BY <2>8, <3>1, <3>4 DEF AreRead, IsATable
    <3> QED BY <3>2, <3>3, <3>5
  <2> QED BY <2>2, <2>4, <2>7, <2>8
<1> QED BY <1>1, <1>2

(* There are no more schedules than records. *)
LEMMA MadeAreFew ==
  ASSUME NEW recs, AreRead(recs), NEW removes, NEW left, NEW how, NEW made,
         Making(recs, removes, left, how, made)
  PROVE  Len(made) \in Nat /\ Len(made) <= MaxSchedules
<1> DEFINE all == recs["schedule"] \cup recs["z_schedule"]
           idOf == [r \in all |-> r.id]
           ids == {idOf[r] : r \in DOMAIN idOf}
           place == [k \in 1 .. Len(made) |-> made[k].id]
<1>1. Len(made) \in Nat
  BY SequenceHas DEF Making
<1>2. IsFiniteSet(all) /\ Cardinality(all) <= MaxSchedules
  <2>1. IsFiniteSet(recs["schedule"]) /\ IsFiniteSet(recs["z_schedule"])
    BY DEF AreRead, IsATable, Streams
  <2>2. /\ IsFiniteSet(all)
        /\ Cardinality(all) = Cardinality(recs["schedule"]) + Cardinality(recs["z_schedule"])
                                - Cardinality(recs["schedule"] \cap recs["z_schedule"])
    BY <2>1, FS_Union
  <2>3. Cardinality(recs["schedule"] \cap recs["z_schedule"]) \in Nat
    BY <2>1, FS_Intersection, FS_CardinalityType
  <2>4. Cardinality(recs["schedule"]) + Cardinality(recs["z_schedule"]) <= MaxSchedules
    BY DEF AreRead
  <2>5. Cardinality(recs["schedule"]) \in Nat /\ Cardinality(recs["z_schedule"]) \in Nat
    BY <2>1, FS_CardinalityType
  <2> HIDE DEF all
  <2> QED BY <2>2, <2>3, <2>4, <2>5, MaxSchedulesAssumption
<1>3. IsFiniteSet(ids) /\ Cardinality(ids) <= Cardinality(all)
  <2>1. DOMAIN idOf = all
    OBVIOUS
  <2> HIDE DEF all, idOf
  <2> QED BY <1>2, <2>1, ImagesAreFinite
<1>4. \A k \in 1 .. Len(made) : made[k].id \in ids
  <2> SUFFICES ASSUME NEW k \in 1 .. Len(made) PROVE made[k].id \in ids
    OBVIOUS
  <2>1. PICK s \in Streams : \E r \in recs[s] : made[k].id = r.id
    BY MadeOnce
  <2>2. PICK r \in recs[s] : made[k].id = r.id
    BY <2>1
  <2>3. r \in all
    BY DEF Streams
  <2> HIDE DEF all
  <2> QED BY <2>2, <2>3
<1>5. place \in Injection(1 .. Len(made), ids)
  <2> HIDE DEF ids
  <2>1. place \in [1 .. Len(made) -> ids]
    BY <1>4
  <2>2. \A k, l \in 1 .. Len(made) : k # l => place[k] # place[l]
    <3>1. \A k, l \in 1 .. Len(made) : k < l => made[k].id # made[l].id
      BY MadeOnce
    <3>2. \A k, l \in 1 .. Len(made) : k = l \/ k < l \/ l < k
      OBVIOUS
    <3> QED BY <3>1, <3>2
  <2> HIDE DEF place
  <2> QED BY <2>1, <2>2 DEF Injection, IsInjective
<1>6. Cardinality(1 .. Len(made)) <= Cardinality(ids)
  <2> HIDE DEF ids, place
  <2> QED BY <1>3, <1>5, FS_Injection
<1>7. Cardinality(1 .. Len(made)) = Len(made)
  <2>1. Cardinality(1 .. Len(made)) = IF 1 > Len(made) THEN 0 ELSE Len(made) - 1 + 1
    BY <1>1, FS_Interval
  <2> HIDE DEF ids, all, place
  <2> QED BY <1>1, <2>1
<1>8. Cardinality(ids) \in Nat /\ Cardinality(all) \in Nat
  BY <1>2, <1>3, FS_CardinalityType
<1> HIDE DEF ids, all
<1> QED BY <1>1, <1>2, <1>3, <1>6, <1>7, <1>8, MaxSchedulesAssumption

(***************************************************************************)
(* The builder, in each state of the run.                                  *)
(***************************************************************************)
Recs == [stream \in Streams |-> RecordsOf(stream)]

Indexed(f) == f = [stream \in Streams |-> f[stream]]

AllIsRead ==
  /\ tables["schedule"] = {} =>
       built = <<>> /\ \A stream \in Streams : outcome[stream] = "rejected"
  /\ tables["schedule"] # {} =>
       /\ \A stream \in Streams :
            IsReading(Recs[stream], removePassingPoints, rows[stream], cursors[stream], outcome[stream])
       /\ Making(Recs, removePassingPoints, rows, outcome, built)

BuilderInv ==
  /\ tables \in Timetables
  /\ Indexed(rows) /\ Indexed(cursors) /\ Indexed(outcome)
  /\ AllIsRead

(* The records at hand are as assumed, *)
LEMMA RecsAreRead == ASSUME Given PROVE AreRead(Recs)
<1>1. /\ Recs["schedule"] = RecordsOf("schedule") /\ Recs["z_schedule"] = RecordsOf("z_schedule")
      /\ \A stream \in Streams : Recs[stream] = RecordsOf(stream)
  BY DEF Recs, Streams
<1> QED BY <1>1, RecordsAre DEF AreRead

(* and stay so. *)
LEMMA RecsStay == ASSUME tables' = tables PROVE Recs' = Recs
<1>1. LastSchedule' = LastSchedule
  BY DEF LastSchedule
<1>2. ASSUME NEW stream \in Streams PROVE RecordsOf(stream)' = RecordsOf(stream)
  <2>1. \A record : ZTrain(record)' = ZTrain(record)
    BY <1>1 DEF ZTrain
  <2> QED BY <2>1 DEF RecordsOf
<1> QED BY <1>2 DEF Recs

(* Nothing is read at first. *)
LEMMA BuilderStarts == ASSUME BuilderInit PROVE BuilderInv
<1>1. tables \in Timetables /\ Indexed(rows) /\ Indexed(cursors) /\ Indexed(outcome)
  BY DEF BuilderInit, Indexed
<1>2. CASE tables["schedule"] = {}
  BY <1>1, <1>2 DEF BuilderInit, BuilderInv, AllIsRead
<1>3. CASE tables["schedule"] # {}
  <2>1. Given /\ AreRead(Recs)
    BY <1>1, <1>3, RecsAreRead DEF Given
  <2>2. ASSUME NEW stream \in Streams
        PROVE  /\ IsATable(Recs[stream])
               /\ rows[stream] = Query(Recs[stream])
               /\ cursors[stream] = NewCursor
               /\ outcome[stream] = "loading"
    <3>1. rows[stream] = Query(Recs[stream])
      BY <1>3 DEF BuilderInit, RowsOfQuery, Query, AllRows, Recs
    <3> QED BY <1>3, <2>1, <3>1 DEF BuilderInit, AreRead
  <2>3. ASSUME NEW stream \in Streams
        PROVE  /\ Read(Recs[stream], rows[stream]) = 0
               /\ IsReading(Recs[stream], removePassingPoints, rows[stream], cursors[stream], outcome[stream])
               /\ \A record \in Recs[stream] :
                    ~IsOver(Recs[stream], record, rows[stream], outcome[stream])
    <3>1. PICK q : q = Query(Recs[stream])
      OBVIOUS
    <3>2. IsSeq(q) /\ Len(q) \in Nat
      BY <2>2, <3>1, QueryIs, OfItsMembers
    <3>3. rows[stream] = q /\ Read(Recs[stream], q) = 0
      BY <2>2, <3>1, <3>2 DEF Read
    <3>4. \A record \in Recs[stream] :
            Length(record) # 0 => Ends(Recs[stream], record) \in Nat \ {0}
      BY <2>2, RowsOfOneRecord DEF Ends
    <3>5. \A record \in Recs[stream] :
            ~IsOver(Recs[stream], record, rows[stream], outcome[stream])
      BY <3>3, <3>4 DEF IsOver
    <3>6. ASSUME NEW record \in Recs[stream], Offset(Recs[stream], record) < 0,
                 0 <= Ends(Recs[stream], record)
          PROVE  FALSE
      <4>1. Offset(Recs[stream], record) \in Nat
        BY <2>2, <3>6, CoveredOnce DEF Covers
      <4> QED BY <3>6, <4>1
    <3>7. \A i \in 1 .. Len(q) : q[i] = q[0 + i]
      OBVIOUS
    <3> QED BY <2>2, <3>1, <3>2, <3>3, <3>5, <3>6, <3>7 DEF IsReading
  <2>4. IsSeq(built) /\ Len(built) = 0
    BY DEF BuilderInit, IsSeq
  <2>5. Making(Recs, removePassingPoints, rows, outcome, built)
    <3>1. \A k : k \notin 1 .. Len(built)
      BY <2>4
    <3> QED BY <2>3, <2>4, <3>1 DEF Making
  <2> QED BY <1>1, <1>3, <2>3, <2>5 DEF BuilderInv, AllIsRead
<1> QED BY <1>2, <1>3

(* One stream takes a step. *)
LEMMA StreamSteps ==
  ASSUME BuilderInv, NEW stream \in Streams, outcome[stream] = "loading",
         UNCHANGED <<tables, removePassingPoints>>,
         Indexed(rows'), Indexed(cursors'), Indexed(outcome'),
         \A each \in Streams \ {stream} :
           /\ rows'[each] = rows[each]
           /\ cursors'[each] = cursors[each]
           /\ outcome'[each] = outcome[each],
         NEW added, built' = built \o added,
         IsReading(Recs[stream], removePassingPoints, rows'[stream], cursors'[stream], outcome'[stream]),
         Adds(Recs[stream], removePassingPoints, added, rows[stream], outcome[stream],
              rows'[stream], outcome'[stream])
  PROVE  BuilderInv'
<1>1. tables["schedule"] # {} /\ Given
  BY DEF BuilderInv, AllIsRead, Given
<1>2. AreRead(Recs) /\ Recs' = Recs
  BY <1>1, RecsAreRead, RecsStay
<1>3. Making(Recs, removePassingPoints, rows', outcome', built \o added)
  <2>1. Making(Recs, removePassingPoints, rows, outcome, built)
    BY <1>1 DEF BuilderInv, AllIsRead
  <2>2. PICK after, then : after = rows' /\ then = outcome'
    OBVIOUS
  <2>3. \A each \in Streams \ {stream} : after[each] = rows[each] /\ then[each] = outcome[each]
    BY <2>2
  <2>4. Adds(Recs[stream], removePassingPoints, added, rows[stream], outcome[stream],
             after[stream], then[stream])
    BY <2>2
  <2>5. Making(Recs, removePassingPoints, after, then, built \o added)
    BY ONLY <1>2, <2>1, <2>3, <2>4, MakingGoesOn
  <2> QED BY <2>2, <2>5
<1>4. ASSUME NEW each \in Streams
      PROVE  IsReading(Recs[each], removePassingPoints, rows'[each], cursors'[each], outcome'[each])
  <2>1. CASE each = stream
    BY <2>1
  <2>2. CASE each # stream
    BY <1>1, <2>2 DEF BuilderInv, AllIsRead
  <2> QED BY <2>1, <2>2
<1>5. AllIsRead'
  BY <1>1, <1>2, <1>3, <1>4 DEF AllIsRead
<1> QED BY <1>5 DEF BuilderInv

(* Nor when the builder does nothing. *)
LEMMA NothingIsRead == ASSUME BuilderInv, UNCHANGED builderVars PROVE BuilderInv'
<1>1. UNCHANGED <<tables, removePassingPoints, rows, cursors, built, outcome>>
  BY DEF builderVars
<1>2. Recs' = Recs
  BY <1>1, RecsStay
<1> QED BY <1>1, <1>2 DEF BuilderInv, AllIsRead, Indexed

(* Nothing changes a sequence when it is added. *)
LEMMA NothingIsAdded ==
  ASSUME NEW made, IsSeq(made) PROVE made \o <<>> = made
<1>1. made \in Seq(Range(made))
  BY DEF IsSeq
<1> QED BY <1>1

(* Each step of the builder keeps its invariant: a row, the end of the rows, a failure. *)
LEMMA BuilderSteps == ASSUME BuilderInv, BuilderNext PROVE BuilderInv'
<1>1. PICK stream \in Streams :
        ProcessRow(stream) \/ RowThrows(stream) \/ EndOfRows(stream) \/ QueryFails(stream)
  BY DEF BuilderNext
<1> DEFINE records == Recs[stream]
           left == rows[stream]
           cursor == cursors[stream]
<1>2. outcome[stream] = "loading" /\ UNCHANGED <<tables, removePassingPoints>>
  BY <1>1 DEF ProcessRow, RowThrows, EndOfRows, QueryFails, Arrives, Loading
<1>3. /\ IsATable(records)
      /\ IsReading(records, removePassingPoints, left, cursor, "loading")
      /\ IsSeq(built)
  <2>1. tables["schedule"] # {} /\ Given
    BY <1>2 DEF BuilderInv, AllIsRead, Given
  <2>2. AreRead(Recs)
    BY <2>1, RecsAreRead
  <2> QED BY <1>2, <2>1, <2>2 DEF BuilderInv, AllIsRead, AreRead, Making
<1>4. DOMAIN rows = Streams /\ DOMAIN cursors = Streams /\ DOMAIN outcome = Streams
  BY DEF BuilderInv, Indexed
<1>5. /\ rows = [each \in Streams |-> rows[each]]
      /\ cursors = [each \in Streams |-> cursors[each]]
      /\ outcome = [each \in Streams |-> outcome[each]]
  BY DEF BuilderInv, Indexed
<1>6. CASE ProcessRow(stream) \/ RowThrows(stream)
  <2> DEFINE added == IF Starts(cursor, Head(left)) THEN Flush(cursor, removePassingPoints) ELSE <<>>
             then == IF ProcessRow(stream) THEN "loading" ELSE "rejected"
             hand == IF ProcessRow(stream) THEN Processed(cursor, Head(left), removePassingPoints)
                     ELSE cursor
  <2>1. /\ left # <<>> /\ rows' = [rows EXCEPT ![stream] = Tail(left)]
        /\ built' = IF Starts(cursor, Head(left))
                    THEN built \o Flush(cursor, removePassingPoints) ELSE built
    BY <1>6 DEF ProcessRow, RowThrows, Arrives, Row
  <2>2. built' = built \o added
    <3>1. built \o <<>> = built
      BY <1>3, NothingIsAdded
    <3> QED BY <2>1, <3>1
  <2>3. /\ cursors' = [cursors EXCEPT ![stream] = hand]
        /\ outcome' = [outcome EXCEPT ![stream] = then]
    <3>1. CASE ProcessRow(stream)
      <4>1. cursors' = [cursors EXCEPT ![stream] = hand] /\ outcome' = outcome
        BY <3>1 DEF ProcessRow, Row
      <4>2. then = outcome[stream]
        BY <1>2, <3>1
      <4>3. outcome = [outcome EXCEPT ![stream] = outcome[stream]]
        BY <1>4, <1>5
      <4> QED BY <4>1, <4>2, <4>3
    <3>2. CASE ~ProcessRow(stream)
      <4>1. cursors' = cursors /\ outcome' = [outcome EXCEPT ![stream] = "rejected"]
        BY <1>6, <3>2 DEF RowThrows
      <4>2. cursors = [cursors EXCEPT ![stream] = cursors[stream]]
        BY <1>4, <1>5
      <4> QED BY <3>2, <4>1, <4>2
    <3> QED BY <3>1, <3>2
  <2>4. /\ IsReading(records, removePassingPoints, Tail(left), hand, then)
        /\ Adds(records, removePassingPoints, added, left, "loading", Tail(left), then)
    <3>1. /\ IsReading(records, removePassingPoints, Tail(left),
                       Processed(cursor, Head(left), removePassingPoints), "loading")
          /\ \A any : IsReading(records, removePassingPoints, Tail(left), any, "rejected")
          /\ \A how \in {"loading", "rejected"} :
               Adds(records, removePassingPoints, added, left, "loading", Tail(left), how)
      <4> HIDE DEF records, left, cursor
      <4> QED BY ONLY <1>3, <2>1, RowArrives DEF added
    <3> HIDE DEF records, left, cursor, added
    <3> QED BY <3>1
  <2> HIDE DEF added, then, hand
  <2>5. /\ Indexed(rows') /\ Indexed(cursors') /\ Indexed(outcome')
        /\ rows'[stream] = Tail(left) /\ cursors'[stream] = hand /\ outcome'[stream] = then
        /\ \A each \in Streams \ {stream} :
             /\ rows'[each] = rows[each]
             /\ cursors'[each] = cursors[each]
             /\ outcome'[each] = outcome[each]
    BY <1>4, <2>1, <2>3 DEF Indexed
  <2> QED BY <1>2, <2>2, <2>4, <2>5, StreamSteps
<1>7. CASE EndOfRows(stream)
  <2>1. /\ left = <<>> /\ built' = built \o Flush(cursor, removePassingPoints)
        /\ rows' = rows /\ cursors' = [cursors EXCEPT ![stream] = NewCursor]
        /\ outcome' = [outcome EXCEPT ![stream] = "resolved"]
    BY <1>7 DEF EndOfRows
  <2>2. /\ \A any : IsReading(records, removePassingPoints, left, any, "resolved")
        /\ Adds(records, removePassingPoints, Flush(cursor, removePassingPoints),
                left, "loading", left, "resolved")
    <3> HIDE DEF records, left, cursor
    <3> QED BY ONLY <1>3, <2>1, RowsEnd
  <2>3. /\ Indexed(rows') /\ Indexed(cursors') /\ Indexed(outcome')
        /\ rows'[stream] = left /\ outcome'[stream] = "resolved"
        /\ \A each \in Streams \ {stream} :
             /\ rows'[each] = rows[each]
             /\ cursors'[each] = cursors[each]
             /\ outcome'[each] = outcome[each]
    BY <1>4, <1>5, <2>1 DEF Indexed
  <2> QED BY <1>2, <2>1, <2>2, <2>3, StreamSteps
<1>8. CASE QueryFails(stream)
  <2>1. /\ outcome' = [outcome EXCEPT ![stream] = "rejected"]
        /\ rows' = rows /\ cursors' = cursors /\ built' = built
    BY <1>8 DEF QueryFails
  <2>2. /\ IsReading(records, removePassingPoints, left, cursor, "rejected")
        /\ Adds(records, removePassingPoints, <<>>, left, "loading", left, "rejected")
    <3> HIDE DEF records, left, cursor
    <3>1. IsReading(records, removePassingPoints, left, cursor, "rejected")
      BY <1>3 DEF IsReading
    <3> QED BY <3>1 DEF Adds, IsOver
  <2>3. /\ Indexed(rows') /\ Indexed(cursors') /\ Indexed(outcome')
        /\ rows'[stream] = left /\ cursors'[stream] = cursor /\ outcome'[stream] = "rejected"
        /\ \A each \in Streams \ {stream} :
             /\ rows'[each] = rows[each]
             /\ cursors'[each] = cursors[each]
             /\ outcome'[each] = outcome[each]
    BY <1>4, <1>5, <2>1 DEF Indexed
  <2>4. built' = built \o <<>>
    BY <1>3, <2>1, NothingIsAdded
  <2> QED BY <1>2, <2>2, <2>3, <2>4, StreamSteps
<1> QED BY <1>1, <1>6, <1>7, <1>8

(***************************************************************************)
(* The schedules taken so far are the first of those built, and none is    *)
(* taken before they all are.                                              *)
(***************************************************************************)
Mirrors ==
  /\ IsSeq(schedules)
  /\ Len(schedules) <= Len(built)
  /\ \A k \in 1 .. Len(schedules) :
       /\ schedules[k].tuid = built[k].tuid
       /\ schedules[k].stp = built[k].stp
       /\ schedules[k].calendar = built[k].calendar
  /\ schedules # <<>> => AllLoaded

AllInv == BuilderInv /\ Mirrors

(* Nothing is taken at first. *)
LEMMA AllStarts == ASSUME AllInit PROVE Init /\ AllInv
<1>1. schedules = <<>> /\ built = <<>>
  BY DEF AllInit, Init, BuilderInit
<1>2. Mirrors
  BY <1>1 DEF Mirrors, IsSeq
<1> QED BY <1>2, BuilderStarts DEF AllInit, AllInv

(* Once everything is loaded, there is no row to come. *)
LEMMA LoadedIsAll == ASSUME AllLoaded PROVE ~BuilderNext
BY DEF AllLoaded, BuilderNext, ProcessRow, RowThrows, EndOfRows, QueryFails, Arrives, Loading

(* What is built when all is loaded is what the overlays may be given. *)
LEMMA BuiltInOrder ==
  ASSUME BuilderInv, AllLoaded
  PROVE  /\ IsSeq(built) /\ Len(built) \in Nat /\ Len(built) <= MaxSchedules
         /\ \A k \in 1 .. Len(built) :
              built[k].tuid \in Tuids /\ built[k].stp \in STP /\ built[k].calendar \in Calendars
         /\ \A k, l \in 1 .. Len(built) : k < l =>
              /\ built[k].id # built[l].id
              /\ built[k].tuid = built[l].tuid =>
                   /\ Rank(built[k].stp) <= Rank(built[l].stp)
                   /\ built[k].stp = built[l].stp => built[k].calendar.from # built[l].calendar.from
<1>1. tables["schedule"] # {} /\ Given
  BY DEF BuilderInv, AllIsRead, Given, AllLoaded, Streams
<1>2. AreRead(Recs)
  BY <1>1, RecsAreRead
<1>3. Making(Recs, removePassingPoints, rows, outcome, built)
  BY <1>1 DEF BuilderInv, AllIsRead
<1>4. Len(built) \in Nat /\ Len(built) <= MaxSchedules
  BY <1>2, <1>3, MadeAreFew
<1>5. /\ \A k \in 1 .. Len(built) : \E s \in Streams : \E r \in Recs[s] :
              /\ r \in Record
              /\ built[k].tuid = r.tuid
              /\ built[k].stp = r.stp /\ built[k].calendar = r.calendar
      /\ \A k, l \in 1 .. Len(built) : k < l =>
              /\ built[k].id # built[l].id
              /\ built[k].tuid = built[l].tuid =>
                   /\ Rank(built[k].stp) <= Rank(built[l].stp)
                   /\ built[k].stp = built[l].stp => built[k].calendar.from # built[l].calendar.from
  BY <1>2, <1>3, MadeOnce
<1>6. \A k \in 1 .. Len(built) :
        built[k].tuid \in Tuids /\ built[k].stp \in STP /\ built[k].calendar \in Calendars
  BY <1>5 DEF Record
<1> QED BY <1>3, <1>4, <1>5, <1>6 DEF Making

(* So the schedule taken next is one Overlays may take next. *)
LEMMA Taken ==
  ASSUME AllInv, TakeSchedule
  PROVE  NextSchedule /\ (UNCHANGED builderVars => Mirrors')
<1> DEFINE n == Len(schedules)
           next == built[n + 1]
           schedule == [id |-> n + 1, tuid |-> next.tuid, stp |-> next.stp, calendar |-> next.calendar]
<1>1. /\ AllLoaded /\ phase = "next" /\ n < Len(built)
      /\ schedules' = Append(schedules, schedule)
      /\ phase' = "overlay" /\ at' = 1 /\ UNCHANGED index
  BY DEF TakeSchedule
<1>2. /\ IsSeq(built) /\ Len(built) \in Nat /\ Len(built) <= MaxSchedules
      /\ \A k \in 1 .. Len(built) :
           built[k].tuid \in Tuids /\ built[k].stp \in STP /\ built[k].calendar \in Calendars
      /\ \A k, l \in 1 .. Len(built) : k < l =>
           /\ built[k].tuid = built[l].tuid =>
                /\ Rank(built[k].stp) <= Rank(built[l].stp)
                /\ built[k].stp = built[l].stp => built[k].calendar.from # built[l].calendar.from
  BY <1>1, BuiltInOrder DEF AllInv
<1>3. /\ n \in Nat /\ n + 1 \in 1 .. Len(built) /\ n < MaxSchedules
      /\ \A k \in 1 .. n : k \in 1 .. Len(built) /\ k < n + 1
  <2>1. n \in Nat
    BY SequenceHas DEF AllInv, Mirrors
  <2> HIDE DEF n
  <2> QED BY <1>1, <1>2, <2>1, MaxSchedulesAssumption
<1>4. MayFollow(schedule)
  <2> SUFFICES ASSUME NEW k \in 1 .. n, schedules[k].tuid = next.tuid
               PROVE  /\ Rank(schedules[k].stp) <= Rank(next.stp)
                      /\ schedules[k].stp = next.stp => schedules[k].calendar.from # next.calendar.from
    BY DEF MayFollow
  <2>1. /\ schedules[k].tuid = built[k].tuid
        /\ schedules[k].stp = built[k].stp
        /\ schedules[k].calendar = built[k].calendar
    BY DEF AllInv, Mirrors
  <2> QED BY <1>2, <1>3, <2>1
<1>5. NextSchedule
  <2>1. next.tuid \in Tuids /\ next.stp \in STP /\ next.calendar \in Calendars
    BY <1>2, <1>3
  <2> QED BY <1>1, <1>3, <1>4, <2>1 DEF NextSchedule
<1>6. ASSUME UNCHANGED builderVars PROVE Mirrors'
  <2>1. built' = built /\ AllLoaded'
    BY <1>1, <1>6 DEF builderVars, AllLoaded
  <2>2. PICK after : after = schedules'
    OBVIOUS
  <2>3. /\ IsSeq(after) /\ Len(after) = n + 1
        /\ \A k \in 1 .. n : after[k] = schedules[k]
        /\ after[n + 1] = schedule
    BY <1>1, <2>2, AppendHas DEF AllInv, Mirrors, Appended
  <2>4. \A k \in 1 .. Len(after) :
          /\ after[k].tuid = built[k].tuid
          /\ after[k].stp = built[k].stp
          /\ after[k].calendar = built[k].calendar
    <3> SUFFICES ASSUME NEW k \in 1 .. Len(after)
                 PROVE  /\ after[k].tuid = built[k].tuid
                        /\ after[k].stp = built[k].stp
                        /\ after[k].calendar = built[k].calendar
      OBVIOUS
    <3>1. CASE k \in 1 .. n
      BY <2>3, <3>1 DEF AllInv, Mirrors
    <3>2. CASE k = n + 1
      BY <2>3, <3>2
    <3> QED BY <1>3, <2>3, <3>1, <3>2
  <2>5. Len(after) <= Len(built)
    BY <1>3, <2>3
  <2> QED BY <2>1, <2>2, <2>3, <2>4, <2>5 DEF Mirrors
<1> QED BY <1>5, <1>6

(* Each step of the whole is a step of Overlays, or none. *)
LEMMA AllSteps ==
  ASSUME AllInv, [AllNext]_<<vars, builderVars>>
  PROVE  [Next]_vars /\ AllInv'
<1>1. CASE LoadRows
  <2>1. BuilderInv' /\ UNCHANGED vars /\ schedules = <<>> /\ schedules' = schedules
    BY <1>1, BuilderSteps, LoadedIsAll DEF LoadRows, AllInv, Mirrors, vars
  <2>2. Len(built') \in Nat
    <3>1. PICK made : made = built'
      OBVIOUS
    <3>2. CASE tables'["schedule"] = {}
      BY <2>1, <3>2 DEF BuilderInv, AllIsRead
    <3>3. CASE tables'["schedule"] # {}
      <4>1. IsSeq(made)
        BY <2>1, <3>1, <3>3 DEF BuilderInv, AllIsRead, Making
      <4> QED BY <3>1, <4>1, SequenceHas
    <3> QED BY <3>2, <3>3
  <2>3. Mirrors'
    BY <2>1, <2>2 DEF Mirrors, IsSeq
  <2> QED BY <2>1, <2>3 DEF AllInv
<1>2. ASSUME UNCHANGED builderVars, UNCHANGED schedules PROVE AllInv'
  <2>1. BuilderInv'
    BY <1>2, NothingIsRead DEF AllInv
  <2>2. Mirrors'
    BY <1>2 DEF AllInv, Mirrors, builderVars, AllLoaded
  <2> QED BY <2>1, <2>2 DEF AllInv
<1>3. CASE Overlay /\ UNCHANGED builderVars
  <2>1. CASE TakeSchedule
    <3>1. NextSchedule /\ Mirrors'
      BY <1>3, <2>1, Taken
    <3>2. BuilderInv'
      BY <1>3, NothingIsRead DEF AllInv
    <3> QED BY <3>1, <3>2 DEF AllInv, Next
  <2>2. CASE KeepBase \/ ExcludeFromBase \/ DropBase \/ AddToIndex \/ EndOfSchedules
    <3>1. UNCHANGED schedules
      BY <2>2 DEF KeepBase, ExcludeFromBase, DropBase, AddToIndex, EndOfSchedules, Return
    <3>2. Next
      BY <2>2 DEF Next, EndOfSchedules
    <3> QED BY <1>2, <1>3, <3>1, <3>2
  <2> QED BY <1>3, <2>1, <2>2 DEF Overlay
<1>4. CASE UNCHANGED <<vars, builderVars>>
  BY <1>2, <1>4 DEF vars
<1> QED BY <1>1, <1>3, <1>4 DEF AllNext, Ended

(***************************************************************************)
(* However the rows of the two streams take turns, and whichever of them   *)
(* fails, what applyOverlays is given comes in the order it relies on: the *)
(* whole implements Overlays.                                              *)
(***************************************************************************)
THEOREM BuiltInTheirOrder == AllSpec => OverlaysGetTheirOrder
<1>1. AllInit => Init /\ AllInv
  BY AllStarts
<1>2. AllInv /\ [AllNext]_<<vars, builderVars>> => [Next]_vars /\ AllInv'
  BY AllSteps
<1> QED BY <1>1, <1>2, PTL DEF AllSpec, OverlaysGetTheirOrder, Spec

(***************************************************************************)
(* So what the overlays promise holds of the schedules built of any tables *)
(* there may be, and not only of those that come in order by assumption.   *)
(***************************************************************************)
THEOREM BuiltOverlaysAreSafe == AllSpec => [](TypeOK /\ NoDayLost /\ TwiceOnlyPastADrop)
<1>1. Spec => [](TypeOK /\ NoDayLost /\ TwiceOnlyPastADrop)
  BY TypeInvariant, NoDayIsLost, TwiceMeansADrop, PTL
<1> QED BY <1>1, BuiltInTheirOrder, PTL DEF OverlaysGetTheirOrder

-----------------------------------------------------------------------------
(***************************************************************************)
(* 5. The places of a record.                                              *)
(***************************************************************************)

(***************************************************************************)
(* What the places of a record come to with one timing point more, past    *)
(* all others: another place, or more of the last.                         *)
(***************************************************************************)
Elsewhere(record, those, p) ==
  \A k \in those : (\A j \in those : j <= k) => record.locations[k].crs # record.locations[p].crs

(* No timing points, no places. *)
LEMMA PlacesOfNone ==
  ASSUME NEW record
  PROVE  NewPlaces(record, {}) = {} /\ Cardinality(NewPlaces(record, {})) = 0
<1>1. NewPlaces(record, {}) = {}
  BY DEF NewPlaces
<1> QED BY <1>1, FS_EmptySet

(* The last timing point is in the last place. *)
LEMMA PlacesAre ==
  ASSUME NEW record, NEW those \in SUBSET Nat, IsFiniteSet(those)
  PROVE  /\ IsFiniteSet(NewPlaces(record, those))
         /\ Cardinality(NewPlaces(record, those)) \in Nat
         /\ those # {} =>
              /\ Cardinality(NewPlaces(record, those)) # 0
              /\ \E last \in those :
                   /\ \A j \in those : j <= last
                   /\ last \in At(record, those, Cardinality(NewPlaces(record, those)))
<1> DEFINE new == NewPlaces(record, those)
<1>1. new \in SUBSET those
  BY DEF NewPlaces
<1>2. IsFiniteSet(new) /\ Cardinality(new) \in Nat
  BY <1>1, FS_Subset, FS_CardinalityType
<1>3. ASSUME those # {}
      PROVE  /\ Cardinality(new) # 0
             /\ \E last \in those : (\A j \in those : j <= last) /\ last \in At(record, those, Cardinality(new))
  <2>1. PICK first \in those : \A j \in those : first <= j
    BY <1>3, LeastExists
  <2>2. first \in new
    BY <2>1 DEF NewPlaces
  <2>3. Cardinality(new) # 0
    BY <1>2, <2>2, FS_EmptySet
  <2>4. those \in SUBSET Int
    OBVIOUS
  <2>5. PICK last \in those : \A j \in those : j <= last
    BY <1>3, <2>4, MaxIsGreatest
  <2>6. {j \in new : j <= last} = new
    BY <1>1, <2>5
  <2>7. last \in At(record, those, Cardinality(new))
    BY <2>6 DEF At, PlaceNumber
  <2> QED BY <2>3, <2>5, <2>7
<1> QED BY <1>2, <1>3

(* With one more timing point the n places become n + 1, or stay n. *)
Grows(record, those, p, n, more) ==
  /\ Elsewhere(record, those, p) =>
       /\ Cardinality(NewPlaces(record, more)) = n + 1
       /\ At(record, more, n + 1) = {p}
       /\ \A place \in 1 .. n : At(record, more, place) = At(record, those, place)
  /\ ~Elsewhere(record, those, p) =>
       /\ those # {}
       /\ Cardinality(NewPlaces(record, more)) = n
       /\ At(record, more, n) = At(record, those, n) \cup {p}
       /\ \A place \in 1 .. n - 1 : At(record, more, place) = At(record, those, place)

(* One timing point more opens a place where it is elsewhere than the last. *)
LEMMA OnePlaceMore ==
  ASSUME NEW record, NEW those \in SUBSET Nat, IsFiniteSet(those),
         NEW p \in Nat, \A i \in those : i < p,
         NEW n, n = Cardinality(NewPlaces(record, those)), NEW more, more = those \cup {p}
  PROVE  Grows(record, those, p, n, more)
<1> DEFINE old == NewPlaces(record, those)
           new == NewPlaces(record, more)
<1>1. IsFiniteSet(old) /\ n \in Nat /\ old \subseteq those /\ p \notin those /\ p \notin old
  <2>1. old \subseteq those
    BY DEF NewPlaces
  <2>2. IsFiniteSet(old) /\ Cardinality(old) \in Nat
    <3> HIDE DEF old, new
    <3>1. IsFiniteSet(NewPlaces(record, those)) /\ Cardinality(NewPlaces(record, those)) \in Nat
      BY ONLY those \in SUBSET Nat, IsFiniteSet(those), PlacesAre
    <3> QED BY <3>1 DEF old
  <2>3. p \notin those
    <3>1. ~(p < p)
      OBVIOUS
    <3> QED BY <3>1
  <2> QED BY <2>1, <2>2, <2>3
<1>2. \A i \in those : i \in new <=> i \in old
  <2> SUFFICES ASSUME NEW i \in those
               PROVE  (\A k \in more : k < i /\ (\A j \in more : j <= k \/ i <= j)
                         => record.locations[k].crs # record.locations[i].crs)
                      <=> (\A k \in those : k < i /\ (\A j \in those : j <= k \/ i <= j)
                         => record.locations[k].crs # record.locations[i].crs)
    BY DEF NewPlaces
  <2>1. i < p /\ ~(p < i) /\ i <= p
    OBVIOUS
  <2>2. \A k : k \in more <=> k \in those \/ k = p
    OBVIOUS
  <2>3. \A k \in those : (\A j \in more : j <= k \/ i <= j) <=> (\A j \in those : j <= k \/ i <= j)
    BY <2>1, <2>2
  <2> QED BY <2>1, <2>2, <2>3
<1>3. p \in new <=> Elsewhere(record, those, p)
  <2>1. \A k \in those : k < p /\ ((\A j \in more : j <= k \/ p <= j) <=> (\A j \in those : j <= k))
    <3> SUFFICES ASSUME NEW k \in those
                 PROVE  (\A j \in more : j <= k \/ p <= j) <=> (\A j \in those : j <= k)
      OBVIOUS
    <3>1. \A j \in those : ~(p <= j)
      OBVIOUS
    <3>2. p <= p
      OBVIOUS
    <3> QED BY <3>1, <3>2
  <2>2. ~(p < p) /\ p \in more
    OBVIOUS
  <2>3. p \in new <=> \A k \in more : k < p /\ (\A j \in more : j <= k \/ p <= j)
                         => record.locations[k].crs # record.locations[p].crs
    BY <2>2 DEF NewPlaces
  <2>4. \A k : k \in more <=> k \in those \/ k = p
    OBVIOUS
  <2> HIDE DEF new
  <2> QED BY <2>1, <2>2, <2>3, <2>4 DEF Elsewhere
<1>4. new \subseteq those \cup {p}
  BY DEF NewPlaces
<1>5. \A i \in those : PlaceNumber(record, more, i) = PlaceNumber(record, those, i)
  <2> SUFFICES ASSUME NEW i \in those PROVE {j \in new : j <= i} = {j \in old : j <= i}
    BY DEF PlaceNumber
  <2>1. ~(p <= i)
    OBVIOUS
  <2> HIDE DEF new, old
  <2> QED BY <1>1, <1>2, <1>4, <2>1
<1>6. PlaceNumber(record, more, p) = Cardinality(new)
  <2>1. \A j \in those \cup {p} : j <= p
    <3>1. \A j \in those : j \in Nat /\ j < p
      OBVIOUS
    <3> QED BY <3>1
  <2>2. {j \in new : j <= p} = new
    <3> HIDE DEF new
    <3> QED BY <1>4, <2>1
  <2> QED BY <2>2 DEF PlaceNumber
<1>7. \A i \in those : PlaceNumber(record, those, i) <= n /\ PlaceNumber(record, those, i) \in Nat
  <2> SUFFICES ASSUME NEW i \in those
               PROVE  /\ Cardinality({j \in old : j <= i}) <= n
                      /\ Cardinality({j \in old : j <= i}) \in Nat
    BY DEF PlaceNumber
  <2>1. {j \in old : j <= i} \in SUBSET old
    OBVIOUS
  <2> HIDE DEF old
  <2>2. n = Cardinality(old)
    BY DEF old
  <2> QED BY <1>1, <2>1, <2>2, FS_Subset, FS_CardinalityType
<1>8. \A place : At(record, more, place)
                   = At(record, those, place) \cup (IF Cardinality(new) = place THEN {p} ELSE {})
  BY <1>5, <1>6 DEF At
<1>9. \A place : At(record, those, place) # {} => place <= n /\ place \in Nat
  BY <1>7 DEF At
<1>10. CASE Elsewhere(record, those, p)
  <2>1. new = old \cup {p}
    <3> HIDE DEF new, old
    <3> QED BY <1>1, <1>2, <1>3, <1>4, <1>10
  <2>2. Cardinality(new) = n + 1
    <3> HIDE DEF new, old
    <3>1. n = Cardinality(old)
      BY DEF old
    <3> QED BY <1>1, <2>1, <3>1, FS_AddElement
  <2> HIDE DEF new, old
  <2>3. At(record, those, n + 1) = {}
    <3>1. ~(n + 1 <= n)
      BY <1>1
    <3> QED BY <1>9, <3>1
  <2>4. \A place \in 1 .. n : place # n + 1
    BY <1>1
  <2>5. At(record, more, n + 1) = {p}
    BY <1>8, <2>2, <2>3
  <2>6. \A place \in 1 .. n : At(record, more, place) = At(record, those, place)
    BY <1>8, <2>2, <2>4
  <2> QED BY <1>10, <2>2, <2>5, <2>6 DEF new, Grows
<1>11. CASE ~Elsewhere(record, those, p)
  <2>1. new = old
    <3> HIDE DEF new, old
    <3> QED BY <1>1, <1>2, <1>3, <1>4, <1>11
  <2>2. Cardinality(new) = n /\ those # {}
    BY <1>11, <2>1 DEF Elsewhere
  <2> HIDE DEF new, old
  <2>3. \A place \in 1 .. n - 1 : place # n
    BY <1>1
  <2> QED BY <1>8, <1>11, <2>2, <2>3 DEF new, Grows
<1> QED BY <1>10, <1>11

(* The last stop makes way for another, and the others stay. *)
LEMMA LastReplaced ==
  ASSUME NEW s, IsSeq(s), s # <<>>, NEW x
  PROVE  /\ IsSeq(Append(Front(s), x)) /\ Len(Append(Front(s), x)) = Len(s)
         /\ \A i \in 1 .. Len(s) - 1 : Append(Front(s), x)[i] = s[i]
         /\ Append(Front(s), x)[Len(s)] = x
         /\ Last(s) = s[Len(s)] /\ Len(s) \in Nat \ {0}
<1> DEFINE front == SubSeq(s, 1, Len(s) - 1)
<1>1. s \in Seq(Range(s)) /\ Len(s) \in Nat \ {0}
  BY DEF IsSeq
<1>2. /\ front \in Seq(Range(s)) /\ Len(front) = Len(s) - 1
      /\ \A i \in 1 .. Len(s) - 1 : front[i] = s[i]
  <2>1. front = [i \in 1 .. Len(s) - 1 |-> s[i]]
    <3>1. (Len(s) - 1) - 1 + 1 = Len(s) - 1
      BY <1>1
    <3>2. \A i \in 1 .. Len(s) - 1 : s[1 + i - 1] = s[i]
      BY <1>1
    <3> QED BY <1>1
  <2>2. Len(s) - 1 \in Nat /\ \A i \in 1 .. Len(s) - 1 : s[i] \in Range(s)
    <3>1. \A i \in 1 .. Len(s) : s[i] \in Range(s)
      BY SequenceHas
    <3> QED BY <1>1, <3>1
  <2> HIDE DEF front
  <2>3. front \in [1 .. Len(s) - 1 -> Range(s)]
    BY <2>1, <2>2
  <2>4. front \in Seq(Range(s))
    BY <2>2, <2>3
  <2>5. Len(front) = Len(s) - 1
    BY <2>2, <2>3, <2>4
  <2> QED BY <2>1, <2>4, <2>5
<1>3. Front(s) = front
  BY DEF Front
<1> HIDE DEF front
<1>4. IsSeq(front)
  BY <1>2, OfItsMembers
<1>5. Appended(Append(front, x), front, x)
  BY <1>4, AppendHas
<1> QED BY <1>1, <1>2, <1>3, <1>5 DEF Appended, Last

(***************************************************************************)
(* The stops, and the path, of the timing points seen so far.              *)
(***************************************************************************)
IsAStop(stop) ==
  /\ stop = [crs |-> stop.crs, arrival |-> stop.arrival, departure |-> stop.departure,
             passing |-> stop.passing, boards |-> stop.boards, clock |-> stop.clock]
  /\ stop.passing \in BOOLEAN
  /\ stop.arrival \in Int /\ stop.departure \in Int
  /\ stop.clock \in [workingArr : Int, workingDep : Int, publicArr : Int, publicDep : Int]

ServesPlace(stop, record, here) ==
  /\ here # {} /\ \A i \in here : record.locations[i].crs = stop.crs
  /\ stop.boards <=> \E i \in here : record.locations[i].boards
  /\ stop.passing <=> \A i \in here : Passing(record.locations[i])

ServesStops(stops, record, those) ==
  /\ IsSeq(stops)
  /\ Len(stops) = Cardinality(NewPlaces(record, those))
  /\ \A place \in 1 .. Len(stops) :
       IsAStop(stops[place]) /\ ServesPlace(stops[place], record, At(record, those, place))

ServesPath(path, record, those) ==
  /\ IsSeq(path)
  /\ Len(path) = Cardinality(NewPlaces(record, those))
  /\ \A place \in 1 .. Len(path) : \A i \in At(record, those, place) :
       record.locations[i].crs = path[place]

(* Where the last of them is. *)
LEMMA LastPlaceIs ==
  ASSUME NEW record, NEW those \in SUBSET Nat, IsFiniteSet(those), NEW p \in Nat,
         NEW s, IsSeq(s), Len(s) = Cardinality(NewPlaces(record, those)),
         NEW crs, s # <<>> => \A i \in At(record, those, Len(s)) : record.locations[i].crs = crs
  PROVE  Elsewhere(record, those, p) <=> (s = <<>> \/ crs # record.locations[p].crs)
<1>1. s = <<>> <=> Len(s) = 0
  BY DEF IsSeq
<1>2. those = {} => s = <<>>
  BY <1>1, PlacesOfNone
<1>3. CASE those = {}
  BY <1>2, <1>3 DEF Elsewhere
<1>4. CASE those # {}
  <2>1. PICK last \in those : (\A j \in those : j <= last) /\ last \in At(record, those, Len(s))
    BY <1>4, PlacesAre
  <2>2. s # <<>>
    BY <1>1, <1>4, PlacesAre
  <2>3. record.locations[last].crs = crs
    BY <2>1, <2>2
  <2>4. \A k \in those : (\A j \in those : j <= k) => k = last
    BY <2>1
  <2> QED BY <2>1, <2>2, <2>3, <2>4 DEF Elsewhere
<1> QED BY <1>3, <1>4

(* The path takes in one timing point more, *)
LEMMA PathGrows ==
  ASSUME NEW record, NEW those \in SUBSET Nat, IsFiniteSet(those),
         NEW p \in Nat, \A i \in those : i < p, NEW path, ServesPath(path, record, those)
  PROVE  ServesPath(WithPath(path, record.locations[p].crs), record, those \cup {p})
<1> DEFINE n == Len(path)
           crs == record.locations[p].crs
           after == WithPath(path, crs)
<1>1. PICK more : more = those \cup {p}
  OBVIOUS
<1>2. /\ IsSeq(path) /\ n \in Nat /\ n = Cardinality(NewPlaces(record, those))
      /\ path = <<>> <=> n = 0
  BY SequenceHas, PlacesAre DEF ServesPath, IsSeq
<1>3. Elsewhere(record, those, p) <=> (path = <<>> \/ Last(path) # crs)
  <2>1. path # <<>> => n \in 1 .. n
    BY <1>2
  <2>2. path # <<>> => \A i \in At(record, those, n) : record.locations[i].crs = path[n]
    BY <2>1 DEF ServesPath
  <2>3. Elsewhere(record, those, p) <=> (path = <<>> \/ path[n] # crs)
    <3>1. PICK crs0 : crs0 = path[n]
      OBVIOUS
    <3>2. path # <<>> => \A i \in At(record, those, Len(path)) : record.locations[i].crs = crs0
      BY <2>2, <3>1
    <3>3. IsSeq(path) /\ Len(path) = Cardinality(NewPlaces(record, those))
      BY <1>2
    <3> HIDE DEF n, crs
    <3>4. Elsewhere(record, those, p) <=> (path = <<>> \/ crs0 # record.locations[p].crs)
      BY ONLY <3>2, <3>3, those \in SUBSET Nat, IsFiniteSet(those), p \in Nat, LastPlaceIs
    <3> QED BY <3>1, <3>4 DEF crs
  <2> QED BY <2>3 DEF Last
<1>4. CASE Elsewhere(record, those, p)
  <2>1. after = Append(path, crs)
    BY <1>3, <1>4 DEF WithPath
  <2>2. /\ IsSeq(after) /\ Len(after) = n + 1 /\ after[n + 1] = crs
        /\ \A i \in 1 .. n : after[i] = path[i]
    BY <1>2, <2>1, AppendHas DEF Appended
  <2>3. /\ Cardinality(NewPlaces(record, more)) = n + 1
        /\ At(record, more, n + 1) = {p}
        /\ \A place \in 1 .. n : At(record, more, place) = At(record, those, place)
    <3> HIDE DEF n, crs, after
    <3>1. Grows(record, those, p, n, more)
      BY ONLY <1>1, <1>2, <1>4, those \in SUBSET Nat, IsFiniteSet(those), p \in Nat,
              \A i \in those : i < p, OnePlaceMore
    <3> QED BY <1>1, <1>2, <1>4, <3>1 DEF Grows
  <2> HIDE DEF after, crs
  <2>4. ASSUME NEW place \in 1 .. n + 1, NEW i \in At(record, more, place)
        PROVE  record.locations[i].crs = after[place]
    <3>1. CASE place = n + 1
      BY <2>2, <2>3, <2>4, <3>1 DEF crs
    <3>2. CASE place \in 1 .. n
      BY <2>2, <2>3, <2>4, <3>2 DEF ServesPath
    <3> QED BY <1>2, <3>1, <3>2
  <2>5. ServesPath(after, record, more)
    BY <2>2, <2>3, <2>4 DEF ServesPath
  <2> QED BY <1>1, <2>5 DEF after, crs
<1>5. CASE ~Elsewhere(record, those, p)
  <2>1. after = path /\ path # <<>> /\ path[n] = crs
    BY <1>3, <1>5 DEF WithPath, Last
  <2>2. /\ Cardinality(NewPlaces(record, more)) = n
        /\ At(record, more, n) = At(record, those, n) \cup {p}
        /\ \A place \in 1 .. n - 1 : At(record, more, place) = At(record, those, place)
    <3> HIDE DEF n, crs, after
    <3>1. Grows(record, those, p, n, more)
      BY ONLY <1>1, <1>2, <1>5, those \in SUBSET Nat, IsFiniteSet(those), p \in Nat,
              \A i \in those : i < p, OnePlaceMore
    <3> QED BY <1>1, <1>2, <1>5, <3>1 DEF Grows
  <2>3. ASSUME NEW place \in 1 .. n, NEW i \in At(record, more, place)
        PROVE  record.locations[i].crs = path[place]
    <3>1. CASE place = n
      BY <2>1, <2>2, <2>3, <3>1 DEF ServesPath
    <3>2. CASE place \in 1 .. n - 1
      BY <2>2, <2>3, <3>2 DEF ServesPath
    <3> QED BY <1>2, <3>1, <3>2
  <2>4. ServesPath(path, record, more)
    BY <1>2, <2>2, <2>3 DEF ServesPath
  <2> QED BY <1>1, <2>1, <2>4
<1> QED BY <1>4, <1>5

(* and so do the stops: where it takes the last one's place, and where it does not. *)
LEMMA StopsGrow ==
  ASSUME NEW record, NEW those \in SUBSET Nat, IsFiniteSet(those),
         NEW p \in Nat, \A i \in those : i < p,
         \A i \in those \cup {p} : record.locations[i] \in Location,
         NEW stops, ServesStops(stops, record, those),
         NEW stop, IsAStop(stop), stop.crs = record.locations[p].crs,
         stop.passing = Passing(record.locations[p]), stop.boards = record.locations[p].boards
  PROVE  ServesStops(WithStop(stops, stop), record, those \cup {p})
<1> DEFINE n == Len(stops)
           after == WithStop(stops, stop)
           before == stops[n]
<1>1. PICK more : more = those \cup {p}
  OBVIOUS
<1>2. /\ IsSeq(stops) /\ n \in Nat /\ n = Cardinality(NewPlaces(record, those))
      /\ stops = <<>> <=> n = 0
  BY SequenceHas, PlacesAre DEF ServesStops, IsSeq
<1>3. Elsewhere(record, those, p) <=> (stops = <<>> \/ Last(stops).crs # stop.crs)
  <2>1. stops # <<>> => n \in 1 .. n
    BY <1>2
  <2>2. stops # <<>> => \A i \in At(record, those, n) : record.locations[i].crs = before.crs
    BY <2>1 DEF ServesStops, ServesPlace
  <2>3. Elsewhere(record, those, p) <=> (stops = <<>> \/ before.crs # record.locations[p].crs)
    <3>1. PICK crs : crs = before.crs
      OBVIOUS
    <3>2. stops # <<>> => \A i \in At(record, those, Len(stops)) : record.locations[i].crs = crs
      BY <2>2, <3>1
    <3>3. IsSeq(stops) /\ Len(stops) = Cardinality(NewPlaces(record, those))
      BY <1>2
    <3> HIDE DEF before, n
    <3>4. Elsewhere(record, those, p) <=> (stops = <<>> \/ crs # record.locations[p].crs)
      BY ONLY <3>2, <3>3, those \in SUBSET Nat, IsFiniteSet(those), p \in Nat, LastPlaceIs
    <3> QED BY <3>1, <3>4
  <2> QED BY <2>3 DEF Last
<1>4. ASSUME NEW i \in those \cup {p}
      PROVE  record.locations[i].boards \in BOOLEAN /\ Passing(record.locations[i]) \in BOOLEAN
             /\ (Passing(record.locations[i]) => ~record.locations[i].boards)
  BY DEF Location, Passing
<1>5. stop.boards \in BOOLEAN /\ stop.passing \in BOOLEAN /\ (stop.passing => ~stop.boards)
  BY <1>4
<1>6. CASE Elsewhere(record, those, p)
  <2>1. after = Append(stops, stop)
    BY <1>3, <1>6 DEF WithStop
  <2>2. /\ IsSeq(after) /\ Len(after) = n + 1 /\ after[n + 1] = stop
        /\ \A i \in 1 .. n : after[i] = stops[i]
    BY <1>2, <2>1, AppendHas DEF Appended
  <2>3. /\ Cardinality(NewPlaces(record, more)) = n + 1
        /\ At(record, more, n + 1) = {p}
        /\ \A place \in 1 .. n : At(record, more, place) = At(record, those, place)
    <3> HIDE DEF n, after
    <3>1. Grows(record, those, p, n, more)
      BY ONLY <1>1, <1>2, <1>6, those \in SUBSET Nat, IsFiniteSet(those), p \in Nat,
              \A i \in those : i < p, OnePlaceMore
    <3> QED BY <1>1, <1>2, <1>6, <3>1 DEF Grows
  <2>4. ServesPlace(stop, record, {p})
    BY <1>4 DEF ServesPlace
  <2> HIDE DEF after
  <2>5. ASSUME NEW place \in 1 .. n + 1
        PROVE  IsAStop(after[place]) /\ ServesPlace(after[place], record, At(record, more, place))
    <3>1. CASE place = n + 1
      BY <2>2, <2>3, <2>4, <3>1
    <3>2. CASE place \in 1 .. n
      BY <2>2, <2>3, <3>2 DEF ServesStops
    <3> QED BY <1>2, <3>1, <3>2
  <2>6. ServesStops(after, record, more)
    BY <2>2, <2>3, <2>5 DEF ServesStops
  <2> QED BY <1>1, <2>6 DEF after
<1>7. ASSUME ~Elsewhere(record, those, p)
      PROVE  ServesStops(after, record, more)
  <2>1. /\ stops # <<>> /\ before.crs = stop.crs /\ n \in 1 .. n
        /\ IsAStop(before) /\ ServesPlace(before, record, At(record, those, n))
    BY <1>2, <1>3, <1>7 DEF Last, ServesStops
  <2>2. /\ Cardinality(NewPlaces(record, more)) = n
        /\ At(record, more, n) = At(record, those, n) \cup {p}
        /\ \A place \in 1 .. n - 1 : At(record, more, place) = At(record, those, place)
    <3> HIDE DEF n, after
    <3>1. Grows(record, those, p, n, more)
      BY ONLY <1>1, <1>2, <1>7, those \in SUBSET Nat, IsFiniteSet(those), p \in Nat,
              \A i \in those : i < p, OnePlaceMore
    <3> QED BY <1>1, <1>2, <1>7, <3>1 DEF Grows
  <2> DEFINE last == IF TakesThePlaceOf(stop, before) THEN stop ELSE before
             here == At(record, those, n)
  <2>3. /\ IsSeq(after) /\ Len(after) = n /\ after[n] = last
        /\ \A i \in 1 .. n - 1 : after[i] = stops[i]
    <3>1. Last(stops) = before
      BY DEF Last
    <3>2. CASE TakesThePlaceOf(stop, before)
      <4>1. after = Append(Front(stops), stop)
        BY <2>1, <3>1, <3>2 DEF WithStop
      <4>2. /\ IsSeq(Append(Front(stops), stop)) /\ Len(Append(Front(stops), stop)) = Len(stops)
            /\ \A i \in 1 .. Len(stops) - 1 : Append(Front(stops), stop)[i] = stops[i]
            /\ Append(Front(stops), stop)[Len(stops)] = stop
        BY ONLY <1>2, <2>1, LastReplaced, ZenonT(20)
      <4> HIDE DEF after
      <4> QED BY <3>2, <4>1, <4>2
    <3>3. CASE ~TakesThePlaceOf(stop, before)
      <4>1. after = stops
        BY <2>1, <3>1, <3>3 DEF WithStop
      <4> QED BY <1>2, <3>3, <4>1
    <3> QED BY <3>2, <3>3
  <2>4. here \subseteq those
    BY DEF At
  <2>5. ServesPlace(last, record, here \cup {p})
    <3>1. /\ here # {} /\ \A i \in here : record.locations[i].crs = before.crs
          /\ before.boards <=> \E i \in here : record.locations[i].boards
          /\ before.passing <=> \A i \in here : Passing(record.locations[i])
      BY <2>1 DEF ServesPlace
    <3>2. here \cup {p} # {} /\ \A i \in here \cup {p} : record.locations[i].crs = last.crs
      BY <2>1, <3>1
    <3>3. before.passing => ~before.boards
      BY <1>4, <2>4, <3>1
    <3> HIDE DEF here, before
    <3>4. CASE TakesThePlaceOf(stop, before)
      <4>1. last = stop /\ ~stop.passing
        BY <1>5, <3>4 DEF TakesThePlaceOf
      <4>2. stop.boards <=> \E i \in here \cup {p} : record.locations[i].boards
        BY <3>1, <3>3, <3>4 DEF TakesThePlaceOf
      <4>3. stop.passing <=> \A i \in here \cup {p} : Passing(record.locations[i])
        BY <4>1
      <4> QED BY <3>2, <4>1, <4>2, <4>3 DEF ServesPlace
    <3>5. CASE ~TakesThePlaceOf(stop, before)
      <4>1. last = before /\ ~stop.boards /\ (before.passing => stop.passing)
        BY <3>5 DEF TakesThePlaceOf
      <4>2. before.boards <=> \E i \in here \cup {p} : record.locations[i].boards
        BY <3>1, <4>1
      <4>3. before.passing <=> \A i \in here \cup {p} : Passing(record.locations[i])
        BY <3>1, <4>1
      <4> QED BY <3>2, <4>1, <4>2, <4>3 DEF ServesPlace
    <3> QED BY <3>4, <3>5
  <2>6. IsAStop(last)
    BY <2>1
  <2> HIDE DEF after, last, before, here
  <2>7. ASSUME NEW place \in 1 .. n
        PROVE  IsAStop(after[place]) /\ ServesPlace(after[place], record, At(record, more, place))
    <3>1. CASE place = n
      BY <2>2, <2>3, <2>5, <2>6, <3>1 DEF here
    <3>2. CASE place \in 1 .. n - 1
      BY <2>2, <2>3, <3>2 DEF ServesStops
    <3> QED BY <1>2, <3>1, <3>2
  <2> QED BY <2>2, <2>3, <2>7 DEF ServesStops
<1> QED BY <1>1, <1>6, <1>7

(***************************************************************************)
(* The timing points that are stops, and those on the path, up to a row.   *)
(***************************************************************************)
Seen(record, removes, j) ==
  {Own(record)[k].stop : k \in {l \in 1 .. j : BecomesAStop(Own(record)[l], removes)}}

Gone(record, j) == {Own(record)[k].stop : k \in {l \in 1 .. j : Called(Own(record)[l])}}

(* The rows of a record are its timing points, in their order. *)
LEMMA OwnRowsInOrder ==
  ASSUME NEW records, IsATable(records), NEW record \in records
  PROVE  /\ Length(record) \in Nat /\ Len(Own(record)) = Length(record)
         /\ record.locations \in Seq(Location)
         /\ \A j \in 1 .. Length(record) :
              /\ Own(record)[j] \in RowsOf(record)
              /\ Own(record)[j].record = Identity(record)
              /\ Own(record)[j].stop \in Nat
              /\ Own(record)[j].stop <= Len(record.locations)
              /\ Called(Own(record)[j]) =>
                   /\ record.locations[Own(record)[j].stop] \in Location
                   /\ Own(record)[j].location[1] = record.locations[Own(record)[j].stop]
         /\ \A i, j \in 1 .. Length(record) : i < j => Own(record)[i].stop < Own(record)[j].stop
         /\ \A row \in RowsOf(record) : \E j \in 1 .. Length(record) : Own(record)[j] = row
<1>1. record \in Record /\ CanBeOrdered(RowsOf(record))
  BY TheirRows
<1>2. /\ Length(record) \in Nat /\ Len(Own(record)) = Length(record)
      /\ \A j \in 1 .. Length(record) : Own(record)[j] \in RowsOf(record)
  BY RowsOfOneRecord DEF Own
<1>3. record.locations \in Seq(Location) /\ Len(record.locations) \in Nat
  BY <1>1 DEF Record
<1>4. /\ \A i, j \in 1 .. Length(record) : i < j => GoesBefore(Own(record)[i], Own(record)[j])
      /\ \A row \in RowsOf(record) : \E j \in 1 .. Length(record) : Own(record)[j] = row
  <2>1. Length(record) = Cardinality(RowsOf(record))
    BY <1>1, <1>2, OrderedIs DEF Own
  <2> QED BY <1>1, <2>1, OrderedIs DEF Own
<1>5. ASSUME NEW j \in 1 .. Length(record)
      PROVE  /\ Own(record)[j] \in RowsOf(record)
             /\ Own(record)[j].record = Identity(record)
             /\ Own(record)[j].stop \in Nat
             /\ Own(record)[j].stop <= Len(record.locations)
             /\ Called(Own(record)[j]) =>
                  /\ record.locations[Own(record)[j].stop] \in Location
                  /\ Own(record)[j].location[1] = record.locations[Own(record)[j].stop]
  <2>1. PICK row \in RowsOf(record) : row = Own(record)[j]
    BY <1>2
  <2>2. row.record = Identity(record) /\ row.stop \in Nat
    BY <1>1, RowIs
  <2>3. \/ row.stop = 0 /\ row.location = <<>>
        \/ row.stop \in DOMAIN record.locations /\ row.location = <<record.locations[row.stop]>>
    <3>1. \/ row = [record |-> Identity(record), stop |-> 0, location |-> <<>>]
          \/ /\ row.stop \in DOMAIN record.locations
             /\ row = [record |-> Identity(record), stop |-> row.stop,
                       location |-> <<record.locations[row.stop]>>]
      BY <1>1, RowIs
    <3>2. PICK p : p = row.stop
      OBVIOUS
    <3> QED BY <3>1, <3>2
  <2>4. row.stop <= Len(record.locations)
    BY <1>3, <2>2, <2>3
  <2>5. Called(row) => /\ record.locations[row.stop] \in Location
                       /\ row.location[1] = record.locations[row.stop]
    BY <1>3, <2>3 DEF Called
  <2> QED BY <2>1, <2>2, <2>4, <2>5
<1>6. ASSUME NEW i \in 1 .. Length(record), NEW j \in 1 .. Length(record), i < j
      PROVE  Own(record)[i].stop < Own(record)[j].stop
  <2>1. GoesBefore(Own(record)[i], Own(record)[j])
    BY <1>4, <1>6
  <2>2. Own(record)[i].record = Own(record)[j].record
    BY <1>5
  <2>3. Descending[record.stp] \in Int /\ record.id \in Int
    BY <1>1, DescendingIsANumber DEF Record
  <2>4. Own(record)[i].record = Identity(record)
    BY <1>5
  <2>5. Own(record)[i].record.stp = record.stp /\ Own(record)[i].record.id = record.id
    BY <2>4 DEF Identity
  <2> QED BY <2>1, <2>2, <2>3, <2>5 DEF GoesBefore
<1> QED BY <1>2, <1>3, <1>4, <1>5, <1>6

(* One row more. *)
LEMMA SeenSoFar ==
  ASSUME NEW records, IsATable(records), NEW record \in records, NEW removes,
         NEW j \in Nat, j <= Length(record)
  PROVE  /\ \A those \in {Seen(record, removes, j), Gone(record, j)} :
              /\ those \in SUBSET Nat /\ IsFiniteSet(those)
              /\ \A i \in those : record.locations[i] \in Location
              /\ j < Length(record) => \A i \in those : i < Own(record)[j + 1].stop
         /\ Seen(record, removes, 0) = {} /\ Gone(record, 0) = {}
         /\ Seen(record, removes, j + 1)
              = Seen(record, removes, j)
                  \cup (IF BecomesAStop(Own(record)[j + 1], removes)
                        THEN {Own(record)[j + 1].stop} ELSE {})
         /\ Gone(record, j + 1)
              = Gone(record, j)
                  \cup (IF Called(Own(record)[j + 1]) THEN {Own(record)[j + 1].stop} ELSE {})
<1>1. Length(record) \in Nat /\ Len(record.locations) \in Nat
  <2>1. record.locations \in Seq(Location)
    BY OwnRowsInOrder
  <2> QED BY <2>1, OwnRowsInOrder
<1>2. ASSUME NEW those \in {Seen(record, removes, j), Gone(record, j)}, NEW i \in those
      PROVE  \E k \in 1 .. j : Called(Own(record)[k]) /\ i = Own(record)[k].stop
  BY DEF Seen, Gone, BecomesAStop
<1>3. ASSUME NEW those \in {Seen(record, removes, j), Gone(record, j)}, NEW i \in those
      PROVE  /\ i \in Nat /\ i <= Len(record.locations) /\ record.locations[i] \in Location
             /\ j < Length(record) => i < Own(record)[j + 1].stop
  <2>1. PICK k \in 1 .. j : Called(Own(record)[k]) /\ i = Own(record)[k].stop
    BY <1>2
  <2>2. k \in 1 .. Length(record) /\ (j < Length(record) => j + 1 \in 1 .. Length(record) /\ k < j + 1)
    BY <1>1
  <2> QED BY <2>1, <2>2, OwnRowsInOrder
<1>4. ASSUME NEW those \in {Seen(record, removes, j), Gone(record, j)}
      PROVE  those \in SUBSET Nat /\ IsFiniteSet(those)
  <2>1. those \in SUBSET Nat /\ \A i \in those : i <= Len(record.locations)
    BY <1>3
  <2> QED BY ONLY <1>1, <2>1, FS_BoundedSetOfNaturals
<1>5. /\ Seen(record, removes, 0) = {} /\ Gone(record, 0) = {}
      /\ 1 .. j + 1 = (1 .. j) \cup {j + 1}
  BY DEF Seen, Gone
<1>6. Seen(record, removes, j + 1)
        = Seen(record, removes, j)
            \cup (IF BecomesAStop(Own(record)[j + 1], removes)
                  THEN {Own(record)[j + 1].stop} ELSE {})
  BY <1>5 DEF Seen
<1>7. Gone(record, j + 1)
        = Gone(record, j)
            \cup (IF Called(Own(record)[j + 1]) THEN {Own(record)[j + 1].stop} ELSE {})
  BY <1>5 DEF Gone
<1> QED BY <1>3, <1>4, <1>5, <1>6, <1>7

(***************************************************************************)
(* The cursor serves what it has seen of its record, row by row.           *)
(***************************************************************************)
Serves(cursor, record, removes, j) ==
  /\ ServesStops(cursor.stops, record, Seen(record, removes, j))
  /\ ServesPath(cursor.path, record, Gone(record, j))

(* The times are numbers, rolled over or not, *)
LEMMA TimesAreInts ==
  ASSUME NEW time \in Int, NEW otherwise \in Int, NEW originHour
  PROVE  OneOf(time, otherwise) \in Int /\ RolledOver(time, originHour) \in Int
<1>1. Day \in Int
  BY DEF Day, Hour
<1> QED BY <1>1 DEF OneOf, RolledOver

(* and so are those of the clock. *)
LEMMA ClockIs ==
  ASSUME NEW location \in Location, NEW originHour, NEW arrival \in Int, NEW departure \in Int
  PROVE  ClockOf(location, originHour, arrival, departure)
           \in [workingArr : Int, workingDep : Int, publicArr : Int, publicDep : Int]
<1> DEFINE workingArr == OneOf(RolledOver(OneOf(location.arr, location.dep), originHour), arrival)
           workingDep == OneOf(RolledOver(OneOf(location.dep, location.arr), originHour), departure)
           published == IF location.publicArr # NoTime THEN arrival ELSE departure
           offset == IF Between(published, workingArr) <= Between(published, workingDep)
                     THEN published - workingArr
                     ELSE published - workingDep
           atBothEnds == (location.publicArr = NoTime) <=> (location.publicDep = NoTime)
<1>1. location.arr \in Int /\ location.dep \in Int
  BY DEF Location, Time, NoTime
<1>2. workingArr \in Int /\ workingDep \in Int
  BY <1>1, TimesAreInts
<1>3. published \in Int
  OBVIOUS
<1>4. ClockOf(location, originHour, arrival, departure)
        = IF Passing(location)
          THEN [workingArr |-> arrival, workingDep |-> arrival,
                publicArr |-> arrival, publicDep |-> arrival]
          ELSE [workingArr |-> workingArr,
                workingDep |-> workingDep,
                publicArr  |-> IF atBothEnds THEN arrival ELSE workingArr + offset,
                publicDep  |-> IF atBothEnds THEN departure ELSE workingDep + offset]
  BY DEF ClockOf
<1>5. offset \in Int
  <2> HIDE DEF workingArr, workingDep, published
  <2> QED BY <1>2, <1>3
<1> HIDE DEF workingArr, workingDep, offset, atBothEnds
<1> QED BY <1>2, <1>4, <1>5

(* The stop made of a location is where it is. *)
LEMMA StopAtIs ==
  ASSUME NEW location \in Location, NEW originHour
  PROVE  /\ IsAStop(StopAt(location, originHour))
         /\ StopAt(location, originHour).crs = location.crs
         /\ StopAt(location, originHour).passing = Passing(location)
         /\ StopAt(location, originHour).boards = location.boards
<1> DEFINE times == TimesOf(location)
<1>1. times[1] \in Int /\ times[2] \in Int
  BY DEF TimesOf, Location, Time, NoTime
<1>2. PICK arrival, departure :
        /\ arrival = RolledOver(OneOf(times[1], times[2]), originHour)
        /\ departure = RolledOver(OneOf(times[2], times[1]), originHour)
  OBVIOUS
<1>3. arrival \in Int /\ departure \in Int
  <2> HIDE DEF times
  <2> QED BY <1>1, <1>2, TimesAreInts
<1>4. PICK clock : clock = ClockOf(location, originHour, arrival, departure)
  OBVIOUS
<1>5. clock \in [workingArr : Int, workingDep : Int, publicArr : Int, publicDep : Int]
  BY <1>3, <1>4, ClockIs
<1>6. StopAt(location, originHour)
        = [crs |-> location.crs, arrival |-> arrival, departure |-> departure,
           passing |-> Passing(location), boards |-> location.boards, clock |-> clock]
  BY <1>2, <1>4 DEF StopAt
<1>7. Passing(location) \in BOOLEAN
  BY DEF Passing
<1> QED BY <1>3, <1>5, <1>6, <1>7 DEF IsAStop

(* Within one record the cursor never starts again. *)
LEMMA ProcessedOfOne ==
  ASSUME NEW record, NEW cursor, IsACursor(cursor),
         cursor = NewCursor \/ cursor.record = <<Identity(record)>>,
         NEW row, row.record = Identity(record), NEW removes
  PROVE  \E originHour :
           /\ Processed(cursor, row, removes).stops
                = IF BecomesAStop(row, removes)
                  THEN WithStop(cursor.stops, StopAt(row.location[1], originHour))
                  ELSE cursor.stops
           /\ Processed(cursor, row, removes).path
                = IF Called(row) THEN WithPath(cursor.path, row.location[1].crs) ELSE cursor.path
<1> DEFINE begun == Begun(cursor, row)
<1>1. IsACursor(begun) /\ begun.stops = cursor.stops /\ begun.path = cursor.path
  <2>1. CASE cursor = NewCursor
    <3>1. Starts(cursor, row)
      BY <2>1 DEF Starts, NewCursor
    <3> QED BY <2>1, <3>1 DEF Begun, NewCursor, IsACursor
  <2>2. CASE cursor.record = <<Identity(record)>>
    <3>1. DOMAIN cursor.record = 1 .. 1 /\ cursor.record[1] = Identity(record)
      BY <2>2
    <3>2. ~Starts(cursor, row)
      BY <3>1 DEF Starts
    <3> QED BY <3>2 DEF Begun
  <2> QED BY <2>1, <2>2
<1> DEFINE along == IF Called(row) THEN WithPath(begun.path, row.location[1].crs) ELSE begun.path
           stopping == IF BecomesAStop(row, removes)
                       THEN WithStop(begun.stops, StopAt(row.location[1], begun.originHour))
                       ELSE begun.stops
<1>2. Processed(cursor, row, removes)
        = [begun EXCEPT !.record = <<row.record>>, !.path = along, !.stops = stopping]
  BY <1>1 DEF Processed, IsACursor
<1>3. Processed(cursor, row, removes).stops = stopping /\ Processed(cursor, row, removes).path = along
  <2> HIDE DEF begun, along, stopping
  <2> QED BY <1>1, <1>2 DEF IsACursor
<1>4. PICK originHour : originHour = begun.originHour
  OBVIOUS
<1> HIDE DEF begun
<1> QED BY <1>1, <1>3, <1>4

(* One row more, and the cursor serves that too. *)
LEMMA OneRowMore ==
  ASSUME NEW records, IsATable(records), NEW record \in records, NEW removes,
         NEW j \in Nat, j < Length(record),
         NEW cursor, IsACursor(cursor),
         cursor = NewCursor \/ cursor.record = <<Identity(record)>>,
         Serves(cursor, record, removes, j)
  PROVE  Serves(Processed(cursor, Own(record)[j + 1], removes), record, removes, j + 1)
<1>1. PICK row : row = Own(record)[j + 1]
  OBVIOUS
<1>2. PICK those : those = Seen(record, removes, j)
  OBVIOUS
<1>3. PICK along : along = Gone(record, j)
  OBVIOUS
<1>4. PICK p : p = row.stop
  OBVIOUS
<1>5. /\ row.record = Identity(record) /\ p \in Nat
      /\ Called(row) => record.locations[p] \in Location /\ row.location[1] = record.locations[p]
  <2>1. j + 1 \in 1 .. Length(record)
    BY OwnRowsInOrder
  <2> QED BY <1>1, <1>4, <2>1, OwnRowsInOrder
<1>6. /\ those \in SUBSET Nat /\ IsFiniteSet(those) /\ \A i \in those : i < p
      /\ \A i \in those : record.locations[i] \in Location
      /\ along \in SUBSET Nat /\ IsFiniteSet(along) /\ \A i \in along : i < p
      /\ Seen(record, removes, j + 1) = those \cup (IF BecomesAStop(row, removes) THEN {p} ELSE {})
      /\ Gone(record, j + 1) = along \cup (IF Called(row) THEN {p} ELSE {})
  <2>1. j <= Length(record)
    BY OwnRowsInOrder
  <2> QED BY <1>1, <1>2, <1>3, <1>4, <2>1, SeenSoFar
<1>7. PICK next : next = Processed(cursor, row, removes)
  OBVIOUS
<1>8. PICK originHour :
        /\ next.stops = IF BecomesAStop(row, removes)
                        THEN WithStop(cursor.stops, StopAt(row.location[1], originHour))
                        ELSE cursor.stops
        /\ next.path = IF Called(row) THEN WithPath(cursor.path, row.location[1].crs) ELSE cursor.path
  BY <1>5, <1>7, ProcessedOfOne
<1>9. ServesStops(cursor.stops, record, those) /\ ServesPath(cursor.path, record, along)
  BY <1>2, <1>3 DEF Serves
<1>10. ServesPath(next.path, record, Gone(record, j + 1))
  <2>1. CASE Called(row)
    <3>1. next.path = WithPath(cursor.path, record.locations[p].crs)
      BY <1>5, <1>8, <2>1
    <3>2. PICK path : path = cursor.path
      OBVIOUS
    <3>3. ServesPath(WithPath(path, record.locations[p].crs), record, along \cup {p})
      BY ONLY <1>5, <1>6, <1>9, <3>2, PathGrows
    <3> QED BY <1>6, <2>1, <3>1, <3>2, <3>3
  <2>2. CASE ~Called(row)
    BY <1>6, <1>8, <1>9, <2>2
  <2> QED BY <2>1, <2>2
<1>11. ServesStops(next.stops, record, Seen(record, removes, j + 1))
  <2>1. CASE BecomesAStop(row, removes)
    <3>1. /\ row.location[1] = record.locations[p] /\ record.locations[p] \in Location
      BY <1>5, <2>1 DEF BecomesAStop
    <3>2. PICK stop : stop = StopAt(record.locations[p], originHour)
      OBVIOUS
    <3>3. /\ IsAStop(stop) /\ stop.crs = record.locations[p].crs
          /\ stop.passing = Passing(record.locations[p]) /\ stop.boards = record.locations[p].boards
      BY <3>1, <3>2, StopAtIs
    <3>4. next.stops = WithStop(cursor.stops, stop)
      BY <1>8, <2>1, <3>1, <3>2
    <3>5. PICK stops : stops = cursor.stops
      OBVIOUS
    <3>6. \A i \in those \cup {p} : record.locations[i] \in Location
      BY <1>6, <3>1
    <3>7. ServesStops(stops, record, those)
      BY <1>9, <3>5
    <3>8. ServesStops(WithStop(stops, stop), record, those \cup {p})
      BY ONLY <1>5, <1>6, <3>3, <3>6, <3>7, StopsGrow
    <3> QED BY <1>6, <2>1, <3>4, <3>5, <3>8
  <2>2. CASE ~BecomesAStop(row, removes)
    BY <1>6, <1>8, <1>9, <2>2
  <2> QED BY <2>1, <2>2
<1> QED BY <1>1, <1>7, <1>10, <1>11 DEF Serves

(* After all its rows the cursor serves the whole record. *)
LEMMA CursorServes ==
  ASSUME NEW records, IsATable(records), NEW record \in records, NEW removes
  PROVE  /\ Length(record) \in Nat
         /\ Serves(CursorAfter(Own(record), removes)[Length(record)], record, removes, Length(record))
         /\ Seen(record, removes, Length(record)) = StopsOf(record, removes)
         /\ Gone(record, Length(record)) = PathOf(record)
<1> DEFINE n == Length(record)
           f == CursorAfter(Own(record), removes)
           S == {j \in Nat : j <= n => Serves(f[j], record, removes, j)}
<1>1. /\ n \in Nat /\ f[0] = NewCursor
      /\ \A j \in 1 .. n : /\ f[j] = Processed(f[j - 1], Own(record)[j], removes)
                           /\ IsACursor(f[j]) /\ f[j].record = <<Identity(record)>>
  BY OwnRowsAre
<1>2. 0 \in S
  <2>1. 0 <= n
    BY <1>1
  <2>2. Seen(record, removes, 0) = {} /\ Gone(record, 0) = {}
    BY <2>1, SeenSoFar
  <2>3. Cardinality(NewPlaces(record, {})) = 0
    BY PlacesOfNone
  <2>4. NewCursor.stops = <<>> /\ NewCursor.path = <<>>
    BY DEF NewCursor
  <2>5. ServesStops(<<>>, record, {}) /\ ServesPath(<<>>, record, {})
    BY <2>3 DEF ServesStops, ServesPath, IsSeq
  <2>6. Serves(NewCursor, record, removes, 0)
    BY <2>2, <2>4, <2>5 DEF Serves
  <2> HIDE DEF f
  <2> QED BY <1>1, <2>6
<1>3. ASSUME NEW j \in S PROVE j + 1 \in S
  <2> SUFFICES ASSUME j + 1 <= n PROVE Serves(f[j + 1], record, removes, j + 1)
    OBVIOUS
  <2>1. /\ j \in Nat /\ j < n /\ j <= n /\ j + 1 \in 1 .. n /\ (j + 1) - 1 = j
        /\ j = 0 \/ j \in 1 .. n
    BY <1>1
  <2>2. Serves(f[j], record, removes, j)
    BY <2>1
  <2>3. f[j + 1] = Processed(f[j], Own(record)[j + 1], removes)
    BY <1>1, <2>1
  <2>4. IsACursor(NewCursor)
    BY DEF NewCursor, IsACursor
  <2> HIDE DEF f
  <2>5. IsACursor(f[j]) /\ (f[j] = NewCursor \/ f[j].record = <<Identity(record)>>)
    BY <1>1, <2>1, <2>4
  <2>6. PICK cursor : cursor = f[j]
    OBVIOUS
  <2>7. Serves(Processed(cursor, Own(record)[j + 1], removes), record, removes, j + 1)
    BY <2>1, <2>2, <2>5, <2>6, OneRowMore
  <2> QED BY <2>3, <2>6, <2>7
<1>4. n \in S
  <2>1. S \in SUBSET Nat
    OBVIOUS
  <2> HIDE DEF S
  <2> QED BY <1>1, <1>2, <1>3, <2>1, SetInduction
<1>5. Seen(record, removes, n) = StopsOf(record, removes) /\ Gone(record, n) = PathOf(record)
  <2>1. /\ \A j \in 1 .. n : Own(record)[j] \in RowsOf(record)
        /\ \A row \in RowsOf(record) : \E j \in 1 .. n : Own(record)[j] = row
    BY OwnRowsInOrder
  <2> HIDE DEF n
  <2>2. Seen(record, removes, n) = StopsOf(record, removes)
    BY <2>1 DEF Seen, StopsOf
  <2>3. Gone(record, n) = PathOf(record)
    BY <2>1 DEF Gone, PathOf
  <2> QED BY <2>2, <2>3
<1> QED BY <1>1, <1>4, <1>5

(* The public clock moves the times of the stops, and nothing else. *)
LEMMA OnPublicClockIs ==
  ASSUME NEW stops, IsSeq(stops), \A i \in 1 .. Len(stops) : IsAStop(stops[i])
  PROVE  /\ DOMAIN OnPublicClock(stops) = 1 .. Len(stops)
         /\ \A i \in 1 .. Len(stops) :
              /\ OnPublicClock(stops)[i].crs = stops[i].crs
              /\ OnPublicClock(stops)[i].passing = stops[i].passing
              /\ OnPublicClock(stops)[i].boards = stops[i].boards
<1>1. DOMAIN stops = 1 .. Len(stops)
  BY SequenceHas
<1>2. CASE Calls(stops) = {}
  BY <1>1, <1>2 DEF OnPublicClock
<1>3. CASE Calls(stops) # {}
  <2> DEFINE told == OnPublicClock(stops)
  <2>1. told = [i \in 1 .. Len(stops) |->
                  IF stops[i].passing
                  THEN [stops[i] EXCEPT !.arrival = PassTime(stops, i),
                                        !.departure = PassTime(stops, i)]
                  ELSE stops[i]]
    BY <1>3 DEF OnPublicClock
  <2> HIDE DEF told
  <2>2. ASSUME NEW i \in 1 .. Len(stops)
        PROVE  /\ told[i].crs = stops[i].crs
               /\ told[i].passing = stops[i].passing
               /\ told[i].boards = stops[i].boards
    <3>1. PICK stop : stop = stops[i]
      OBVIOUS
    <3>2. PICK time : time = PassTime(stops, i)
      OBVIOUS
    <3>3. IsAStop(stop)
      BY <3>1
    <3>4. told[i] = IF stop.passing THEN [stop EXCEPT !.arrival = time, !.departure = time] ELSE stop
      BY <2>1, <3>1, <3>2
    <3>5. LET moved == [stop EXCEPT !.arrival = time, !.departure = time] IN
            moved.crs = stop.crs /\ moved.passing = stop.passing /\ moved.boards = stop.boards
      BY <3>3 DEF IsAStop
    <3> QED BY <3>1, <3>4, <3>5
  <2>3. DOMAIN told = 1 .. Len(stops)
    BY <2>1
  <2> QED BY <2>2, <2>3 DEF told
<1> QED BY <1>2, <1>3

(* What a schedule is made of: stops that serve its record, told on a clock. *)
LEMMA MadeOf ==
  ASSUME NEW records, IsATable(records), NEW record \in records, NEW removes,
         Length(record) # 0, NEW schedule, MadeFrom(schedule, record, removes)
  PROVE  \E stops :
           /\ ServesStops(stops, record, StopsOf(record, removes))
           /\ ServesPath(schedule.path, record, PathOf(record))
           /\ schedule.stops = IF removes THEN stops ELSE OnPublicClock(stops)
<1> DEFINE n == Length(record)
<1>1. PICK cursor : cursor = CursorAfter(Own(record), removes)[n]
  OBVIOUS
<1>2. /\ n \in Nat /\ Len(Own(record)) = n
      /\ cursor.record = <<Identity(record)>>
  <2>1. n \in Nat /\ n \in 1 .. n
    BY OwnRowsAre
  <2> QED BY <1>1, <2>1, OwnRowsAre
<1>3. schedule = BuiltFrom(Identity(record), cursor, removes)
  <2>1. <<schedule>> = Flush(cursor, removes)
    BY <1>1, <1>2 DEF MadeFrom, Load
  <2>2. Flush(cursor, removes) = <<BuiltFrom(Identity(record), cursor, removes)>>
    BY <1>2, FlushOfARecord
  <2> QED BY <2>1, <2>2
<1>4. /\ ServesStops(cursor.stops, record, StopsOf(record, removes))
      /\ ServesPath(cursor.path, record, PathOf(record))
  BY <1>1, CursorServes DEF Serves
<1>5. /\ schedule.path = cursor.path
      /\ schedule.stops = IF removes THEN cursor.stops ELSE OnPublicClock(cursor.stops)
  BY <1>3 DEF BuiltFrom
<1> QED BY <1>4, <1>5

(* Whichever clock it is, the schedule serves its record. *)
LEMMA MadeServes ==
  ASSUME NEW records, IsATable(records), NEW record \in records, NEW removes,
         Length(record) # 0, NEW schedule, MadeFrom(schedule, record, removes)
  PROVE  ServesItsPlaces(schedule, record, removes)
<1> DEFINE calls == StopsOf(record, removes)
           along == PathOf(record)
<1>1. PICK stops :
        /\ ServesStops(stops, record, calls) /\ ServesPath(schedule.path, record, along)
        /\ schedule.stops = IF removes THEN stops ELSE OnPublicClock(stops)
  BY MadeOf
<1> HIDE DEF calls, along
<1>2. /\ DOMAIN schedule.path = Places(record, along)
      /\ \A place \in Places(record, along) : \A i \in At(record, along, place) :
           record.locations[i].crs = schedule.path[place]
  <2>1. DOMAIN schedule.path = 1 .. Len(schedule.path)
    BY <1>1, SequenceHas DEF ServesPath
  <2> QED BY <1>1, <2>1 DEF ServesPath, Places
<1>3. /\ DOMAIN schedule.stops = Places(record, calls)
      /\ \A place \in Places(record, calls) :
           ServesPlace(schedule.stops[place], record, At(record, calls, place))
  <2>1. /\ IsSeq(stops) /\ DOMAIN stops = 1 .. Len(stops)
        /\ Places(record, calls) = 1 .. Len(stops)
        /\ \A place \in 1 .. Len(stops) :
             /\ IsAStop(stops[place])
             /\ ServesPlace(stops[place], record, At(record, calls, place))
    BY <1>1, SequenceHas DEF ServesStops, Places
  <2>2. /\ DOMAIN schedule.stops = 1 .. Len(stops)
        /\ \A i \in 1 .. Len(stops) :
              /\ schedule.stops[i].crs = stops[i].crs
              /\ schedule.stops[i].passing = stops[i].passing
              /\ schedule.stops[i].boards = stops[i].boards
    <3>1. CASE removes
      BY <1>1, <2>1, <3>1
    <3>2. CASE ~removes
      BY <1>1, <2>1, <3>2, OnPublicClockIs
    <3> QED BY <3>1, <3>2
  <2> QED BY <2>1, <2>2 DEF ServesPlace
<1> QED BY <1>2, <1>3 DEF ServesItsPlaces, ServesPlace, calls, along

(* A query read to its end has given every row of every record. *)
LEMMA ResolvedIsOver ==
  ASSUME NEW records, IsATable(records), NEW removes, NEW left, NEW cursor,
         IsReading(records, removes, left, cursor, "resolved"),
         NEW record \in records, Length(record) # 0
  PROVE  IsOver(records, record, left, "resolved")
<1>1. Len(left) = 0 /\ Len(Query(records)) \in Nat
  BY QueryIs DEF IsReading
<1>2. Read(records, left) = Len(Query(records))
  BY <1>1 DEF Read
<1>3. Ends(records, record) \in 1 .. Len(Query(records))
  <2>1. Length(record) \in 1 .. Length(record)
    BY RowsOfOneRecord
  <2> QED BY <2>1, RowsOfOneRecord DEF Ends
<1> QED BY <1>1, <1>2, <1>3 DEF IsOver

(* When all is loaded, every record is over, and became its schedule. *)
LEMMA WholeWhenLoaded == ASSUME BuilderInv, AllLoaded PROVE TrainsAreBuiltWhole
<1>1. tables["schedule"] # {} /\ Given
  BY DEF BuilderInv, AllIsRead, Given, AllLoaded, Streams
<1>2. AreRead(Recs)
  BY <1>1, RecsAreRead
<1>3. Making(Recs, removePassingPoints, rows, outcome, built)
  BY <1>1 DEF BuilderInv, AllIsRead
<1>4. \A stream \in Streams :
        /\ IsATable(Recs[stream]) /\ outcome[stream] = "resolved"
        /\ IsReading(Recs[stream], removePassingPoints, rows[stream], cursors[stream], "resolved")
  BY <1>1, <1>2 DEF BuilderInv, AllIsRead, AllLoaded, AreRead
<1> DEFINE records == UNION {RecordsOf(stream) : stream \in Streams}
<1>5. \A record : record \in records <=> \E stream \in Streams : record \in Recs[stream]
  BY DEF Recs
<1>6. \A stream \in Streams : \A record \in Recs[stream] : Length(record) = 0 <=> RowsOf(record) = {}
  BY <1>4, RowsOfOneRecord
<1>7. /\ \A k \in 1 .. Len(built) : \E s \in Streams : \E r \in Recs[s] :
           /\ Length(r) # 0 /\ MadeFrom(built[k], r, removePassingPoints)
           /\ built[k].id = r.id
      /\ \A k, l \in 1 .. Len(built) : k < l => built[k].id # built[l].id
  BY <1>2, <1>3, MadeOnce
<1>8. /\ Len(built) \in Nat /\ DOMAIN built = 1 .. Len(built)
      /\ ToSet(built) = {built[k] : k \in 1 .. Len(built)}
  <2>1. Len(built) \in Nat /\ DOMAIN built = 1 .. Len(built)
    BY <1>3, SequenceHas DEF Making
  <2> QED BY <2>1 DEF ToSet
<1> HIDE DEF records
<1>9. \A k, l \in 1 .. Len(built) : built[k].id = built[l].id => k = l
  <2>1. \A k, l \in 1 .. Len(built) : k < l \/ l < k \/ k = l
    BY <1>8
  <2> QED BY <1>7, <2>1
<1>10. ASSUME NEW schedule \in ToSet(built)
       PROVE  \E s \in Streams : \E r \in Recs[s] :
                /\ Length(r) # 0 /\ MadeFrom(schedule, r, removePassingPoints)
                /\ schedule.id = r.id
  BY <1>7, <1>8
<1>11. {schedule.id : schedule \in ToSet(built)}
         = {record.id : record \in {r \in records : RowsOf(r) # {}}}
  <2>1. ASSUME NEW schedule \in ToSet(built)
        PROVE  \E record \in records : RowsOf(record) # {} /\ schedule.id = record.id
    <3>1. PICK s \in Streams : \E r \in Recs[s] : Length(r) # 0 /\ schedule.id = r.id
      BY <1>10
    <3>2. PICK r \in Recs[s] : Length(r) # 0 /\ schedule.id = r.id
      BY <3>1
    <3> QED BY <1>5, <1>6, <3>2
  <2>2. ASSUME NEW record \in records, RowsOf(record) # {}
        PROVE  \E schedule \in ToSet(built) : schedule.id = record.id
    <3>1. PICK stream \in Streams : record \in Recs[stream]
      BY <1>5
    <3>2. Length(record) # 0
      BY <1>6, <2>2, <3>1
    <3>3. IsOver(Recs[stream], record, rows[stream], outcome[stream])
      BY <1>4, <3>1, <3>2, ResolvedIsOver
    <3>4. PICK k \in 1 .. Len(built) : MadeFrom(built[k], record, removePassingPoints)
      BY <1>3, <3>1, <3>3 DEF Making
    <3>5. PICK schedule : schedule = built[k]
      OBVIOUS
    <3>6. schedule.id = record.id
      <4>1. MadeFrom(schedule, record, removePassingPoints)
        BY <3>4, <3>5
      <4> QED BY <1>2, <3>1, <3>2, <4>1, MadeFromOne
    <3> QED BY <1>8, <3>5, <3>6
  <2> QED BY <2>1, <2>2
<1>12. ASSUME NEW schedule \in ToSet(built), NEW record \in records, schedule.id = record.id
       PROVE  /\ <<schedule>> = Load(Ordered(RowsOf(record)), removePassingPoints)
              /\ ServesItsPlaces(schedule, record, removePassingPoints)
  <2>1. PICK s \in Streams : \E r \in Recs[s] :
          /\ Length(r) # 0 /\ MadeFrom(schedule, r, removePassingPoints)
          /\ schedule.id = r.id
    BY <1>10
  <2>2. PICK r \in Recs[s] : /\ Length(r) # 0 /\ MadeFrom(schedule, r, removePassingPoints)
                             /\ schedule.id = r.id
    BY <2>1
  <2>3. PICK t \in Streams : record \in Recs[t]
    BY <1>5
  <2>4. r = record /\ s = t
    BY ONLY <1>2, <1>12, <2>2, <2>3, OneRecordOf
  <2>5. MadeFrom(schedule, record, removePassingPoints) /\ Length(record) # 0
    BY <2>2, <2>4
  <2>6. ServesItsPlaces(schedule, record, removePassingPoints)
    BY <1>4, <2>3, <2>5, MadeServes
  <2> QED BY <2>5, <2>6 DEF MadeFrom, Own
<1> QED BY <1>9, <1>11, <1>12 DEF TrainsAreBuiltWhole, records

(***************************************************************************)
(* Each record becomes one schedule, under an id of its own, with its own  *)
(* calls and path and no other's, and the one it would become alone, of    *)
(* any tables and in any turns of the two streams.                         *)
(***************************************************************************)
THEOREM TrainsAreWhole == AllSpec => []TrainsAreBuiltWhole
<1>1. AllInit => AllInv
  BY AllStarts
<1>2. AllInv /\ [AllNext]_<<vars, builderVars>> => AllInv'
  BY AllSteps
<1>3. AllInv => TrainsAreBuiltWhole
  <2>1. ~AllLoaded => TrainsAreBuiltWhole
    BY DEF TrainsAreBuiltWhole
  <2> QED BY <2>1, WholeWhenLoaded DEF AllInv
<1> QED BY <1>1, <1>2, <1>3, PTL DEF AllSpec

-----------------------------------------------------------------------------
(***************************************************************************)
(* 6. The passes of a schedule.                                            *)
(***************************************************************************)

(***************************************************************************)
(* The arithmetic of placing passes: least and greatest of finite sets.    *)
(***************************************************************************)
LEMMA LeastIsLeast ==
  ASSUME NEW S \in SUBSET Int, S # {}, IsFiniteSet(S)
  PROVE  Min(S) \in S /\ \A y \in S : Min(S) <= y
<1> DEFINE minus == [x \in S |-> 0 - x]
           below == {minus[x] : x \in DOMAIN minus}
<1>1. IsFiniteSet(below)
  <2>1. DOMAIN minus = S
    OBVIOUS
  <2> HIDE DEF minus
  <2> QED BY <2>1, ImagesAreFinite
<1>2. below \in SUBSET Int /\ below # {}
  <2>1. \A x \in S : minus[x] = 0 - x /\ 0 - x \in Int
    OBVIOUS
  <2>2. DOMAIN minus = S
    OBVIOUS
  <2> HIDE DEF minus
  <2> QED BY <2>1, <2>2
<1>3. PICK z \in below : \A y \in below : y <= z
  <2> HIDE DEF below
  <2> QED BY <1>1, <1>2, MaxIsGreatest
<1>4. PICK x \in S : z = 0 - x
  BY <1>3
<1>5. \A y \in S : x <= y
  <2> SUFFICES ASSUME NEW y \in S PROVE x <= y
    OBVIOUS
  <2>1. minus[y] \in below /\ minus[y] = 0 - y
    OBVIOUS
  <2>2. 0 - y <= 0 - x
    BY <1>3, <1>4, <2>1
  <2> QED BY <2>2
<1>6. Min(S) \in S /\ \A y \in S : Min(S) <= y
  BY <1>5 DEF Min
<1> QED BY <1>6

(* The greater and the lesser of two. *)
LEMMA OfTwo ==
  ASSUME NEW a \in Int, NEW b \in Int
  PROVE  /\ Max({a, b}) = IF a <= b THEN b ELSE a
         /\ Min({a, b}) = IF a <= b THEN a ELSE b
<1>1. IsFiniteSet({a, b})
  <2>1. PICK S : S = {a}
    OBVIOUS
  <2>2. IsFiniteSet(S) /\ {a, b} = S \cup {b}
    BY <2>1, FS_Singleton
  <2>3. IsFiniteSet(S \cup {b})
    BY <2>2, FS_AddElement
  <2> QED BY <2>2, <2>3
<1>2. /\ Max({a, b}) \in {a, b} /\ a <= Max({a, b}) /\ b <= Max({a, b})
      /\ Min({a, b}) \in {a, b} /\ Min({a, b}) <= a /\ Min({a, b}) <= b
  <2>1. {a, b} \in SUBSET Int /\ {a, b} # {} /\ a \in {a, b} /\ b \in {a, b}
    OBVIOUS
  <2> QED BY <1>1, <2>1, MaxIsGreatest, LeastIsLeast
<1> QED BY <1>2

(* What is held between two bounds is, and is no less for a greater. *)
LEMMA ClampIs ==
  ASSUME NEW time \in Int, NEW least \in Int, NEW most \in Int, least <= most
  PROVE  /\ Clamp(time, least, most) \in Int
         /\ least <= Clamp(time, least, most) /\ Clamp(time, least, most) <= most
         /\ \A later \in Int : time <= later => Clamp(time, least, most) <= Clamp(later, least, most)
<1>1. \A t \in Int : Clamp(t, least, most)
                       = IF t <= least THEN least ELSE IF t <= most THEN t ELSE most
  <2> SUFFICES ASSUME NEW t \in Int
               PROVE  Clamp(t, least, most) = IF t <= least THEN least ELSE IF t <= most THEN t ELSE most
    OBVIOUS
  <2>1. PICK m \in Int : m = Max({least, t}) /\ m = IF least <= t THEN t ELSE least
    BY OfTwo
  <2>2. Min({most, m}) = IF most <= m THEN most ELSE m
    BY OfTwo
  <2> QED BY <2>1, <2>2 DEF Clamp
<1> QED BY <1>1

(* The times a function gives from one place to another, with one besides. *)
Told(f, from, to) == {f[j] : j \in from .. to}

(* Finitely many places have finitely many times. *)
LEMMA ToldIs ==
  ASSUME NEW from \in Int, NEW to \in Int, NEW f, \A j \in from .. to : f[j] \in Int
  PROVE  Told(f, from, to) \in SUBSET Int /\ IsFiniteSet(Told(f, from, to))
<1> DEFINE g == [j \in from .. to |-> f[j]]
<1>1. IsFiniteSet(from .. to)
  BY FS_Interval
<1>2. DOMAIN g = from .. to /\ {g[j] : j \in DOMAIN g} = Told(f, from, to)
  BY DEF Told
<1>3. IsFiniteSet({g[j] : j \in DOMAIN g})
  <2> HIDE DEF g
  <2> QED BY <1>1, <1>2, ImagesAreFinite
<1> QED BY <1>2, <1>3 DEF Told

(* The greatest of more is no less, *)
LEMMA GreatestGrows ==
  ASSUME NEW S \in SUBSET Int, S # {}, NEW T \in SUBSET Int, S \subseteq T, IsFiniteSet(T)
  PROVE  Max(S) \in Int /\ Max(T) \in Int /\ Max(S) <= Max(T)
<1>1. IsFiniteSet(S) /\ T # {}
  BY FS_Subset
<1> QED BY <1>1, MaxIsGreatest

(* and the least of more no greater. *)
LEMMA LeastShrinks ==
  ASSUME NEW S \in SUBSET Int, S # {}, NEW T \in SUBSET Int, S \subseteq T, IsFiniteSet(T)
  PROVE  Min(S) \in Int /\ Min(T) \in Int /\ Min(T) <= Min(S)
<1>1. IsFiniteSet(S) /\ T # {}
  BY FS_Subset
<1> QED BY <1>1, LeastIsLeast

(***************************************************************************)
(* Where a pass is placed: within the calls around it, and no earlier than *)
(* the passes before it.                                                   *)
(***************************************************************************)
AreStops(stops) == IsSeq(stops) /\ \A i \in 1 .. Len(stops) : IsAStop(stops[i])

(* The times of a stop are numbers. *)
LEMMA StopsTimes ==
  ASSUME NEW stops, AreStops(stops), NEW i \in 1 .. Len(stops)
  PROVE  /\ stops[i].arrival \in Int /\ stops[i].departure \in Int /\ stops[i].passing \in BOOLEAN
         /\ stops[i].clock.workingArr \in Int /\ stops[i].clock.workingDep \in Int
         /\ stops[i].clock.publicArr \in Int /\ stops[i].clock.publicDep \in Int
BY DEF AreStops, IsAStop

(* A pass before any call is no later than that call, nor than the passes after it. *)
LEMMA BeforeIs ==
  ASSUME NEW stops, AreStops(stops), NEW to \in 1 .. Len(stops),
         NEW i \in 1 .. to - 1, NEW k \in i .. to - 1
  PROVE  /\ PlacedBefore(stops, i, to) \in Int /\ PlacedBefore(stops, k, to) \in Int
         /\ PlacedBefore(stops, i, to) <= stops[to].arrival
         /\ PlacedBefore(stops, i, to) <= PlacedBefore(stops, k, to)
<1> DEFINE latest == stops[to].arrival
           offset == Min({stops[to].clock.publicArr, latest}) - stops[to].clock.workingArr
           f == [j \in 1 .. to - 1 |-> stops[j].clock.workingArr + offset]
           S == {latest} \cup Told(f, k, to - 1)
           T == {latest} \cup Told(f, i, to - 1)
<1>1. Len(stops) \in Nat /\ to \in Int /\ i \in Int /\ k \in Int /\ i <= k
  BY SequenceHas DEF AreStops
<1>2. latest \in Int /\ offset \in Int
  <2>1. latest \in Int /\ stops[to].clock.publicArr \in Int /\ stops[to].clock.workingArr \in Int
    BY StopsTimes
  <2>2. Min({stops[to].clock.publicArr, latest}) \in Int
    BY <2>1, OfTwo
  <2> QED BY <2>1, <2>2
<1> HIDE DEF latest, offset
<1>3. \A j \in 1 .. to - 1 : f[j] = stops[j].clock.workingArr + offset /\ f[j] \in Int
  <2>1. \A j \in 1 .. to - 1 : stops[j].clock.workingArr \in Int
    <3>1. \A j \in 1 .. to - 1 : j \in 1 .. Len(stops)
      BY <1>1
    <3> QED BY <3>1, StopsTimes
  <2> QED BY <1>2, <2>1
<1> HIDE DEF f
<1>4. /\ PlacedBefore(stops, k, to) = Min(S)
      /\ PlacedBefore(stops, i, to) = Min(T)
  <2>1. ASSUME NEW h \in 1 .. to - 1
        PROVE  PlacedBefore(stops, h, to) = Min({latest} \cup Told(f, h, to - 1))
    <3>1. {stops[j].clock.workingArr + offset : j \in h .. to - 1} = Told(f, h, to - 1)
      <4>1. \A j \in h .. to - 1 : j \in 1 .. to - 1
        BY <1>1
      <4> QED BY <1>3, <4>1 DEF Told
    <3> QED BY <3>1 DEF PlacedBefore, latest, offset
  <2>2. k \in 1 .. to - 1
    BY <1>1
  <2> QED BY <2>1, <2>2
<1>5. /\ Told(f, i, to - 1) \in SUBSET Int /\ IsFiniteSet(Told(f, i, to - 1))
      /\ Told(f, k, to - 1) \subseteq Told(f, i, to - 1)
  <2>1. \A j \in i .. to - 1 : f[j] \in Int
    BY <1>1, <1>3
  <2>2. Told(f, i, to - 1) \in SUBSET Int /\ IsFiniteSet(Told(f, i, to - 1))
    BY <1>1, <2>1, ToldIs
  <2>3. \A j \in k .. to - 1 : j \in i .. to - 1
    BY <1>1
  <2> QED BY <2>2, <2>3 DEF Told
<1>6. IsFiniteSet(T) /\ T \in SUBSET Int /\ S \subseteq T /\ latest \in S
  <2>1. PICK told : told = Told(f, i, to - 1)
    OBVIOUS
  <2>2. IsFiniteSet(told \cup {latest})
    BY <1>5, <2>1, FS_AddElement
  <2>3. T = told \cup {latest}
    BY <2>1
  <2> QED BY <1>2, <1>5, <2>2, <2>3
<1> HIDE DEF S, T
<1>7. Min(S) \in Int /\ Min(T) \in Int /\ Min(T) <= Min(S)
  BY <1>6, LeastShrinks
<1>8. Min(T) <= latest
  BY <1>6, LeastIsLeast
<1> QED BY <1>4, <1>7, <1>8 DEF latest

(* A pass past every call is no earlier than the last, nor than the passes before it. *)
LEMMA AfterIs ==
  ASSUME NEW stops, AreStops(stops), NEW from \in 1 .. Len(stops),
         NEW k \in from + 1 .. Len(stops), NEW i \in from + 1 .. k
  PROVE  /\ PlacedAfter(stops, i, from) \in Int /\ PlacedAfter(stops, k, from) \in Int
         /\ stops[from].departure <= PlacedAfter(stops, k, from)
         /\ PlacedAfter(stops, i, from) <= PlacedAfter(stops, k, from)
<1> DEFINE earliest == stops[from].departure
           offset == Max({stops[from].clock.publicDep, earliest}) - stops[from].clock.workingDep
           f == [j \in from + 1 .. Len(stops) |-> stops[j].clock.workingDep + offset]
           S == {earliest} \cup Told(f, from + 1, i)
           T == {earliest} \cup Told(f, from + 1, k)
<1>1. Len(stops) \in Nat /\ from \in Int /\ 1 <= from /\ i \in Int /\ k \in Int /\ i <= k /\ k <= Len(stops)
  BY SequenceHas DEF AreStops
<1>2. earliest \in Int /\ offset \in Int
  <2>1. earliest \in Int /\ stops[from].clock.publicDep \in Int /\ stops[from].clock.workingDep \in Int
    BY StopsTimes
  <2>2. Max({stops[from].clock.publicDep, earliest}) \in Int
    BY <2>1, OfTwo
  <2> QED BY <2>1, <2>2
<1> HIDE DEF earliest, offset
<1>3. \A j \in from + 1 .. Len(stops) : f[j] = stops[j].clock.workingDep + offset /\ f[j] \in Int
  <2>1. \A j \in from + 1 .. Len(stops) : stops[j].clock.workingDep \in Int
    <3>1. \A j \in from + 1 .. Len(stops) : j \in 1 .. Len(stops)
      BY <1>1
    <3> QED BY <3>1, StopsTimes
  <2> QED BY <1>2, <2>1
<1> HIDE DEF f
<1>4. /\ PlacedAfter(stops, i, from) = Max(S)
      /\ PlacedAfter(stops, k, from) = Max(T)
  <2>1. ASSUME NEW h \in from + 1 .. Len(stops)
        PROVE  PlacedAfter(stops, h, from) = Max({earliest} \cup Told(f, from + 1, h))
    <3>1. {stops[j].clock.workingDep + offset : j \in from + 1 .. h} = Told(f, from + 1, h)
      <4>1. \A j \in from + 1 .. h : j \in from + 1 .. Len(stops)
        BY <1>1
      <4> QED BY <1>3, <4>1 DEF Told
    <3> QED BY <3>1 DEF PlacedAfter, earliest, offset
  <2>2. i \in from + 1 .. Len(stops)
    BY <1>1
  <2> QED BY <2>1, <2>2
<1>5. /\ Told(f, from + 1, k) \in SUBSET Int /\ IsFiniteSet(Told(f, from + 1, k))
      /\ Told(f, from + 1, i) \subseteq Told(f, from + 1, k)
  <2>1. \A j \in from + 1 .. k : f[j] \in Int
    BY <1>1, <1>3
  <2>2. Told(f, from + 1, k) \in SUBSET Int /\ IsFiniteSet(Told(f, from + 1, k))
    BY <1>1, <2>1, ToldIs
  <2>3. \A j \in from + 1 .. i : j \in from + 1 .. k
    BY <1>1
  <2> QED BY <2>2, <2>3 DEF Told
<1>6. IsFiniteSet(T) /\ T \in SUBSET Int /\ S \subseteq T /\ earliest \in S
  <2>1. PICK told : told = Told(f, from + 1, k)
    OBVIOUS
  <2>2. IsFiniteSet(told \cup {earliest})
    BY <1>5, <2>1, FS_AddElement
  <2>3. T = told \cup {earliest}
    BY <2>1
  <2> QED BY <1>2, <1>5, <2>2, <2>3
<1> HIDE DEF S, T
<1>7. Max(S) \in Int /\ Max(T) \in Int /\ Max(S) <= Max(T)
  BY <1>6, GreatestGrows
<1>8. earliest <= Max(T)
  BY <1>6, MaxIsGreatest
<1> QED BY <1>4, <1>7, <1>8 DEF earliest

(* A pass between two calls is, and no later than the passes after it. *)
LEMMA BetweenIs ==
  ASSUME NEW stops, AreStops(stops), NEW to \in 1 .. Len(stops), NEW from \in 1 .. to,
         NEW k \in from + 1 .. to - 1, NEW i \in from + 1 .. k
  PROVE  /\ PlacedBetween(stops, i, from, to) \in Int /\ PlacedBetween(stops, k, from, to) \in Int
         /\ stops[from].departure <= PlacedBetween(stops, i, from, to)
         /\ PlacedBetween(stops, i, from, to) <= PlacedBetween(stops, k, from, to)
         /\ stops[from].departure <= stops[to].arrival =>
              PlacedBetween(stops, k, from, to) <= stops[to].arrival
<1> DEFINE earliest == stops[from].departure
           latest   == Max({earliest, stops[to].arrival})
           start    == Clamp(stops[from].clock.publicDep, earliest, latest)
           end      == Clamp(stops[to].clock.publicArr, start, latest)
           length   == stops[to].clock.workingArr - stops[from].clock.workingDep
           worked(j) ==
             Clamp(stops[j].clock.workingArr - stops[from].clock.workingDep, 0, length)
           placed(j) ==
             IF length > 0
             THEN start + (2 * worked(j) * (end - start) + length) \div (2 * length)
             ELSE start
           f == [j \in 1 .. Len(stops) |-> placed(j)]
           S == Told(f, from + 1, i)
           T == Told(f, from + 1, k)
<1>1. /\ Len(stops) \in Nat /\ from \in Int /\ to \in Int /\ i \in Int /\ k \in Int
      /\ 1 <= from /\ from + 1 <= i /\ i <= k /\ k <= to - 1 /\ to <= Len(stops)
  BY SequenceHas DEF AreStops
<1>2. from \in 1 .. Len(stops)
  BY <1>1
<1>3. /\ earliest \in Int /\ stops[to].arrival \in Int /\ latest \in Int /\ earliest <= latest
      /\ earliest <= stops[to].arrival => latest = stops[to].arrival
  <2>1. earliest \in Int /\ stops[to].arrival \in Int
    BY <1>2, StopsTimes
  <2> QED BY <2>1, OfTwo
<1> HIDE DEF earliest, latest
<1>4. start \in Int /\ earliest <= start /\ start <= latest
  <2>1. stops[from].clock.publicDep \in Int
    BY <1>2, StopsTimes
  <2> QED BY <1>3, <2>1, ClampIs
<1> HIDE DEF start
<1>5. end \in Int /\ start <= end /\ end <= latest
  <2>1. stops[to].clock.publicArr \in Int
    BY StopsTimes
  <2> QED BY <1>3, <1>4, <2>1, ClampIs
<1> HIDE DEF end
<1>6. length \in Int
  BY <1>2, StopsTimes
<1> HIDE DEF length
<1>7. \A j \in 1 .. Len(stops) : f[j] = placed(j) /\ f[j] \in Int
  <2> SUFFICES ASSUME NEW j \in 1 .. Len(stops) PROVE placed(j) \in Int
    OBVIOUS
  <2>1. CASE ~(length > 0)
    BY <1>4, <2>1
  <2>2. CASE length > 0
    <3>1. worked(j) \in Int
      <4>1. stops[j].clock.workingArr - stops[from].clock.workingDep \in Int
        BY <1>2, StopsTimes
      <4>2. 0 <= length
        BY <1>6, <2>2
      <4> QED BY <1>6, <4>1, <4>2, ClampIs
    <3>2. PICK w \in Int : w = worked(j)
      BY <3>1
    <3>3. PICK top \in Int : top = 2 * w * (end - start) + length
      BY <1>4, <1>5, <1>6
    <3>4. PICK bottom \in Int : bottom = 2 * length /\ bottom > 0
      BY <1>6, <2>2
    <3>5. top \div bottom \in Int
      BY <3>4
    <3>6. placed(j) = start + top \div bottom
      BY <2>2, <3>2, <3>3, <3>4
    <3> QED BY <1>4, <3>5, <3>6
  <2> QED BY <2>1, <2>2
<1> HIDE DEF f
<1>8. /\ PlacedBetween(stops, i, from, to) = Clamp(Max(S), start, end)
      /\ PlacedBetween(stops, k, from, to) = Clamp(Max(T), start, end)
  <2>1. ASSUME NEW h \in from + 1 .. k
        PROVE  PlacedBetween(stops, h, from, to) = Clamp(Max(Told(f, from + 1, h)), start, end)
    <3>1. {placed(j) : j \in from + 1 .. h} = Told(f, from + 1, h)
      <4>1. \A j \in from + 1 .. h : j \in 1 .. Len(stops)
        BY <1>1
      <4> HIDE DEF placed
      <4> QED BY <1>7, <4>1 DEF Told
    <3> QED BY <3>1 DEF PlacedBetween, earliest, latest, start, end, length
  <2>2. i \in from + 1 .. k /\ k \in from + 1 .. k
    BY <1>1
  <2> QED BY <2>1, <2>2
<1> HIDE DEF placed
<1>9. T \in SUBSET Int /\ IsFiniteSet(T) /\ S \subseteq T /\ S # {}
  <2>1. \A j \in from + 1 .. k : f[j] \in Int
    BY <1>1, <1>7
  <2>2. Told(f, from + 1, k) \in SUBSET Int /\ IsFiniteSet(Told(f, from + 1, k))
    <3>1. from + 1 \in Int
      BY <1>1
    <3> QED BY ONLY <1>1, <2>1, <3>1, ToldIs
  <2>3. (\A j \in from + 1 .. i : j \in from + 1 .. k) /\ i \in from + 1 .. i
    BY <1>1
  <2> QED BY <2>2, <2>3 DEF Told
<1> HIDE DEF S, T
<1>10. Max(S) \in Int /\ Max(T) \in Int /\ Max(S) <= Max(T)
  BY <1>9, GreatestGrows
<1>11. /\ Clamp(Max(S), start, end) \in Int /\ Clamp(Max(T), start, end) \in Int
       /\ start <= Clamp(Max(S), start, end) /\ Clamp(Max(T), start, end) <= end
       /\ Clamp(Max(S), start, end) <= Clamp(Max(T), start, end)
  BY <1>4, <1>5, <1>10, ClampIs
<1>12. earliest <= Clamp(Max(S), start, end) /\ Clamp(Max(T), start, end) <= latest
  BY <1>3, <1>4, <1>5, <1>11
<1> QED BY <1>3, <1>8, <1>11, <1>12 DEF earliest

(***************************************************************************)
(* The calls before a place and those after it, which two neighbours share *)
(* but for themselves.                                                     *)
(***************************************************************************)
Behind(stops, i) == {c \in Calls(stops) : c < i}

Ahead(stops, i) == {c \in Calls(stops) : c > i}

(* The last call behind a place and the first ahead of it. *)
LEMMA CallsAround ==
  ASSUME NEW stops, AreStops(stops), NEW i \in 1 .. Len(stops)
  PROVE  /\ Behind(stops, i) # {} =>
              /\ Max(Behind(stops, i)) \in Calls(stops) /\ Max(Behind(stops, i)) < i
              /\ \A c \in Calls(stops) : c < i => c <= Max(Behind(stops, i))
         /\ Ahead(stops, i) # {} =>
              /\ Min(Ahead(stops, i)) \in Calls(stops) /\ i < Min(Ahead(stops, i))
              /\ \A c \in Calls(stops) : i < c => Min(Ahead(stops, i)) <= c
<1>1. Len(stops) \in Nat /\ IsFiniteSet(1 .. Len(stops))
  BY SequenceHas, FS_Interval DEF AreStops
<1>2. ASSUME NEW S \in SUBSET (1 .. Len(stops)) PROVE S \in SUBSET Int /\ IsFiniteSet(S)
  <2>1. PICK all : all = 1 .. Len(stops)
    OBVIOUS
  <2>2. IsFiniteSet(S)
    BY ONLY <1>1, <2>1, S \in SUBSET (1 .. Len(stops)), FS_Subset
  <2> QED BY <2>2
<1>3. /\ Behind(stops, i) \in SUBSET (1 .. Len(stops))
      /\ Ahead(stops, i) \in SUBSET (1 .. Len(stops))
      /\ Calls(stops) \in SUBSET (1 .. Len(stops))
  BY DEF Behind, Ahead, Calls
<1>4. /\ Behind(stops, i) \in SUBSET Int /\ IsFiniteSet(Behind(stops, i))
      /\ Ahead(stops, i) \in SUBSET Int /\ IsFiniteSet(Ahead(stops, i))
  BY <1>2, <1>3
<1>5. Behind(stops, i) # {} =>
        Max(Behind(stops, i)) \in Behind(stops, i)
        /\ \A c \in Behind(stops, i) : c <= Max(Behind(stops, i))
  BY <1>4, MaxIsGreatest
<1>6. Ahead(stops, i) # {} =>
        Min(Ahead(stops, i)) \in Ahead(stops, i)
        /\ \A c \in Ahead(stops, i) : Min(Ahead(stops, i)) <= c
  BY <1>4, LeastIsLeast
<1>7. \A c \in Calls(stops) : c \in Int
  BY <1>3
<1> QED BY <1>5, <1>6, <1>7 DEF Behind, Ahead

(* Which of the three a pass is. *)
LEMMA PassTimeIs ==
  ASSUME NEW stops, NEW i
  PROVE  PassTime(stops, i)
           = IF Behind(stops, i) = {} THEN PlacedBefore(stops, i, Min(Ahead(stops, i)))
             ELSE IF Ahead(stops, i) = {} THEN PlacedAfter(stops, i, Max(Behind(stops, i)))
             ELSE PlacedBetween(stops, i, Max(Behind(stops, i)), Min(Ahead(stops, i)))
BY DEF PassTime, Behind, Ahead

(* The calls are in order among themselves. *)
CallsInOrder(stops) ==
  \A one, other \in Calls(stops) : one < other => stops[one].departure <= stops[other].arrival

(* A pass is told no earlier than the call before it, *)
LEMMA PassAfterACall ==
  ASSUME NEW stops, AreStops(stops), CallsInOrder(stops),
         NEW i \in 1 .. Len(stops), ~stops[i].passing,
         NEW k \in 1 .. Len(stops), k = i + 1, stops[k].passing
  PROVE  stops[i].departure <= PassTime(stops, k)
<1>1. i \in Calls(stops) /\ i \in Int /\ k \in Int /\ i < k
  BY DEF Calls
<1>2. Behind(stops, k) # {} /\ Max(Behind(stops, k)) = i
  <2>1. i \in Behind(stops, k)
    BY <1>1 DEF Behind
  <2>2. /\ Max(Behind(stops, k)) \in Calls(stops) /\ Max(Behind(stops, k)) < k
        /\ i <= Max(Behind(stops, k))
    BY <1>1, <2>1, CallsAround
  <2>3. Max(Behind(stops, k)) \in Int
    BY <2>2 DEF Calls
  <2> QED BY <2>1, <2>2, <2>3
<1>3. CASE Ahead(stops, k) = {}
  <2>1. PassTime(stops, k) = PlacedAfter(stops, k, i)
    BY <1>2, <1>3, PassTimeIs
  <2>2. k \in i + 1 .. Len(stops) /\ k \in i + 1 .. k
    OBVIOUS
  <2>3. stops[i].departure <= PlacedAfter(stops, k, i)
    BY <2>2, AfterIs
  <2> QED BY <2>1, <2>3
<1>4. CASE Ahead(stops, k) # {}
  <2>1. PICK to : to = Min(Ahead(stops, k))
    OBVIOUS
  <2>2. to \in Calls(stops) /\ k < to /\ to \in 1 .. Len(stops)
    BY <1>4, <2>1, CallsAround DEF Calls
  <2>3. PassTime(stops, k) = PlacedBetween(stops, k, i, to)
    BY <1>2, <1>4, <2>1, PassTimeIs
  <2>4. i \in 1 .. to /\ k \in i + 1 .. to - 1 /\ k \in i + 1 .. k /\ i < to
    BY <1>1, <2>2
  <2>5. stops[i].departure <= stops[to].arrival
    BY <1>1, <2>2, <2>4 DEF CallsInOrder
  <2>6. stops[i].departure <= PlacedBetween(stops, k, i, to)
    BY <2>2, <2>4, <2>5, BetweenIs
  <2> QED BY <2>3, <2>6
<1> QED BY <1>3, <1>4

(* no later than the call after it, *)
LEMMA PassBeforeACall ==
  ASSUME NEW stops, AreStops(stops), CallsInOrder(stops),
         NEW i \in 1 .. Len(stops), stops[i].passing,
         NEW k \in 1 .. Len(stops), k = i + 1, ~stops[k].passing
  PROVE  PassTime(stops, i) <= stops[k].arrival
<1>1. k \in Calls(stops) /\ i \in Int /\ k \in Int /\ i < k
  BY DEF Calls
<1>2. Ahead(stops, i) # {} /\ Min(Ahead(stops, i)) = k
  <2>1. k \in Ahead(stops, i)
    BY <1>1 DEF Ahead
  <2>2. /\ Min(Ahead(stops, i)) \in Calls(stops) /\ i < Min(Ahead(stops, i))
        /\ Min(Ahead(stops, i)) <= k
    BY <1>1, <2>1, CallsAround
  <2>3. Min(Ahead(stops, i)) \in Int
    BY <2>2 DEF Calls
  <2> QED BY <2>1, <2>2, <2>3
<1>3. CASE Behind(stops, i) = {}
  <2>1. PassTime(stops, i) = PlacedBefore(stops, i, k)
    BY <1>2, <1>3, PassTimeIs
  <2>2. i \in 1 .. k - 1 /\ i \in i .. k - 1
    OBVIOUS
  <2>3. PlacedBefore(stops, i, k) <= stops[k].arrival
    BY <2>2, BeforeIs
  <2> QED BY <2>1, <2>3
<1>4. CASE Behind(stops, i) # {}
  <2>1. PICK from : from = Max(Behind(stops, i))
    OBVIOUS
  <2>2. from \in Calls(stops) /\ from < i /\ from \in 1 .. Len(stops)
    BY <1>4, <2>1, CallsAround DEF Calls
  <2>3. PassTime(stops, i) = PlacedBetween(stops, i, from, k)
    BY <1>2, <1>4, <2>1, PassTimeIs
  <2>4. from \in 1 .. k /\ i \in from + 1 .. k - 1 /\ i \in from + 1 .. i /\ from < k
    BY <1>1, <2>2
  <2>5. stops[from].departure <= stops[k].arrival
    BY <1>1, <2>2, <2>4 DEF CallsInOrder
  <2>6. PlacedBetween(stops, i, from, k) <= stops[k].arrival
    BY <2>4, <2>5, BetweenIs
  <2> QED BY <2>3, <2>6
<1> QED BY <1>3, <1>4

(* and no earlier than a pass before it. *)
LEMMA PassAfterAPass ==
  ASSUME NEW stops, AreStops(stops), CallsInOrder(stops), Calls(stops) # {},
         NEW i \in 1 .. Len(stops), stops[i].passing,
         NEW k \in 1 .. Len(stops), k = i + 1, stops[k].passing
  PROVE  PassTime(stops, i) <= PassTime(stops, k)
<1>1. i \in Int /\ k \in Int /\ i < k /\ i \notin Calls(stops) /\ k \notin Calls(stops)
      /\ \A c \in Calls(stops) : c \in 1 .. Len(stops) /\ c \in Int
  BY DEF Calls
<1>2. Behind(stops, i) = Behind(stops, k) /\ Ahead(stops, i) = Ahead(stops, k)
  <2>1. \A c \in Calls(stops) : (c < i <=> c < k) /\ (c > i <=> c > k)
    <3> SUFFICES ASSUME NEW c \in Calls(stops) PROVE (c < i <=> c < k) /\ (c > i <=> c > k)
      OBVIOUS
    <3>1. c \in Int /\ c # i /\ c # k
      BY <1>1
    <3> QED BY <1>1, <3>1
  <2> QED BY <2>1 DEF Behind, Ahead
<1>3. Behind(stops, i) = {} => Ahead(stops, i) # {}
  <2>1. PICK c \in Calls(stops) : TRUE
    OBVIOUS
  <2>2. c \in Int /\ c # i
    BY <1>1
  <2>3. c < i \/ c > i
    BY <1>1, <2>2
  <2> QED BY <2>3 DEF Behind, Ahead
<1>4. PICK from : from = Max(Behind(stops, i))
  OBVIOUS
<1>5. PICK to : to = Min(Ahead(stops, i))
  OBVIOUS
<1>6. Behind(stops, i) # {} => from \in Calls(stops) /\ from < i /\ from \in 1 .. Len(stops)
  BY <1>1, <1>4, CallsAround
<1>7. Ahead(stops, i) # {} => to \in Calls(stops) /\ k < to /\ to \in 1 .. Len(stops)
  <2>1. Ahead(stops, k) # {} => Min(Ahead(stops, k)) \in Calls(stops) /\ k < Min(Ahead(stops, k))
    BY CallsAround
  <2> QED BY <1>1, <1>2, <1>5, <2>1
<1>8. CASE Behind(stops, i) = {}
  <2>1. PassTime(stops, i) = PlacedBefore(stops, i, to) /\ PassTime(stops, k) = PlacedBefore(stops, k, to)
    BY <1>2, <1>5, <1>8, PassTimeIs
  <2>2. to \in 1 .. Len(stops) /\ k < to
    BY <1>3, <1>7, <1>8
  <2>3. i \in 1 .. to - 1 /\ k \in i .. to - 1
    BY <1>1, <2>2
  <2>4. PlacedBefore(stops, i, to) <= PlacedBefore(stops, k, to)
    BY <2>2, <2>3, BeforeIs
  <2> QED BY <2>1, <2>4
<1>9. CASE Behind(stops, i) # {} /\ Ahead(stops, i) = {}
  <2>1. PassTime(stops, i) = PlacedAfter(stops, i, from) /\ PassTime(stops, k) = PlacedAfter(stops, k, from)
    BY <1>2, <1>4, <1>9, PassTimeIs
  <2>2. from \in 1 .. Len(stops) /\ k \in from + 1 .. Len(stops) /\ i \in from + 1 .. k
    BY <1>1, <1>6, <1>9
  <2>3. PlacedAfter(stops, i, from) <= PlacedAfter(stops, k, from)
    BY <2>2, AfterIs
  <2> QED BY <2>1, <2>3
<1>10. CASE Behind(stops, i) # {} /\ Ahead(stops, i) # {}
  <2>1. /\ PassTime(stops, i) = PlacedBetween(stops, i, from, to)
        /\ PassTime(stops, k) = PlacedBetween(stops, k, from, to)
    BY <1>2, <1>4, <1>5, <1>10, PassTimeIs
  <2>2. /\ to \in 1 .. Len(stops) /\ from \in 1 .. to /\ from < to
        /\ k \in from + 1 .. to - 1 /\ i \in from + 1 .. k
    BY <1>1, <1>6, <1>7, <1>10
  <2>3. stops[from].departure <= stops[to].arrival
    BY <1>6, <1>7, <1>10, <2>2 DEF CallsInOrder
  <2>4. PlacedBetween(stops, i, from, to) <= PlacedBetween(stops, k, from, to)
    BY <2>2, <2>3, BetweenIs
  <2> QED BY <2>1, <2>4
<1> QED BY <1>8, <1>9, <1>10

(* So on the public clock every pass keeps its place. *)
LEMMA PassesArePlaced ==
  ASSUME NEW stops, AreStops(stops)
  PROVE  PassesKeepTheirPlace(OnPublicClock(stops))
<1> DEFINE n == Len(stops)
<1>0. PICK told : told = OnPublicClock(stops)
  OBVIOUS
<1>1. /\ n \in Nat
      /\ \A i \in 1 .. n : stops[i].passing \in BOOLEAN /\ IsAStop(stops[i])
      /\ DOMAIN told = 1 .. n
      /\ \A i \in 1 .. n : told[i].passing = stops[i].passing
  BY <1>0, SequenceHas, OnPublicClockIs, StopsTimes DEF AreStops
<1>2. Len(told) = n
  <2>1. told = [i \in 1 .. n |-> told[i]]
    <3>1. CASE Calls(stops) = {}
      <4>1. told = stops /\ stops \in Seq(Range(stops))
        BY <1>0, <3>1 DEF OnPublicClock, AreStops, IsSeq
      <4>2. stops = [i \in 1 .. n |-> stops[i]]
        BY <4>1
      <4> HIDE DEF n
      <4> QED BY <4>1, <4>2
    <3>2. CASE Calls(stops) # {}
      <4>1. PICK f : told = [i \in 1 .. n |-> f[i]]
        <5>1. PICK f : f = [i \in 1 .. n |->
                              IF stops[i].passing
                              THEN [stops[i] EXCEPT !.arrival = PassTime(stops, i),
                                                    !.departure = PassTime(stops, i)]
                              ELSE stops[i]]
          OBVIOUS
        <5>2. told = f /\ f = [i \in 1 .. n |-> f[i]]
          BY <1>0, <3>2, <5>1 DEF OnPublicClock
        <5> QED BY <5>2
      <4> HIDE DEF n
      <4> QED BY <4>1
    <3> QED BY <3>1, <3>2
  <2> HIDE DEF n
  <2> QED BY <1>1, <2>1, ListIsSeq
<1>3. Calls(told) = Calls(stops)
  BY <1>1, <1>2 DEF Calls
<1>4. CASE Calls(stops) = {}
  BY <1>0, <1>3, <1>4 DEF PassesKeepTheirPlace
<1>5. CASE Calls(stops) # {}
  <2>1. ASSUME NEW i \in 1 .. n
        PROVE  /\ stops[i].passing =>
                    told[i].arrival = PassTime(stops, i) /\ told[i].departure = PassTime(stops, i)
               /\ ~stops[i].passing =>
                    told[i].arrival = stops[i].arrival /\ told[i].departure = stops[i].departure
    <3>1. PICK stop : stop = stops[i]
      OBVIOUS
    <3>2. PICK time : time = PassTime(stops, i)
      OBVIOUS
    <3>3. told[i] = IF stop.passing THEN [stop EXCEPT !.arrival = time, !.departure = time] ELSE stop
      BY <1>0, <1>5, <3>1, <3>2 DEF OnPublicClock
    <3>4. IsAStop(stop)
      BY <1>1, <3>1
    <3>5. LET moved == [stop EXCEPT !.arrival = time, !.departure = time] IN
            moved.arrival = time /\ moved.departure = time
      BY <3>4 DEF IsAStop
    <3> QED BY <3>1, <3>2, <3>3, <3>5
  <2>2. CASE ~CallsInOrder(stops)
    <3>1. PICK one, other \in Calls(stops) :
            one < other /\ ~(stops[one].departure <= stops[other].arrival)
      BY <2>2 DEF CallsInOrder
    <3>2. /\ one \in 1 .. n /\ ~stops[one].passing
          /\ other \in 1 .. n /\ ~stops[other].passing
      BY <3>1 DEF Calls
    <3>3. ~InOrder(told, one, other)
      BY <2>1, <3>1, <3>2 DEF InOrder
    <3> QED BY <1>0, <1>3, <3>1, <3>3 DEF PassesKeepTheirPlace
  <2>3. CASE CallsInOrder(stops)
    <3>1. ASSUME NEW i \in 1 .. n - 1, told[i].passing \/ told[i + 1].passing
          PROVE  InOrder(told, i, i + 1)
      <4>1. PICK k \in 1 .. n : k = i + 1
        BY <1>1
      <4>2. i \in 1 .. n
        BY <1>1
      <4>3. stops[i].passing \/ stops[k].passing
        BY <1>1, <3>1, <4>1, <4>2
      <4>4. CASE stops[i].passing /\ stops[k].passing
        <5>1. PassTime(stops, i) <= PassTime(stops, k)
          BY <1>5, <2>3, <4>1, <4>2, <4>4, PassAfterAPass
        <5> QED BY <2>1, <4>1, <4>2, <4>4, <5>1 DEF InOrder
      <4>5. CASE stops[i].passing /\ ~stops[k].passing
        <5>1. PassTime(stops, i) <= stops[k].arrival
          BY <2>3, <4>1, <4>2, <4>5, PassBeforeACall
        <5> QED BY <2>1, <4>1, <4>2, <4>5, <5>1 DEF InOrder
      <4>6. CASE ~stops[i].passing /\ stops[k].passing
        <5>1. stops[i].departure <= PassTime(stops, k)
          BY <2>3, <4>1, <4>2, <4>6, PassAfterACall
        <5> QED BY <2>1, <4>1, <4>2, <4>6, <5>1 DEF InOrder
      <4> QED BY <4>3, <4>4, <4>5, <4>6
    <3> QED BY <1>0, <1>2, <3>1 DEF PassesKeepTheirPlace
  <2> QED BY <2>2, <2>3
<1> QED BY <1>4, <1>5

(* A builder that removes passing points makes no stop of one. *)
LEMMA NoStopIsPassed ==
  ASSUME NEW records, IsATable(records), NEW record \in records,
         NEW stops, ServesStops(stops, record, StopsOf(record, TRUE))
  PROVE  \A place \in 1 .. Len(stops) : ~stops[place].passing
<1>1. ASSUME NEW i \in StopsOf(record, TRUE) PROVE ~Passing(record.locations[i])
  <2>1. PICK row \in RowsOf(record) : BecomesAStop(row, TRUE) /\ i = row.stop
    BY DEF StopsOf
  <2>2. PICK j \in 1 .. Length(record) : Own(record)[j] = row
    BY OwnRowsInOrder
  <2>3. Called(row) /\ ~Passing(row.location[1])
    BY <2>1 DEF BecomesAStop
  <2>4. row.location[1] = record.locations[i]
    BY <2>1, <2>2, <2>3, OwnRowsInOrder
  <2> QED BY <2>3, <2>4
<1>2. ASSUME NEW place \in 1 .. Len(stops) PROVE ~stops[place].passing
  <2>1. ServesPlace(stops[place], record, At(record, StopsOf(record, TRUE), place))
    BY DEF ServesStops
  <2>2. PICK i : i \in At(record, StopsOf(record, TRUE), place)
    BY <2>1 DEF ServesPlace
  <2>3. i \in StopsOf(record, TRUE)
    BY <2>2 DEF At
  <2> QED BY <1>1, <2>1, <2>2, <2>3 DEF ServesPlace
<1> QED BY <1>2

(* So there is nothing to place. *)
LEMMA NoneIsPassed ==
  ASSUME NEW records, IsATable(records), NEW record \in records,
         NEW stops, ServesStops(stops, record, StopsOf(record, TRUE))
  PROVE  PassesKeepTheirPlace(stops)
<1>1. Len(stops) \in Nat
  BY SequenceHas DEF ServesStops
<1>2. \A i \in 1 .. Len(stops) - 1 : i \in 1 .. Len(stops) /\ i + 1 \in 1 .. Len(stops)
  BY <1>1
<1>3. \A place \in 1 .. Len(stops) : ~stops[place].passing
  BY NoStopIsPassed
<1> QED BY <1>2, <1>3 DEF PassesKeepTheirPlace

(* Either way the passes of a schedule keep their places, *)
LEMMA PassesOfOne ==
  ASSUME NEW records, IsATable(records), NEW record \in records, NEW removes \in BOOLEAN,
         Length(record) # 0, NEW schedule, MadeFrom(schedule, record, removes)
  PROVE  PassesKeepTheirPlace(schedule.stops)
<1>1. PICK stops :
        /\ ServesStops(stops, record, StopsOf(record, removes))
        /\ schedule.stops = IF removes THEN stops ELSE OnPublicClock(stops)
  BY MadeOf
<1>2. CASE removes = TRUE
  BY <1>1, <1>2, NoneIsPassed
<1>3. CASE removes = FALSE
  <2>1. AreStops(stops)
    BY <1>1 DEF AreStops, ServesStops
  <2> QED BY <1>1, <1>3, <2>1, PassesArePlaced
<1> QED BY <1>2, <1>3

(* and so in all that is built. *)
LEMMA PassesOfAll == ASSUME BuilderInv, removePassingPoints \in BOOLEAN PROVE PassesRunOn
<1>1. CASE tables["schedule"] = {}
  <2>1. built = <<>>
    BY <1>1 DEF BuilderInv, AllIsRead
  <2> QED BY <2>1 DEF PassesRunOn, ToSet
<1>2. CASE tables["schedule"] # {}
  <2>1. AreRead(Recs) /\ Making(Recs, removePassingPoints, rows, outcome, built)
    BY <1>2, RecsAreRead DEF BuilderInv, AllIsRead, Given
  <2>2. DOMAIN built = 1 .. Len(built)
    BY <2>1, SequenceHas DEF Making
  <2>3. ASSUME NEW k \in 1 .. Len(built) PROVE PassesKeepTheirPlace(built[k].stops)
    <3>1. PICK schedule : schedule = built[k]
      OBVIOUS
    <3>2. PICK s \in Streams : \E r \in Recs[s] :
            Length(r) # 0 /\ MadeFrom(schedule, r, removePassingPoints)
      BY <2>1, <3>1, MadeOnce
    <3>3. PICK r \in Recs[s] : Length(r) # 0 /\ MadeFrom(schedule, r, removePassingPoints)
      BY <3>2
    <3>4. IsATable(Recs[s])
      BY <2>1 DEF AreRead
    <3> QED BY <3>1, <3>3, <3>4, PassesOfOne
  <2> QED BY <2>2, <2>3 DEF PassesRunOn, ToSet
<1> QED BY <1>1, <1>2

(* With a builder that removes passing points or does not. *)
PassesInv == AllInv /\ removePassingPoints \in BOOLEAN

(***************************************************************************)
(* No schedule of the build is told to pass a place before what is before  *)
(* it or after what is after it, unless its calls are out of order.        *)
(***************************************************************************)
THEOREM PassesInTheirPlaces == AllSpec => []PassesRunOn
<1>1. AllInit => PassesInv
  BY AllStarts DEF AllInit, BuilderInit, PassesInv
<1>2. PassesInv /\ [AllNext]_<<vars, builderVars>> => PassesInv'
  <2>1. [AllNext]_<<vars, builderVars>> => removePassingPoints' = removePassingPoints
    BY DEF AllNext, LoadRows, BuilderNext, ProcessRow, RowThrows, EndOfRows, QueryFails, Arrives,
           Ended, builderVars
  <2> QED BY <2>1, AllSteps DEF PassesInv
<1>3. PassesInv => PassesRunOn
  BY PassesOfAll DEF AllInv, PassesInv
<1> QED BY <1>1, <1>2, <1>3, PTL DEF AllSpec

-----------------------------------------------------------------------------
(***************************************************************************)
(* 7. The origin of a train.                                               *)
(***************************************************************************)

(***************************************************************************)
(* The rows read of a stream that has not failed all have their times.     *)
(***************************************************************************)
FitsIn(row, removes) == BecomesAStop(row, removes) => HasTime(row.location[1])

FitSoFar(records, removes, left, how) ==
  how # "rejected" => \A n \in 1 .. Read(records, left) : FitsIn(Query(records)[n], removes)

AllFit ==
  tables["schedule"] # {} =>
    \A stream \in Streams :
      FitSoFar(Recs[stream], removePassingPoints, rows[stream], outcome[stream])

(* None is read at first, *)
LEMMA FitsAtFirst == ASSUME BuilderInit PROVE AllFit
<1> SUFFICES ASSUME tables["schedule"] # {}, NEW stream \in Streams
             PROVE  FitSoFar(Recs[stream], removePassingPoints, rows[stream], outcome[stream])
  BY DEF AllFit
<1>1. IsATable(Recs[stream])
  BY RecsAreRead DEF BuilderInit, Given, AreRead
<1>2. rows[stream] = Query(Recs[stream])
  BY DEF BuilderInit, RowsOfQuery, Query, AllRows, Recs
<1>3. Read(Recs[stream], rows[stream]) = 0
  <2>1. Len(Query(Recs[stream])) \in Nat
    BY <1>1, QueryIs
  <2> QED BY <1>2, <2>1 DEF Read
<1> QED BY <1>3 DEF FitSoFar

(* then one more, *)
LEMMA OneMoreFits ==
  ASSUME NEW records, IsATable(records), NEW removes, NEW left, NEW cursor, NEW then,
         IsReading(records, removes, left, cursor, "loading"), left # <<>>,
         FitSoFar(records, removes, left, "loading"), FitsIn(Head(left), removes)
  PROVE  FitSoFar(records, removes, Tail(left), then)
<1> DEFINE n == Read(records, left)
<1>1. /\ IsSeq(left) /\ n \in Nat
      /\ \A i \in 1 .. Len(left) : left[i] = Query(records)[n + i]
  BY DEF IsReading
<1>2. /\ Len(left) \in Nat \ {0} /\ Len(Tail(left)) = Len(left) - 1 /\ Head(left) = left[1]
  BY <1>1, TailHas
<1>3. Query(records)[n + 1] = Head(left)
  BY <1>1, <1>2
<1>4. Len(Query(records)) - Len(left) = n /\ Read(records, Tail(left)) = Len(Query(records)) - Len(Tail(left))
  BY DEF Read
<1>5. Read(records, Tail(left)) = n + 1
  <2>1. Len(Query(records)) \in Nat
    BY QueryIs
  <2> HIDE DEF n
  <2> QED BY <1>1, <1>2, <1>4, <2>1
<1>6. \A i \in 1 .. n : FitsIn(Query(records)[i], removes)
  BY DEF FitSoFar
<1> HIDE DEF n
<1>7. \A i \in 1 .. n + 1 : i \in 1 .. n \/ i = n + 1
  BY <1>1
<1>8. \A i \in 1 .. n + 1 : FitsIn(Query(records)[i], removes)
  BY <1>3, <1>6, <1>7
<1> QED BY <1>5, <1>8 DEF FitSoFar

(* and a row that does not fit is the last of its stream. *)
LEMMA FitsGoOn == ASSUME BuilderInv, AllFit, BuilderNext PROVE AllFit'
<1> USE DEF Loading
<1>1. PICK stream \in Streams :
        ProcessRow(stream) \/ RowThrows(stream) \/ EndOfRows(stream) \/ QueryFails(stream)
  BY DEF BuilderNext
<1>2. /\ tables' = tables /\ removePassingPoints' = removePassingPoints
      /\ outcome[stream] = "loading"
  BY <1>1 DEF ProcessRow, RowThrows, EndOfRows, QueryFails, Arrives
<1>3. Recs' = Recs
  BY <1>2, RecsStay
<1>4. Indexed(rows) /\ Indexed(outcome)
  BY DEF BuilderInv
<1> SUFFICES ASSUME tables["schedule"] # {}, NEW each \in Streams
             PROVE  FitSoFar(Recs[each], removePassingPoints, rows'[each], outcome'[each])
  BY <1>2, <1>3 DEF AllFit
<1>5. FitSoFar(Recs[each], removePassingPoints, rows[each], outcome[each])
  BY DEF AllFit
<1>6. CASE each # stream
  <2>1. rows'[each] = rows[each] /\ outcome'[each] = outcome[each]
    BY <1>1, <1>4, <1>6 DEF ProcessRow, RowThrows, EndOfRows, QueryFails, Arrives, Indexed
  <2> QED BY <1>5, <2>1
<1>7. CASE each = stream /\ ProcessRow(stream)
  <2>1. /\ rows[each] # <<>> /\ rows'[each] = Tail(rows[each])
        /\ FitsIn(Head(rows[each]), removePassingPoints)
    BY <1>4, <1>7 DEF ProcessRow, Arrives, Fits, FitsIn, Row, Indexed
  <2>2. IsReading(Recs[each], removePassingPoints, rows[each], cursors[each], "loading")
    BY <1>2, <1>7 DEF BuilderInv, AllIsRead
  <2>3. FitSoFar(Recs[each], removePassingPoints, rows[each], "loading")
    BY <1>2, <1>5, <1>7
  <2>4. IsATable(Recs[each])
    BY RecsAreRead DEF BuilderInv, Given, AreRead
  <2>5. FitSoFar(Recs[each], removePassingPoints, Tail(rows[each]), outcome'[each])
    BY <2>1, <2>2, <2>3, <2>4, OneMoreFits
  <2> QED BY <2>1, <2>5
<1>8. CASE each = stream /\ (RowThrows(stream) \/ QueryFails(stream))
  <2>1. outcome'[each] = "rejected"
    BY <1>4, <1>8 DEF RowThrows, QueryFails, Indexed
  <2> QED BY <2>1 DEF FitSoFar
<1>9. CASE each = stream /\ EndOfRows(stream)
  <2>1. rows' = rows
    BY <1>9 DEF EndOfRows
  <2> QED BY <1>2, <1>5, <1>9, <2>1 DEF FitSoFar
<1> QED BY <1>1, <1>6, <1>7, <1>8, <1>9

(* So when all is loaded, every stop has been told when. *)
LEMMA StopsHaveTimes ==
  ASSUME BuilderInv, AllFit, AllLoaded, NEW stream \in Streams, NEW record \in Recs[stream],
         NEW i \in StopsOf(record, removePassingPoints)
  PROVE  HasTime(record.locations[i])
<1> DEFINE records == Recs[stream]
<1>1. tables["schedule"] # {} /\ outcome[stream] = "resolved"
  BY DEF BuilderInv, AllIsRead, AllLoaded, Streams
<1>2. IsATable(records)
  BY <1>1, RecsAreRead DEF BuilderInv, Given, AreRead
<1>3. /\ IsReading(records, removePassingPoints, rows[stream], cursors[stream], "resolved")
      /\ FitSoFar(records, removePassingPoints, rows[stream], "resolved")
  BY <1>1 DEF BuilderInv, AllIsRead, AllFit
<1> HIDE DEF records
<1>4. Read(records, rows[stream]) = Len(Query(records))
  <2>1. Len(rows[stream]) = 0 /\ Len(Query(records)) \in Nat
    BY <1>2, <1>3, QueryIs DEF IsReading
  <2> QED BY <2>1 DEF Read
<1>5. record \in records
  BY DEF records
<1>6. PICK row \in RowsOf(record) : BecomesAStop(row, removePassingPoints) /\ i = row.stop
  BY DEF StopsOf
<1>7. PICK j \in 1 .. Length(record) : Own(record)[j] = row
  BY <1>2, <1>5, OwnRowsInOrder
<1>8. PICK n \in 1 .. Len(Query(records)) : Query(records)[n] = row
  <2>1. /\ Offset(records, record) + j \in 1 .. Len(Query(records))
        /\ Query(records)[Offset(records, record) + j] = Own(record)[j]
    BY <1>2, <1>5, RowsOfOneRecord DEF Own
  <2> QED BY <1>7, <2>1
<1>9. FitsIn(row, removePassingPoints)
  BY <1>3, <1>4, <1>8 DEF FitSoFar
<1>10. row.location[1] = record.locations[i]
  <2>1. Called(row)
    BY <1>6 DEF BecomesAStop
  <2> QED BY <1>2, <1>5, <1>6, <1>7, <2>1, OwnRowsInOrder
<1> QED BY <1>6, <1>9, <1>10 DEF FitsIn

-----------------------------------------------------------------------------
(***************************************************************************)
(* Each stop is told the times of a timing point of its place, by the hour *)
(* of the record's first row.  It is of one for boarding, as this takes    *)
(* the place of what was there, or of the first that is not passed.        *)
(***************************************************************************)
Fronts(record, here, i) ==
  record.locations[i].boards \/ \A k \in here : k < i => Passing(record.locations[k])

TakenFrom(stops, record, those, hour) ==
  \A place \in 1 .. Len(stops) : \E i \in At(record, those, place) :
    /\ Fronts(record, At(record, those, place), i)
    /\ stops[place] = StopAt(record.locations[i], hour)

HourOf(row) == IF row.location = <<>> THEN UnknownHour ELSE OriginHour(row.location[1])

(* A stop is the new one, which is then in its place, or one there was. *)
NewOrOld(after, stops, stop, record, those, p) ==
  \A place \in 1 .. Len(after) :
    \/ /\ after[place] = stop /\ p \in At(record, those \cup {p}, place)
       /\ Fronts(record, At(record, those \cup {p}, place), p)
    \/ /\ place \in 1 .. Len(stops) /\ after[place] = stops[place]
       /\ At(record, those, place) \subseteq At(record, those \cup {p}, place)
       /\ At(record, those \cup {p}, place) \subseteq At(record, those, place) \cup {p}

LEMMA StopsAreNewOrOld ==
  ASSUME NEW record, NEW those \in SUBSET Nat, IsFiniteSet(those),
         NEW p \in Nat, \A i \in those : i < p,
         NEW stops, ServesStops(stops, record, those),
         NEW stop, stop.crs = record.locations[p].crs, stop.boards = record.locations[p].boards
  PROVE  NewOrOld(WithStop(stops, stop), stops, stop, record, those, p)
<1> DEFINE n == Len(stops)
           after == WithStop(stops, stop)
           before == stops[n]
<1>1. PICK more : more = those \cup {p}
  OBVIOUS
<1>2. /\ IsSeq(stops) /\ n \in Nat /\ n = Cardinality(NewPlaces(record, those))
      /\ stops = <<>> <=> n = 0
  BY SequenceHas, PlacesAre DEF ServesStops, IsSeq
<1>3. Elsewhere(record, those, p) <=> (stops = <<>> \/ Last(stops).crs # stop.crs)
  <2>1. stops # <<>> => n \in 1 .. n
    BY <1>2
  <2>2. stops # <<>> => \A i \in At(record, those, n) : record.locations[i].crs = before.crs
    BY <2>1 DEF ServesStops, ServesPlace
  <2>3. Elsewhere(record, those, p) <=> (stops = <<>> \/ before.crs # record.locations[p].crs)
    <3>1. PICK crs : crs = before.crs
      OBVIOUS
    <3>2. stops # <<>> => \A i \in At(record, those, Len(stops)) : record.locations[i].crs = crs
      BY <2>2, <3>1
    <3>3. IsSeq(stops) /\ Len(stops) = Cardinality(NewPlaces(record, those))
      BY <1>2
    <3> HIDE DEF before, n
    <3>4. Elsewhere(record, those, p) <=> (stops = <<>> \/ crs # record.locations[p].crs)
      BY ONLY <3>2, <3>3, those \in SUBSET Nat, IsFiniteSet(those), p \in Nat, LastPlaceIs, SMTT(40)
    <3> QED BY <3>1, <3>4
  <2> QED BY <2>3 DEF Last
<1>4. Grows(record, those, p, n, more)
  <2> HIDE DEF n
  <2> QED BY ONLY <1>1, <1>2, those \in SUBSET Nat, IsFiniteSet(those), p \in Nat,
                  \A i \in those : i < p, OnePlaceMore
<1>5. CASE Elsewhere(record, those, p)
  <2>1. after = Append(stops, stop)
    BY <1>3, <1>5 DEF WithStop
  <2>2. /\ Len(after) = n + 1 /\ after[n + 1] = stop
        /\ \A i \in 1 .. n : after[i] = stops[i]
    BY <1>2, <2>1, AppendHas DEF Appended
  <2>3. /\ At(record, more, n + 1) = {p}
        /\ \A place \in 1 .. n : At(record, more, place) = At(record, those, place)
    BY <1>4, <1>5 DEF Grows
  <2>4. \A place \in 1 .. n + 1 : place = n + 1 \/ place \in 1 .. n
    BY <1>2
  <2> HIDE DEF after, n
  <2>5. ASSUME NEW place \in 1 .. n + 1
        PROVE  \/ /\ after[place] = stop /\ p \in At(record, more, place)
                  /\ Fronts(record, At(record, more, place), p)
               \/ /\ place \in 1 .. n /\ after[place] = stops[place]
                  /\ At(record, those, place) \subseteq At(record, more, place)
                  /\ At(record, more, place) \subseteq At(record, those, place) \cup {p}
    <3>1. CASE place = n + 1
      BY <2>2, <2>3, <3>1 DEF Fronts
    <3>2. CASE place \in 1 .. n
      BY <2>2, <2>3, <3>2
    <3> QED BY <2>4, <3>1, <3>2
  <2> QED BY <1>1, <2>2, <2>5 DEF NewOrOld, after, n
<1>6. CASE ~Elsewhere(record, those, p)
  <2>1. stops # <<>> /\ Last(stops).crs = stop.crs
    BY <1>3, <1>6
  <2>2. /\ At(record, more, n) = At(record, those, n) \cup {p}
        /\ \A place \in 1 .. n - 1 : At(record, more, place) = At(record, those, place)
    BY <1>4, <1>6 DEF Grows
  <2>3. Last(stops) = before
    BY DEF Last
  <2>4. CASE TakesThePlaceOf(stop, Last(stops))
    <3>1. after = Append(Front(stops), stop)
      BY <2>1, <2>4 DEF WithStop
    <3>2. /\ Len(after) = n /\ after[n] = stop
          /\ \A i \in 1 .. n - 1 : after[i] = stops[i]
      <4>1. PICK other : other = Append(Front(stops), stop)
        OBVIOUS
      <4>2. /\ Len(other) = Len(stops) /\ other[Len(stops)] = stop
            /\ \A i \in 1 .. Len(stops) - 1 : other[i] = stops[i]
        BY ONLY <1>2, <2>1, <4>1, LastReplaced, ZenonT(20)
      <4> HIDE DEF after
      <4> QED BY <3>1, <4>1, <4>2
    <3>3. \A place \in 1 .. n : place = n \/ place \in 1 .. n - 1
      BY <1>2
    <3> HIDE DEF after, n
    <3>4. ASSUME NEW place \in 1 .. n
          PROVE  \/ /\ after[place] = stop /\ p \in At(record, more, place)
                    /\ Fronts(record, At(record, more, place), p)
                 \/ /\ place \in 1 .. n /\ after[place] = stops[place]
                    /\ At(record, those, place) \subseteq At(record, more, place)
                    /\ At(record, more, place) \subseteq At(record, those, place) \cup {p}
      <4>1. CASE place = n
        <5>1. \/ record.locations[p].boards
              \/ \A k \in At(record, those, n) : Passing(record.locations[k])
          <6>1. ServesPlace(before, record, At(record, those, n))
            BY <1>2, <2>1 DEF ServesStops, n, before
          <6> HIDE DEF before
          <6> QED BY <2>3, <2>4, <6>1 DEF TakesThePlaceOf, ServesPlace
        <5>2. Fronts(record, At(record, more, n), p)
          BY <2>2, <5>1 DEF Fronts
        <5> QED BY <2>2, <3>2, <4>1, <5>2
      <4>2. CASE place \in 1 .. n - 1
        BY <2>2, <3>2, <4>2
      <4> QED BY <3>3, <4>1, <4>2
    <3> QED BY <1>1, <3>2, <3>4 DEF NewOrOld, after, n
  <2>5. CASE ~TakesThePlaceOf(stop, Last(stops))
    <3>1. after = stops
      BY <2>1, <2>5 DEF WithStop
    <3>2. \A place \in 1 .. n : place = n \/ place \in 1 .. n - 1
      BY <1>2
    <3> HIDE DEF after, n
    <3>3. ASSUME NEW place \in 1 .. n
          PROVE  /\ At(record, those, place) \subseteq At(record, more, place)
                 /\ At(record, more, place) \subseteq At(record, those, place) \cup {p}
      BY <2>2, <3>2
    <3> QED BY <1>1, <3>1, <3>3 DEF NewOrOld, after, n
  <2> QED BY <2>4, <2>5
<1> QED BY <1>5, <1>6

(* So one more stop is told the times of its place, if they all are. *)
LEMMA TakenOnceMore ==
  ASSUME NEW record, NEW those \in SUBSET Nat, IsFiniteSet(those),
         NEW p \in Nat, \A i \in those : i < p,
         NEW stops, ServesStops(stops, record, those),
         NEW hour, TakenFrom(stops, record, those, hour),
         NEW stop, stop = StopAt(record.locations[p], hour)
  PROVE  TakenFrom(WithStop(stops, stop), record, those \cup {p}, hour)
<1>1. stop.crs = record.locations[p].crs /\ stop.boards = record.locations[p].boards
  BY DEF StopAt
<1>2. PICK after : after = WithStop(stops, stop)
  OBVIOUS
<1>3. NewOrOld(after, stops, stop, record, those, p)
  BY <1>1, <1>2, StopsAreNewOrOld
<1>4. ASSUME NEW place \in 1 .. Len(after)
      PROVE  \E i \in At(record, those \cup {p}, place) :
               /\ Fronts(record, At(record, those \cup {p}, place), i)
               /\ after[place] = StopAt(record.locations[i], hour)
  <2>1. CASE /\ after[place] = stop /\ p \in At(record, those \cup {p}, place)
             /\ Fronts(record, At(record, those \cup {p}, place), p)
    BY <2>1
  <2>2. CASE /\ place \in 1 .. Len(stops) /\ after[place] = stops[place]
             /\ At(record, those, place) \subseteq At(record, those \cup {p}, place)
             /\ At(record, those \cup {p}, place) \subseteq At(record, those, place) \cup {p}
    <3>1. PICK i \in At(record, those, place) :
            /\ Fronts(record, At(record, those, place), i)
            /\ stops[place] = StopAt(record.locations[i], hour)
      BY <2>2 DEF TakenFrom
    <3>2. i < p /\ i \in Nat
      BY DEF At
    <3>3. ~(p < i)
      BY <3>2
    <3>4. Fronts(record, At(record, those \cup {p}, place), i)
      BY <2>2, <3>1, <3>3 DEF Fronts
    <3> QED BY <2>2, <3>1, <3>4
  <2> QED BY <1>3, <2>1, <2>2 DEF NewOrOld
<1> QED BY <1>2, <1>4 DEF TakenFrom

(* The hour is that of the first row, and a stop is told by it. *)
LEMMA HourIsKept ==
  ASSUME NEW record, NEW cursor, IsACursor(cursor),
         cursor = NewCursor \/ cursor.record = <<Identity(record)>>,
         NEW row, row.record = Identity(record), NEW removes,
         NEW next, next = Processed(cursor, row, removes)
  PROVE  /\ next.stops = IF BecomesAStop(row, removes)
                         THEN WithStop(cursor.stops, StopAt(row.location[1], next.originHour))
                         ELSE cursor.stops
         /\ cursor = NewCursor => next.originHour = HourOf(row)
         /\ cursor.record = <<Identity(record)>> => next.originHour = cursor.originHour
<1>1. PICK begun : begun = Begun(cursor, row)
  OBVIOUS
<1>2. /\ IsACursor(begun) /\ begun.stops = cursor.stops
      /\ cursor = NewCursor => begun.originHour = HourOf(row)
      /\ cursor.record = <<Identity(record)>> => begun.originHour = cursor.originHour
  <2>1. CASE cursor = NewCursor
    <3>1. Starts(cursor, row) /\ cursor.record # <<Identity(record)>>
      BY <2>1 DEF Starts, NewCursor
    <3> QED BY <1>1, <2>1, <3>1 DEF Begun, NewCursor, IsACursor, HourOf
  <2>2. CASE cursor.record = <<Identity(record)>>
    <3>1. DOMAIN cursor.record = 1 .. 1 /\ cursor.record[1] = Identity(record)
      BY <2>2
    <3>2. ~Starts(cursor, row) /\ cursor # NewCursor
      BY <2>2, <3>1 DEF Starts, NewCursor
    <3> QED BY <1>1, <3>2 DEF Begun
  <2> QED BY <2>1, <2>2
<1>3. PICK stopping :
        stopping = IF BecomesAStop(row, removes)
                   THEN WithStop(begun.stops, StopAt(row.location[1], begun.originHour))
                   ELSE begun.stops
  OBVIOUS
<1>4. PICK along :
        along = IF Called(row) THEN WithPath(begun.path, row.location[1].crs) ELSE begun.path
  OBVIOUS
<1>5. next = [begun EXCEPT !.record = <<row.record>>, !.path = along, !.stops = stopping]
  BY <1>1, <1>2, <1>3, <1>4 DEF Processed, IsACursor
<1>6. next.stops = stopping /\ next.originHour = begun.originHour
  BY <1>2, <1>5 DEF IsACursor
<1> QED BY <1>2, <1>3, <1>6

TakesTheirTimes(cursor, record, removes, j) ==
  /\ Serves(cursor, record, removes, j)
  /\ j # 0 => cursor.originHour = HourOf(Own(record)[1])
  /\ TakenFrom(cursor.stops, record, Seen(record, removes, j), HourOf(Own(record)[1]))

(* One row more, *)
LEMMA TimesOfOneMore ==
  ASSUME NEW records, IsATable(records), NEW record \in records, NEW removes,
         NEW j \in Nat, j < Length(record),
         NEW cursor, IsACursor(cursor),
         (j = 0 /\ cursor = NewCursor) \/ (j # 0 /\ cursor.record = <<Identity(record)>>),
         TakesTheirTimes(cursor, record, removes, j)
  PROVE  TakesTheirTimes(Processed(cursor, Own(record)[j + 1], removes), record, removes, j + 1)
<1>1. PICK row : row = Own(record)[j + 1]
  OBVIOUS
<1>2. PICK those : those = Seen(record, removes, j)
  OBVIOUS
<1>3. PICK p : p = row.stop
  OBVIOUS
<1>4. PICK hour : hour = HourOf(Own(record)[1])
  OBVIOUS
<1>5. /\ row.record = Identity(record) /\ p \in Nat
      /\ Called(row) => row.location[1] = record.locations[p]
  <2>1. j + 1 \in 1 .. Length(record)
    BY OwnRowsInOrder
  <2> QED BY <1>1, <1>3, <2>1, OwnRowsInOrder
<1>6. /\ those \in SUBSET Nat /\ IsFiniteSet(those) /\ \A i \in those : i < p
      /\ Seen(record, removes, j + 1) = those \cup (IF BecomesAStop(row, removes) THEN {p} ELSE {})
  <2>1. j <= Length(record)
    BY OwnRowsInOrder
  <2> QED BY <1>1, <1>2, <1>3, <2>1, SeenSoFar
<1>7. PICK next : next = Processed(cursor, row, removes)
  OBVIOUS
<1>8. /\ next.stops = IF BecomesAStop(row, removes)
                      THEN WithStop(cursor.stops, StopAt(row.location[1], next.originHour))
                      ELSE cursor.stops
      /\ cursor = NewCursor => next.originHour = HourOf(row)
      /\ cursor.record = <<Identity(record)>> => next.originHour = cursor.originHour
  BY <1>5, <1>7, HourIsKept
<1>9. next.originHour = hour
  BY <1>1, <1>4, <1>8 DEF TakesTheirTimes
<1>10. ServesStops(cursor.stops, record, those) /\ TakenFrom(cursor.stops, record, those, hour)
  BY <1>2, <1>4 DEF TakesTheirTimes, Serves
<1>11. TakenFrom(next.stops, record, Seen(record, removes, j + 1), hour)
  <2>1. CASE BecomesAStop(row, removes)
    <3>1. row.location[1] = record.locations[p]
      BY <1>5, <2>1 DEF BecomesAStop
    <3>2. PICK stop : stop = StopAt(record.locations[p], hour)
      OBVIOUS
    <3>3. next.stops = WithStop(cursor.stops, stop)
      BY <1>8, <1>9, <2>1, <3>1, <3>2
    <3>4. PICK stops : stops = cursor.stops
      OBVIOUS
    <3>5. ServesStops(stops, record, those) /\ TakenFrom(stops, record, those, hour)
      BY <1>10, <3>4
    <3>6. TakenFrom(WithStop(stops, stop), record, those \cup {p}, hour)
      BY ONLY <1>5, <1>6, <3>2, <3>5, TakenOnceMore
    <3> QED BY <1>6, <2>1, <3>3, <3>4, <3>6
  <2>2. CASE ~BecomesAStop(row, removes)
    BY <1>6, <1>8, <1>10, <2>2
  <2> QED BY <2>1, <2>2
<1>12. Serves(next, record, removes, j + 1)
  <2>1. Serves(cursor, record, removes, j)
    BY DEF TakesTheirTimes
  <2>2. Serves(Processed(cursor, Own(record)[j + 1], removes), record, removes, j + 1)
    BY <2>1, OneRowMore
  <2> QED BY <1>1, <1>7, <2>2
<1> QED BY <1>1, <1>4, <1>7, <1>9, <1>11, <1>12 DEF TakesTheirTimes

(* and so after all of them. *)
LEMMA CursorTakesTheirTimes ==
  ASSUME NEW records, IsATable(records), NEW record \in records, NEW removes
  PROVE  TakesTheirTimes(CursorAfter(Own(record), removes)[Length(record)], record, removes,
                         Length(record))
<1> DEFINE n == Length(record)
           f == CursorAfter(Own(record), removes)
           S == {j \in Nat : j <= n => TakesTheirTimes(f[j], record, removes, j)}
<1>1. /\ n \in Nat /\ f[0] = NewCursor
      /\ \A j \in 1 .. n : /\ f[j] = Processed(f[j - 1], Own(record)[j], removes)
                           /\ IsACursor(f[j]) /\ f[j].record = <<Identity(record)>>
  BY OwnRowsAre
<1>2. 0 \in S
  <2>1. 0 <= n
    BY <1>1
  <2>2. Seen(record, removes, 0) = {} /\ Gone(record, 0) = {}
    BY <2>1, SeenSoFar
  <2>3. Cardinality(NewPlaces(record, {})) = 0
    BY PlacesOfNone
  <2>4. NewCursor.stops = <<>> /\ NewCursor.path = <<>>
    BY DEF NewCursor
  <2>5. ServesStops(<<>>, record, {}) /\ ServesPath(<<>>, record, {})
    BY <2>3 DEF ServesStops, ServesPath, IsSeq
  <2>6. Serves(NewCursor, record, removes, 0)
    BY <2>2, <2>4, <2>5 DEF Serves
  <2>7. TakenFrom(<<>>, record, {}, HourOf(Own(record)[1]))
    BY DEF TakenFrom
  <2>8. TakesTheirTimes(NewCursor, record, removes, 0)
    BY <2>2, <2>4, <2>6, <2>7 DEF TakesTheirTimes
  <2> HIDE DEF f
  <2> QED BY <1>1, <2>8
<1>3. ASSUME NEW j \in S PROVE j + 1 \in S
  <2> SUFFICES ASSUME j + 1 <= n PROVE TakesTheirTimes(f[j + 1], record, removes, j + 1)
    OBVIOUS
  <2>1. /\ j \in Nat /\ j < n /\ j <= n /\ j + 1 \in 1 .. n /\ (j + 1) - 1 = j
        /\ j = 0 \/ j \in 1 .. n
    BY <1>1
  <2>2. TakesTheirTimes(f[j], record, removes, j)
    BY <2>1
  <2>3. f[j + 1] = Processed(f[j], Own(record)[j + 1], removes)
    BY <1>1, <2>1
  <2>4. IsACursor(NewCursor)
    BY DEF NewCursor, IsACursor
  <2> HIDE DEF f
  <2>5. PICK cursor : cursor = f[j]
    OBVIOUS
  <2>6. /\ IsACursor(cursor)
        /\ (j = 0 /\ cursor = NewCursor) \/ (j # 0 /\ cursor.record = <<Identity(record)>>)
    BY <1>1, <2>1, <2>4, <2>5
  <2>7. TakesTheirTimes(Processed(cursor, Own(record)[j + 1], removes), record, removes, j + 1)
    BY <2>1, <2>2, <2>5, <2>6, TimesOfOneMore
  <2> QED BY <2>3, <2>5, <2>7
<1>4. n \in S
  <2>1. S \in SUBSET Nat
    OBVIOUS
  <2> HIDE DEF S
  <2> QED BY <1>1, <1>2, <1>3, <2>1, SetInduction
<1> QED BY <1>1, <1>4

(* The stops of a schedule, with their times, before they are told on a clock. *)
LEMMA ToldOf ==
  ASSUME NEW records, IsATable(records), NEW record \in records, NEW removes,
         Length(record) # 0, NEW schedule, MadeFrom(schedule, record, removes)
  PROVE  \E stops :
           /\ ServesStops(stops, record, StopsOf(record, removes))
           /\ TakenFrom(stops, record, StopsOf(record, removes), HourOf(Own(record)[1]))
           /\ schedule.stops = IF removes THEN stops ELSE OnPublicClock(stops)
<1> DEFINE n == Length(record)
<1>1. PICK cursor : cursor = CursorAfter(Own(record), removes)[n]
  OBVIOUS
<1>2. /\ n \in Nat /\ Len(Own(record)) = n
      /\ cursor.record = <<Identity(record)>>
  <2>1. n \in Nat /\ n \in 1 .. n
    BY OwnRowsAre
  <2> QED BY <1>1, <2>1, OwnRowsAre
<1>3. schedule = BuiltFrom(Identity(record), cursor, removes)
  <2>1. <<schedule>> = Flush(cursor, removes)
    BY <1>1, <1>2 DEF MadeFrom, Load
  <2>2. Flush(cursor, removes) = <<BuiltFrom(Identity(record), cursor, removes)>>
    BY <1>2, FlushOfARecord
  <2> QED BY <2>1, <2>2
<1>4. TakesTheirTimes(cursor, record, removes, n)
  BY <1>1, CursorTakesTheirTimes
<1>5. Seen(record, removes, n) = StopsOf(record, removes)
  BY CursorServes
<1>6. /\ ServesStops(cursor.stops, record, StopsOf(record, removes))
      /\ TakenFrom(cursor.stops, record, StopsOf(record, removes), HourOf(Own(record)[1]))
  BY <1>4, <1>5 DEF TakesTheirTimes, Serves
<1>7. schedule.stops = IF removes THEN cursor.stops ELSE OnPublicClock(cursor.stops)
  BY <1>3 DEF BuiltFrom
<1> QED BY <1>6, <1>7

-----------------------------------------------------------------------------
(***************************************************************************)
(* Where a train runs within a day, formatTime tells the day it is told on.*)
(***************************************************************************)
LEMMA RolledOverIs ==
  ASSUME NEW left \in Nat, NEW time \in Nat, Since(left, time) < EndOfDay(left)
  PROVE  RolledOver(time, left \div Hour) = Since(left, time) /\ Since(left, time) \in Nat
<1>1. time # NoTime
  BY DEF NoTime
<1>2. CASE time >= left
  <2>1. ~(left \div 120 > time \div 120)
    BY <1>2
  <2> QED BY <1>2, <2>1 DEF RolledOver, Since, Hour
<1>3. CASE time < left
  <2>1. Since(left, time) = time + 2880
    BY <1>3 DEF Since, Day, Hour
  <2>2. left \div 120 \in Nat /\ time \div 120 \in Nat
    OBVIOUS
  <2>3. left \div 120 >= 4
    BY <2>1, <2>2 DEF EndOfDay, Day, Hour
  <2>4. time < (left \div 120) * 120
    BY <2>1, <2>2, <2>3 DEF EndOfDay, Day, Hour
  <2>5. left \div 120 > time \div 120
    BY <2>2, <2>4
  <2> QED BY <1>1, <2>1, <2>3, <2>5 DEF RolledOver, Day, Hour
<1> QED BY <1>2, <1>3

(* So a call is told when it is. *)
LEMMA CallIsTold ==
  ASSUME NEW location \in Location, ~Passing(location), HasTime(location), NEW left \in Nat,
         ToldToArrive(location, left) < EndOfDay(left),
         ToldToLeave(location, left) < EndOfDay(left)
  PROVE  /\ StopAt(location, left \div Hour).arrival = ToldToArrive(location, left)
         /\ StopAt(location, left \div Hour).departure = ToldToLeave(location, left)
<1>1. PICK times : times = TimesOf(location)
  OBVIOUS
<1>2. PICK one : one = times[1]
  OBVIOUS
<1>3. PICK other : other = times[2]
  OBVIOUS
<1>4. one \in Time /\ other \in Time /\ (one # NoTime \/ other # NoTime)
  <2>1. times = <<times[1], times[2]>>
    BY <1>1 DEF TimesOf
  <2>2. times[1] \in Time /\ times[2] \in Time
    BY <1>1 DEF TimesOf, Location
  <2>3. ToSet(times) = {times[1], times[2]}
    BY <2>1 DEF ToSet
  <2> QED BY <1>1, <1>2, <1>3, <2>2, <2>3 DEF HasTime
<1>5. OneOf(one, other) \in Nat /\ OneOf(other, one) \in Nat
  BY <1>4 DEF OneOf, Time
<1>6. /\ ToldToArrive(location, left) = Since(left, OneOf(one, other))
      /\ ToldToLeave(location, left) = Since(left, OneOf(other, one))
  BY <1>1, <1>2, <1>3 DEF ToldToArrive, ToldToLeave
<1>7. /\ RolledOver(OneOf(one, other), left \div Hour) = Since(left, OneOf(one, other))
      /\ RolledOver(OneOf(other, one), left \div Hour) = Since(left, OneOf(other, one))
  BY <1>5, <1>6, RolledOverIs
<1>8. PICK hour : hour = left \div Hour
  OBVIOUS
<1>9. /\ StopAt(location, hour).arrival = RolledOver(OneOf(one, other), hour)
      /\ StopAt(location, hour).departure = RolledOver(OneOf(other, one), hour)
  BY <1>1, <1>2, <1>3 DEF StopAt
<1> QED BY <1>6, <1>7, <1>8, <1>9

(***************************************************************************)
(* An origin that publishes a time is the first row and the first place.   *)
(***************************************************************************)
LEMMA OriginIs ==
  ASSUME NEW records, IsATable(records), NEW record \in records, NEW removes,
         StopsOf(record, removes) # {},
         OriginIsPublished(record), ~Passing(record.locations[1])
  PROVE  /\ record.locations # <<>> /\ record.locations[1] \in Location
         /\ 1 \in At(record, StopsOf(record, removes), 1)
         /\ OneOf(record.locations[1].publicArr, record.locations[1].publicDep) \in Nat
         /\ HourOf(Own(record)[1])
              = OneOf(record.locations[1].publicArr, record.locations[1].publicDep) \div Hour
<1> DEFINE stops == StopsOf(record, removes)
           origin == record.locations[1]
           row == [record |-> Identity(record), stop |-> 1, location |-> <<origin>>]
<1>1. record \in Record /\ record.locations \in Seq(Location)
  BY TheirRows DEF Record
<1>2. ASSUME NEW i \in stops
      PROVE  record.stp # "C" /\ record.locations # <<>> /\ i \in DOMAIN record.locations
  <2>1. PICK other \in RowsOf(record) : BecomesAStop(other, removes) /\ i = other.stop
    BY DEF StopsOf
  <2>2. other.record.stp # "C" /\ other.location # <<>>
    BY <2>1 DEF BecomesAStop, Called
  <2>3. /\ other.record.stp = record.stp
        /\ \/ other.location = <<>>
           \/ other.stop \in DOMAIN record.locations
    <3>1. PICK nothing : nothing = <<>>
      OBVIOUS
    <3> QED BY <1>1, RowIs
  <2>4. record.locations # <<>>
    BY <2>1, <2>2, <2>3
  <2> QED BY <2>1, <2>2, <2>3, <2>4
<1>3. record.stp # "C" /\ record.locations # <<>>
  BY <1>2
<1>4. 1 \in DOMAIN record.locations /\ origin \in Location
  BY <1>1, <1>3
<1>5. origin.crs \notin Placeholders \cup {NoStation}
  BY DEF OriginIsPublished
<1>6. row \in RowsOf(record)
  BY <1>3, <1>4, <1>5 DEF RowsOf
<1>7. BecomesAStop(row, removes)
  <2>1. row.location # <<>> /\ row.location[1] = origin /\ row.record.stp = record.stp
    BY DEF Identity
  <2> HIDE DEF row, origin
  <2> QED BY <1>3, <1>5, <2>1 DEF BecomesAStop, Called, origin
<1>8. 1 \in stops
  BY <1>6, <1>7 DEF StopsOf
<1>9. Own(record)[1] = row
  <2>1. PICK j \in 1 .. Length(record) : Own(record)[j] = row
    BY <1>6, OwnRowsInOrder
  <2>2. Length(record) \in Nat /\ 1 \in 1 .. Length(record)
    BY <2>1, OwnRowsInOrder
  <2>3. Own(record)[1] \in RowsOf(record)
    BY <2>2, OwnRowsInOrder
  <2>4. Own(record)[1].stop \in DOMAIN record.locations
    BY <1>1, <1>3, <2>3, RowIs
  <2>5. Own(record)[1].stop >= 1
    BY <1>1, <2>4
  <2>6. 1 < j => Own(record)[1].stop < Own(record)[j].stop
    BY <2>2, OwnRowsInOrder
  <2>7. ~(1 < j)
    BY <1>1, <2>1, <2>4, <2>5, <2>6
  <2> QED BY <2>1, <2>2, <2>7
<1>10. HourOf(Own(record)[1]) = OriginHour(origin)
  <2>1. row.location = <<origin>> /\ <<origin>> # <<>> /\ <<origin>>[1] = origin
    OBVIOUS
  <2> HIDE DEF row, origin
  <2> QED BY <1>9, <2>1 DEF HourOf
<1>11. PICK left : left = OneOf(origin.publicArr, origin.publicDep)
  OBVIOUS
<1>12. left \in Nat /\ OriginHour(origin) = left \div Hour
  <2>1. left # NoTime
    BY <1>11 DEF OriginIsPublished
  <2>2. left \in Time
    BY <1>4, <1>11 DEF Location, OneOf
  <2> QED BY <1>11, <2>1, <2>2 DEF OriginHour, Time
<1>13. 1 \in At(record, stops, 1)
  <2>1. \A i \in stops : i \in Nat /\ i >= 1
    BY <1>1, <1>2
  <2>2. 1 \in NewPlaces(record, stops)
    BY <1>8, <2>1 DEF NewPlaces
  <2>3. {j \in NewPlaces(record, stops) : j <= 1} = {1}
    <3>1. \A j \in NewPlaces(record, stops) : j \in stops
      BY DEF NewPlaces
    <3>2. \A j \in NewPlaces(record, stops) : j <= 1 => j = 1
      BY <2>1, <3>1
    <3> QED BY <2>2, <3>2
  <2>4. PlaceNumber(record, stops, 1) = 1
    BY <2>3, FS_Singleton DEF PlaceNumber
  <2> HIDE DEF stops
  <2> QED BY <1>8, <2>4 DEF At
<1> QED BY <1>3, <1>4, <1>10, <1>11, <1>12, <1>13

(***************************************************************************)
(* The first stop is a call, and no later than any other is told.          *)
(***************************************************************************)
FirstOfTheCalls(stops) ==
  /\ ~stops[1].passing
  /\ \A c \in Calls(stops) : /\ stops[1].arrival <= stops[c].arrival
                             /\ stops[1].arrival <= stops[c].departure

LEMMA CallsAfterTheOrigin ==
  ASSUME NEW records, IsATable(records), NEW record \in records, NEW removes,
         OriginIsPublished(record), RunsWithinADay(record, removes),
         \A i \in StopsOf(record, removes) : HasTime(record.locations[i]),
         NEW stops, ServesStops(stops, record, StopsOf(record, removes)), stops # <<>>,
         TakenFrom(stops, record, StopsOf(record, removes), HourOf(Own(record)[1]))
  PROVE  FirstOfTheCalls(stops)
<1>1. PICK those : those = StopsOf(record, removes)
  OBVIOUS
<1>2. PICK location : location = record.locations
  OBVIOUS
<1>3. /\ ServesStops(stops, record, those) /\ IsSeq(stops)
      /\ Len(stops) \in Nat \ {0}
  BY <1>1, SequenceHas DEF ServesStops, IsSeq
<1>4. those # {} /\ ~Passing(location[1])
  <2>1. those # {}
    BY <1>3, PlacesOfNone DEF ServesStops
  <2> QED BY <1>2, <2>1 DEF RunsWithinADay
<1>5. PICK left : left = OneOf(location[1].publicArr, location[1].publicDep)
  OBVIOUS
<1>6. /\ 1 \in At(record, those, 1) /\ left \in Nat
      /\ HourOf(Own(record)[1]) = left \div Hour
  BY <1>1, <1>2, <1>4, <1>5, OriginIs
<1>7. \A i \in those : location[i] \in Location
  <2>1. ASSUME NEW i \in those PROVE location[i] \in Location
    <3>1. PICK row \in RowsOf(record) : BecomesAStop(row, removes) /\ i = row.stop
      BY <1>1 DEF StopsOf
    <3>2. PICK j \in 1 .. Length(record) : Own(record)[j] = row
      BY OwnRowsInOrder
    <3>3. Called(row)
      BY <3>1 DEF BecomesAStop
    <3> QED BY <1>2, <3>1, <3>2, <3>3, OwnRowsInOrder
  <2> QED BY <2>1
<1> DEFINE Call(i) == i \in those /\ ~Passing(location[i]) /\ MayBeTold(record, those, i)
           arrives(i) == ToldToArrive(location[i], left)
           leaves(i) == ToldToLeave(location[i], left)
<1>8. /\ \A i : Call(i) => arrives(i) < EndOfDay(left) /\ leaves(i) < EndOfDay(left)
      /\ \A i, j : Call(i) /\ i \in At(record, those, 1) /\ Call(j) =>
           /\ j \notin At(record, those, 1) => arrives(i) <= arrives(j)
           /\ j \notin At(record, those, 1) \/ j = i => arrives(i) <= leaves(j)
  <2> DEFINE calls == {k \in those : /\ ~Passing(location[k]) /\ HasTime(location[k])
                                    /\ MayBeTold(record, those, k)}
  <2>1. \A i : Call(i) <=> i \in calls
    BY <1>1, <1>2
  <2>2. /\ \A i \in calls : arrives(i) < EndOfDay(left) /\ leaves(i) < EndOfDay(left)
        /\ \A i \in calls \cap At(record, those, 1) : \A j \in calls :
             /\ j \notin At(record, those, 1) => arrives(i) <= arrives(j)
             /\ j \notin At(record, those, 1) \/ j = i => arrives(i) <= leaves(j)
    BY <1>1, <1>2, <1>5 DEF RunsWithinADay
  <2> HIDE DEF Call, arrives, leaves, calls
  <2> QED BY <2>1, <2>2
<1>9. ASSUME NEW place \in 1 .. Len(stops), ~stops[place].passing
      PROVE  \E i \in At(record, those, place) :
               /\ Call(i)
               /\ stops[place].arrival = arrives(i)
               /\ stops[place].departure = leaves(i)
  <2>1. PICK i \in At(record, those, place) :
          /\ Fronts(record, At(record, those, place), i)
          /\ stops[place] = StopAt(location[i], left \div Hour)
    BY <1>1, <1>2, <1>6 DEF TakenFrom
  <2>2. i \in those /\ PlaceNumber(record, those, i) = place
    BY <2>1 DEF At
  <2>3. StopAt(location[i], left \div Hour).passing = Passing(location[i])
    BY <1>7, <2>2, StopAtIs
  <2>4. Call(i)
    <3>1. MayBeTold(record, those, i)
      BY <2>1, <2>2 DEF MayBeTold, Fronts
    <3> QED BY <1>9, <2>1, <2>2, <2>3, <3>1
  <2>5. HasTime(location[i])
    BY <1>1, <1>2, <2>2
  <2>6. /\ StopAt(location[i], left \div Hour).arrival = arrives(i)
        /\ StopAt(location[i], left \div Hour).departure = leaves(i)
    <3>1. PICK l \in Location : l = location[i]
      BY <1>7, <2>2
    <3>2. /\ ~Passing(l) /\ HasTime(l)
          /\ ToldToArrive(l, left) < EndOfDay(left) /\ ToldToLeave(l, left) < EndOfDay(left)
      BY <1>8, <2>4, <2>5, <3>1
    <3>3. /\ StopAt(l, left \div Hour).arrival = ToldToArrive(l, left)
          /\ StopAt(l, left \div Hour).departure = ToldToLeave(l, left)
      BY ONLY <1>6, <3>2, CallIsTold
    <3> QED BY <3>1, <3>3
  <2> QED BY <2>1, <2>4, <2>6
<1> HIDE DEF Call, arrives, leaves
<1>10. 1 \in 1 .. Len(stops) /\ ~stops[1].passing
  <2>1. 1 \in 1 .. Len(stops)
    BY <1>3
  <2>2. ServesPlace(stops[1], record, At(record, those, 1))
    BY <1>3, <2>1 DEF ServesStops
  <2> QED BY <1>2, <1>4, <1>6, <2>1, <2>2 DEF ServesPlace
<1>11. PICK i \in At(record, those, 1) : Call(i) /\ stops[1].arrival = arrives(i)
                                         /\ stops[1].departure = leaves(i)
  BY <1>9, <1>10
<1>12. ASSUME NEW c \in Calls(stops)
       PROVE  stops[1].arrival <= stops[c].arrival /\ stops[1].arrival <= stops[c].departure
  <2>1. c \in 1 .. Len(stops) /\ ~stops[c].passing
    BY DEF Calls
  <2>2. IsAStop(stops[1])
    BY <1>3, <1>10 DEF ServesStops
  <2>3. CASE c = 1
    <3>1. stops[1].arrival <= stops[1].arrival
      BY <2>2 DEF IsAStop
    <3>2. arrives(i) <= leaves(i)
      BY <1>8, <1>11
    <3> QED BY <1>11, <2>3, <3>1, <3>2
  <2>4. CASE c # 1
    <3>1. PICK j \in At(record, those, c) : Call(j) /\ stops[c].arrival = arrives(j)
                                            /\ stops[c].departure = leaves(j)
      BY <1>9, <2>1
    <3>2. j \notin At(record, those, 1)
      BY <2>4, <3>1 DEF At
    <3>3. arrives(i) <= arrives(j) /\ arrives(i) <= leaves(j)
      BY <1>8, <1>11, <3>1, <3>2
    <3> QED BY <1>11, <3>1, <3>3
  <2> QED BY <2>3, <2>4
<1> QED BY <1>10, <1>12 DEF FirstOfTheCalls

(* On the public clock, what is passed is told no earlier than the last call behind it, *)
LEMMA PassAfterTheCallBehind ==
  ASSUME NEW stops, AreStops(stops), NEW k \in 1 .. Len(stops),
         NEW from \in Calls(stops), from = Max(Behind(stops, k)), Behind(stops, k) # {}
  PROVE  PassTime(stops, k) \in Int /\ stops[from].departure <= PassTime(stops, k)
<1>1. /\ from \in 1 .. Len(stops) /\ from < k /\ from \in Int /\ k \in Int /\ Len(stops) \in Nat
  BY CallsAround, SequenceHas DEF Calls, AreStops
<1>2. CASE Ahead(stops, k) = {}
  <2>1. PassTime(stops, k) = PlacedAfter(stops, k, from)
    BY <1>2, PassTimeIs
  <2>2. k \in from + 1 .. Len(stops) /\ k \in from + 1 .. k
    BY <1>1
  <2> QED BY <1>1, <2>1, <2>2, AfterIs
<1>3. CASE Ahead(stops, k) # {}
  <2>1. PICK to : to = Min(Ahead(stops, k))
    OBVIOUS
  <2>2. to \in 1 .. Len(stops) /\ k < to
    BY <1>3, <2>1, CallsAround DEF Calls
  <2>3. PassTime(stops, k) = PlacedBetween(stops, k, from, to)
    BY <1>3, <2>1, PassTimeIs
  <2>4. from \in 1 .. to /\ k \in from + 1 .. to - 1 /\ k \in from + 1 .. k
    BY <1>1, <2>2
  <2> QED BY <2>2, <2>3, <2>4, BetweenIs
<1> QED BY <1>2, <1>3

(* and so no earlier than the first stop, if that is a call no later than any. *)
LEMMA NothingIsToldBefore ==
  ASSUME NEW stops, AreStops(stops), stops # <<>>, FirstOfTheCalls(stops)
  PROVE  NothingBeforeTheOrigin(OnPublicClock(stops))
<1> DEFINE told == OnPublicClock(stops)
<1>1. Len(stops) \in Nat \ {0} /\ 1 \in 1 .. Len(stops)
  BY SequenceHas DEF AreStops, IsSeq
<1>2. 1 \in Calls(stops)
  BY <1>1 DEF Calls, FirstOfTheCalls
<1>3. told = [i \in 1 .. Len(stops) |->
                IF stops[i].passing
                THEN [stops[i] EXCEPT !.arrival = PassTime(stops, i),
                                      !.departure = PassTime(stops, i)]
                ELSE stops[i]]
  BY <1>2 DEF OnPublicClock
<1> HIDE DEF told
<1>4. Len(told) = Len(stops) /\ told[1] = stops[1]
  <2>1. DOMAIN told = 1 .. Len(stops) /\ told = [i \in 1 .. Len(stops) |-> told[i]]
    BY <1>3
  <2>2. Len(told) = Len(stops)
    BY <1>1, <2>1, ListIsSeq
  <2> QED BY <1>1, <1>3, <2>2 DEF FirstOfTheCalls
<1>5. ASSUME NEW i \in 2 .. Len(stops) PROVE stops[1].arrival <= told[i].arrival
  <2>1. i \in 1 .. Len(stops) /\ 1 < i
    BY <1>1
  <2>2. CASE ~stops[i].passing
    <3>1. told[i] = stops[i] /\ i \in Calls(stops)
      BY <1>3, <2>1, <2>2 DEF Calls
    <3> QED BY <3>1 DEF FirstOfTheCalls
  <2>3. CASE stops[i].passing
    <3>1. PICK stop : stop = stops[i]
      OBVIOUS
    <3>2. PICK time : time = PassTime(stops, i)
      OBVIOUS
    <3>3. IsAStop(stop)
      BY <2>1, <3>1 DEF AreStops
    <3>4. told[i] = [stop EXCEPT !.arrival = time, !.departure = time]
      BY <1>3, <2>1, <2>3, <3>1, <3>2
    <3>5. told[i].arrival = time
      BY <3>3, <3>4 DEF IsAStop
    <3>6. PICK from : from = Max(Behind(stops, i))
      OBVIOUS
    <3>7. Behind(stops, i) # {}
      BY <1>2, <2>1 DEF Behind
    <3>8. from \in Calls(stops)
      BY <2>1, <3>6, <3>7, CallsAround
    <3>9. stops[from].departure <= time /\ time \in Int
      BY <2>1, <3>2, <3>6, <3>7, <3>8, PassAfterTheCallBehind
    <3>10. stops[1].arrival <= stops[from].departure
      BY <3>8 DEF FirstOfTheCalls
    <3>11. stops[1].arrival \in Int /\ stops[from].departure \in Int
      <4>1. from \in 1 .. Len(stops)
        BY <3>8 DEF Calls
      <4> QED BY <1>1, <4>1, StopsTimes
    <3> QED BY <3>5, <3>9, <3>10, <3>11
  <2> QED BY <2>2, <2>3
<1> QED BY <1>4, <1>5 DEF NothingBeforeTheOrigin, told

(* Nor without passes is anything. *)
LEMMA NothingIsCalledBefore ==
  ASSUME NEW stops, AreStops(stops), FirstOfTheCalls(stops),
         \A place \in 1 .. Len(stops) : ~stops[place].passing
  PROVE  NothingBeforeTheOrigin(stops)
<1>1. \A i \in 2 .. Len(stops) : i \in Calls(stops)
  <2>1. \A i \in 2 .. Len(stops) : i \in 1 .. Len(stops)
    BY SequenceHas DEF AreStops
  <2> QED BY <2>1 DEF Calls
<1> QED BY <1>1 DEF NothingBeforeTheOrigin, FirstOfTheCalls

(* So it is with one schedule, *)
LEMMA OriginOfOne ==
  ASSUME NEW records, IsATable(records), NEW record \in records, NEW removes \in BOOLEAN,
         Length(record) # 0, NEW schedule, MadeFrom(schedule, record, removes),
         schedule.stops # <<>>, OriginIsPublished(record),
         record.locations # <<>> => RunsWithinADay(record, removes),
         \A i \in StopsOf(record, removes) : HasTime(record.locations[i])
  PROVE  NothingBeforeTheOrigin(schedule.stops)
<1>1. PICK stops :
        /\ ServesStops(stops, record, StopsOf(record, removes))
        /\ TakenFrom(stops, record, StopsOf(record, removes), HourOf(Own(record)[1]))
        /\ schedule.stops = IF removes THEN stops ELSE OnPublicClock(stops)
  BY ToldOf
<1>2. AreStops(stops)
  BY <1>1 DEF AreStops, ServesStops
<1>3. stops # <<>>
  <2>1. ASSUME stops = <<>> PROVE schedule.stops = <<>>
    <3>1. Calls(stops) = {}
      BY <2>1 DEF Calls
    <3> QED BY <1>1, <2>1, <3>1 DEF OnPublicClock
  <2> QED BY <2>1
<1>4. record.locations # <<>>
  <2>1. Len(stops) # 0
    BY <1>2, <1>3, SequenceHas DEF AreStops, IsSeq
  <2>2. StopsOf(record, removes) # {}
    BY <1>1, <2>1, PlacesOfNone DEF ServesStops
  <2>3. PICK row \in RowsOf(record) : BecomesAStop(row, removes)
    BY <2>2 DEF StopsOf
  <2>4. row.location # <<>>
    BY <2>3 DEF BecomesAStop, Called
  <2> QED BY <2>4 DEF RowsOf
<1>5. FirstOfTheCalls(stops)
  BY <1>1, <1>3, <1>4, CallsAfterTheOrigin
<1>6. CASE removes = TRUE
  <2>1. \A place \in 1 .. Len(stops) : ~stops[place].passing
    BY <1>1, <1>6, NoStopIsPassed
  <2> QED BY <1>1, <1>2, <1>5, <1>6, <2>1, NothingIsCalledBefore
<1>7. CASE removes = FALSE
  BY <1>1, <1>2, <1>3, <1>5, <1>7, NothingIsToldBefore
<1> QED BY <1>6, <1>7

(* The other conjunct of TimesRunOn. *)
NothingBeforePublishedOrigins ==
  AllLoaded =>
    \A stream \in Streams : \A record \in RecordsOf(stream) :
      \A schedule \in ToSet(built) :
        schedule.id = record.id /\ schedule.stops # <<>> /\ OriginIsPublished(record)
          => NothingBeforeTheOrigin(schedule.stops)

(* A z-train under the id it goes by runs as it did. *)
LEMMA RunsAsItDid ==
  ASSUME NEW record, NEW other, NEW removes, other.locations = record.locations,
         other.stp = record.stp, RunsWithinADay(record, removes)
  PROVE  RunsWithinADay(other, removes)
<1>1. StopsOf(other, removes) = StopsOf(record, removes)
  <2>1. ASSUME NEW one, NEW two, one.locations = two.locations, one.stp = two.stp,
               NEW row \in RowsOf(one), BecomesAStop(row, removes)
        PROVE  row.stop \in StopsOf(two, removes)
    <3>1. PICK same : same = [row EXCEPT !.record = Identity(two)]
      OBVIOUS
    <3>2. /\ same \in RowsOf(two) /\ same.stop = row.stop /\ same.location = row.location
          /\ same.record.stp = row.record.stp
      <4>1. CASE one.locations = <<>>
        BY <2>1, <3>1, <4>1 DEF RowsOf, Identity
      <4>2. CASE one.locations # <<>>
        BY <2>1, <3>1, <4>2 DEF RowsOf, Identity
      <4> QED BY <4>1, <4>2
    <3>3. BecomesAStop(same, removes)
      BY <2>1, <3>2 DEF BecomesAStop, Called
    <3> QED BY <3>2, <3>3 DEF StopsOf
  <2>2. \A i : i \in StopsOf(record, removes) => i \in StopsOf(other, removes)
    BY <2>1 DEF StopsOf
  <2>3. \A i : i \in StopsOf(other, removes) => i \in StopsOf(record, removes)
    BY <2>1 DEF StopsOf
  <2> QED BY <2>2, <2>3 DEF StopsOf
<1>2. \A those, i : PlaceNumber(other, those, i) = PlaceNumber(record, those, i)
  <2>1. \A those : NewPlaces(other, those) = NewPlaces(record, those)
    BY DEF NewPlaces
  <2> QED BY <2>1 DEF PlaceNumber
<1>3. \A those, place : At(other, those, place) = At(record, those, place)
  BY <1>2 DEF At
<1>4. \A those, i : MayBeTold(other, those, i) <=> MayBeTold(record, those, i)
  BY <1>2, <1>3 DEF MayBeTold
<1> QED BY <1>1, <1>3, <1>4 DEF RunsWithinADay

(* and with all of them. *)
LEMMA OriginsOfAll ==
  ASSUME TrainsRunWithinADay, BuilderInv, AllFit, removePassingPoints \in BOOLEAN
  PROVE  NothingBeforePublishedOrigins
<1> SUFFICES ASSUME AllLoaded, NEW stream \in Streams, NEW record \in RecordsOf(stream),
                    NEW schedule \in ToSet(built), schedule.id = record.id,
                    schedule.stops # <<>>, OriginIsPublished(record)
             PROVE  NothingBeforeTheOrigin(schedule.stops)
  BY DEF NothingBeforePublishedOrigins
<1>1. tables["schedule"] # {} /\ Given
  BY DEF BuilderInv, AllIsRead, Given, AllLoaded, Streams
<1>2. AreRead(Recs) /\ TrainsAreBuiltWhole
  BY <1>1, RecsAreRead, WholeWhenLoaded
<1>3. record \in Recs[stream] /\ IsATable(Recs[stream])
  BY <1>2 DEF Recs, AreRead
<1>4. MadeFrom(schedule, record, removePassingPoints)
  BY <1>2 DEF TrainsAreBuiltWhole, MadeFrom, Own
<1>5. Length(record) # 0
  <2>1. PICK one \in UNION {RecordsOf(s) : s \in Streams} :
          RowsOf(one) # {} /\ schedule.id = one.id
    <3> DEFINE withRows == {r \in UNION {RecordsOf(s) : s \in Streams} : RowsOf(r) # {}}
    <3>1. {any.id : any \in ToSet(built)} = {one.id : one \in withRows}
      BY ONLY <1>2, AllLoaded DEF TrainsAreBuiltWhole
    <3>2. schedule.id \in {one.id : one \in withRows}
      BY <3>1
    <3> QED BY <3>2
  <2>2. PICK s \in Streams : one \in Recs[s]
    BY <2>1 DEF Recs
  <2>3. one = record
    BY <1>2, <1>3, <2>1, <2>2, OneRecordOf
  <2> QED BY <1>3, <2>1, <2>3, RowsOfOneRecord
<1>6. record.locations # <<>> => RunsWithinADay(record, removePassingPoints)
  <2>1. ASSUME NEW one \in tables[stream], OriginIsPublished(one), one.locations # <<>>
        PROVE  RunsWithinADay(one, removePassingPoints)
    BY <1>1, <2>1 DEF TrainsRunWithinADay, Given
  <2>2. CASE stream = "schedule"
    BY <2>1, <2>2 DEF RecordsOf
  <2>3. CASE stream # "schedule"
    <3>1. PICK one \in tables[stream] : record = ZTrain(one)
      BY <2>3 DEF RecordsOf, Streams
    <3>2. one \in Record
      BY <1>1, TablesAre DEF IsATable
    <3>3. record.locations = one.locations /\ record.stp = one.stp
      BY <1>1, <3>1, <3>2, ZTrainIs
    <3>4. OriginIsPublished(one)
      BY <3>3 DEF OriginIsPublished
    <3> QED BY <2>1, <3>3, <3>4, RunsAsItDid
  <2> QED BY <2>2, <2>3
<1>7. \A i \in StopsOf(record, removePassingPoints) : HasTime(record.locations[i])
  BY <1>3, StopsHaveTimes
<1> QED BY <1>3, <1>4, <1>5, <1>6, <1>7, OriginOfOne

OriginsInv == PassesInv /\ AllFit

(***************************************************************************)
(* Where trains run within a day, nothing of a train that is built is told *)
(* before its origin, if that publishes a time: neither what formatTime    *)
(* takes past midnight nor what onPublicClock places.  With the passes,    *)
(* this is TimesRunOn, of any tables, whatever turns the streams take.     *)
(***************************************************************************)
THEOREM TimesRunFromTheOrigin == TrainsRunWithinADay => (AllSpec => []TimesRunOn)
<1> SUFFICES ASSUME TrainsRunWithinADay PROVE AllSpec => []TimesRunOn
  OBVIOUS
<1>1. AllInit => OriginsInv
  BY AllStarts, FitsAtFirst DEF AllInit, BuilderInit, PassesInv, OriginsInv
<1>2. OriginsInv /\ [AllNext]_<<vars, builderVars>> => OriginsInv'
  <2> SUFFICES ASSUME OriginsInv, [AllNext]_<<vars, builderVars>> PROVE OriginsInv'
    OBVIOUS
  <2>1. BuilderNext \/ UNCHANGED builderVars
    BY DEF AllNext, LoadRows, Ended
  <2>2. removePassingPoints' = removePassingPoints
    BY <2>1 DEF BuilderNext, ProcessRow, RowThrows, EndOfRows, QueryFails, Arrives, builderVars
  <2>3. PassesInv'
    BY <2>2, AllSteps DEF OriginsInv, PassesInv
  <2>4. AllFit'
    <3>1. CASE BuilderNext
      BY <3>1, FitsGoOn DEF OriginsInv, PassesInv, AllInv
    <3>2. CASE UNCHANGED builderVars
      <4>1. /\ tables' = tables /\ rows' = rows /\ outcome' = outcome
            /\ removePassingPoints' = removePassingPoints
        BY <3>2 DEF builderVars
      <4>2. Recs' = Recs
        BY <4>1, RecsStay
      <4> QED BY <4>1, <4>2 DEF OriginsInv, AllFit
    <3> QED BY <2>1, <3>1, <3>2
  <2> QED BY <2>3, <2>4 DEF OriginsInv
<1>3. OriginsInv => TimesRunOn
  <2> SUFFICES ASSUME OriginsInv PROVE TimesRunOn
    OBVIOUS
  <2>1. PassesRunOn
    BY PassesOfAll DEF AllInv, PassesInv, OriginsInv
  <2>2. NothingBeforePublishedOrigins
    BY OriginsOfAll DEF AllInv, PassesInv, OriginsInv
  <2> QED BY <2>1, <2>2 DEF TimesRunOn, NothingBeforePublishedOrigins
<1> QED BY <1>1, <1>2, <1>3, PTL DEF AllSpec
=============================================================================
