------------------------ MODULE MergeFeedsProofs ------------------------
(***************************************************************************)
(* What the merge of MergeFeeds keeps, for any number of feeds, of rows    *)
(* and of stops, and any distance and length of week.                      *)
(*                                                                         *)
(* IInv is the inductive invariant, in four layers. Orderly: the files of  *)
(* the feed in hand are taken in order, and each row that is left is one   *)
(* of its feed. TripsHold: every route, service and trip written is the    *)
(* one of the feed it was made of, and none of those taken is missing      *)
(* without a reason. RowsHold: the same of the calls, frequencies and      *)
(* points of shapes, which name their trip by its new number, and of the   *)
(* couplings. WalksHold: the stops held, the places walks are looked for   *)
(* from, and what accounts for each transfer that is there. Every layer    *)
(* needs those before it.                                                  *)
(*                                                                         *)
(* The first part says that a service keeps its days through the merge,    *)
(* whatever its dates are. That the factory picks the days that run more   *)
(* often than not only makes the list of exceptions short: any other       *)
(* choice would run the same days, and the proof makes no use of it.       *)
(***************************************************************************)
EXTENDS MergeFeeds, FiniteSetTheorems, WellFoundedInduction, TLAPS

(***************************************************************************)
(* The least and the greatest of a set of numbers, as Min and Max choose   *)
(* them.                                                                   *)
(***************************************************************************)
LEMMA LeastExists ==
  ASSUME NEW S \in SUBSET Nat, S # {}
  PROVE  \E x \in S : \A y \in S : x <= y
<1>1. PICK x \in S : \A y \in S : ~(<<y, x>> \in OpToRel(<, Nat))
  BY NatLessThanWellFounded, WFMin
<1>2. \A y \in S : ~(y < x)
  BY <1>1 DEF OpToRel
<1> QED BY <1>2

LEMMA GreatestExists ==
  ASSUME NEW n \in Nat, NEW S \in SUBSET (0 .. n), S # {}
  PROVE  \E x \in S : \A y \in S : x >= y
<1> DEFINE T == {n - x : x \in S}
<1>1. T \in SUBSET Nat /\ T # {}
  <2>1. \A x \in S : n - x \in Nat
    OBVIOUS
  <2>2. T \subseteq Nat
    BY <2>1
  <2> QED BY <2>2
<1>2. PICK t \in T : \A u \in T : t <= u
  BY <1>1, LeastExists
<1>3. PICK x \in S : t = n - x
  OBVIOUS
<1>4. \A y \in S : n - x <= n - y
  BY <1>2, <1>3
<1> QED BY <1>4

LEMMA MinIsLeast ==
  ASSUME NEW S \in SUBSET Nat, S # {}
  PROVE  Min(S) \in S /\ \A y \in S : Min(S) <= y
  BY LeastExists DEF Min

LEMMA MaxIsGreatest ==
  ASSUME NEW n \in Nat, NEW S \in SUBSET (0 .. n), S # {}
  PROVE  Max(S) \in S /\ \A y \in S : y <= Max(S)
<1>1. Max(S) \in S /\ \A y \in S : Max(S) >= y
  BY GreatestExists DEF Max
<1> QED BY <1>1
-----------------------------------------------------------------------------
ADate == [date : Nat, type : {"added", "removed"}]

LEMMA DayOfWeekIsADay == ASSUME NEW date \in Nat PROVE GetDayOfWeek(date) \in Days
  BY WeekAssumption DEF GetDayOfWeek, Days

(* What is on the list of one kind, and what on that of the other. *)
LEMMA ExceptionsByKind ==
  ASSUME NEW off, NEW on, NEW dates,
         dates = {[date |-> d, type |-> "removed"] : d \in off} \cup
                 {[date |-> d, type |-> "added"] : d \in on}
  PROVE  Removed(dates) = off /\ Added(dates) = on
<1>1. \A x \in dates : \/ x.type = "removed" /\ x.date \in off
                       \/ x.type = "added" /\ x.date \in on
  OBVIOUS
<1>2. /\ \A d \in off : [date |-> d, type |-> "removed"] \in dates
      /\ \A d \in on : [date |-> d, type |-> "added"] \in dates
  OBVIOUS
<1>3. Removed(dates) = off
  <2>1. Removed(dates) \subseteq off
    BY <1>1 DEF Removed
  <2>2. ASSUME NEW d \in off PROVE d \in Removed(dates)
    <3> DEFINE x == [date |-> d, type |-> "removed"]
    <3>1. x \in dates /\ x.type = "removed" /\ x.date = d
      BY <1>2
    <3> QED BY <3>1 DEF Removed
  <2> QED BY <2>1, <2>2
<1>4. Added(dates) = on
  <2>1. Added(dates) \subseteq on
    BY <1>1 DEF Added
  <2>2. ASSUME NEW d \in on PROVE d \in Added(dates)
    <3> DEFINE x == [date |-> d, type |-> "added"]
    <3>1. x \in dates /\ x.type = "added" /\ x.date = d
      BY <1>2
    <3> QED BY <3>1 DEF Added
  <2> QED BY <2>1, <2>2
<1> QED BY <1>3, <1>4

(* A calendar over all the dates and its exceptions say the dates. *)
LEMMA ExceptionsRestoreTheDates ==
  ASSUME NEW first \in Nat, NEW last \in Nat, NEW runs \in SUBSET (first .. last),
         NEW days \in SUBSET Days, NEW calendar, NEW dates,
         calendar = [days |-> days, start |-> first, end |-> last],
         Removed(dates) =
           {d \in first .. last : d \notin runs /\ GetDayOfWeek(d) \in days},
         Added(dates) = {d \in runs : GetDayOfWeek(d) \notin days}
  PROVE  DaysOf(calendar, dates) = runs
<1>1. \A d \in first .. last : d \in Nat
  OBVIOUS
<1> QED BY <1>1 DEF DaysOf

(***************************************************************************)
(* CalendarFactory.create: the calendar it makes for a list of dates, with *)
(* its exceptions, runs on the added dates of the list and on no other.    *)
(***************************************************************************)
THEOREM CreateRunsTheDates ==
  ASSUME NEW last \in Nat, NEW dates \in SUBSET ADate,
         \A d \in dates : d.date <= last
  PROVE  DaysOf(Create(dates).calendar, Create(dates).dates) = Added(dates)
<1> DEFINE runs == Added(dates)
           range == Min(runs) .. Max(runs)
           On(day) == {d \in range \cap runs : GetDayOfWeek(d) = day}
           Off(day) == {d \in range \ runs : GetDayOfWeek(d) = day}
           days == {day \in Days : Cardinality(On(day)) > Cardinality(Off(day))}
           off == UNION {Off(day) : day \in days}
           on == UNION {On(day) : day \in Days \ days}
<1>1. runs \in SUBSET (0 .. last)
  BY DEF Added, ADate
<1>2. CASE runs = {}
  <2>1. Create(dates) = NeverRuns
    BY <1>2 DEF Create
  <2>2. DaysOf(NeverRuns.calendar, NeverRuns.dates) = {}
    BY DEF DaysOf, NeverRuns, Added, Removed
  <2> QED BY <1>2, <2>1, <2>2
<1>3. CASE runs # {}
  <2>1. /\ Min(runs) \in Nat /\ Max(runs) \in Nat
        /\ runs \in SUBSET range
    <3>1. runs \in SUBSET Nat
      BY <1>1
    <3>2. Min(runs) \in runs /\ \A y \in runs : Min(runs) <= y
      BY <1>3, <3>1, MinIsLeast
    <3>3. Max(runs) \in runs /\ \A y \in runs : y <= Max(runs)
      BY <1>1, <1>3, MaxIsGreatest
    <3>4. \A y \in runs : y \in Min(runs) .. Max(runs)
      <4> HIDE DEF runs
      <4> QED BY <3>1, <3>2, <3>3
    <3> QED BY <3>1, <3>2, <3>3, <3>4
  <2>2. /\ Create(dates).calendar =
             [days |-> days, start |-> Min(runs), end |-> Max(runs)]
        /\ Create(dates).dates =
             {[date |-> d, type |-> "removed"] : d \in off} \cup
             {[date |-> d, type |-> "added"] : d \in on}
    BY <1>3 DEF Create
  <2>3. Removed(Create(dates).dates) = off /\ Added(Create(dates).dates) = on
    <3> HIDE DEF off, on
    <3> QED BY <2>2, ExceptionsByKind
  <2>4. off = {d \in range : d \notin runs /\ GetDayOfWeek(d) \in days}
    <3> HIDE DEF days, runs, range
    <3> QED OBVIOUS
  <2>5. on = {d \in runs : GetDayOfWeek(d) \notin days}
    <3>1. \A d \in runs : d \in range /\ GetDayOfWeek(d) \in Days
      BY <1>1, <2>1, DayOfWeekIsADay
    <3> HIDE DEF days, runs, range
    <3> QED BY <3>1
  <2>6. days \in SUBSET Days
    OBVIOUS
  <2>7. DaysOf(Create(dates).calendar, Create(dates).dates) = runs
    <3> HIDE DEF days, off, on, runs
    <3> QED BY <2>1, <2>2, <2>3, <2>4, <2>5, <2>6, ExceptionsRestoreTheDates
  <2> QED BY <2>7
<1> QED BY <1>2, <1>3

AService(s) ==
  /\ s.dates \in SUBSET ADate
  /\ \E last \in Nat : \A d \in s.dates : d.date <= last
  /\ s.calendar # NoCalendar =>
       /\ s.calendar.start \in Nat /\ s.calendar.end \in Nat
       /\ s.calendar.days \in SUBSET Days

(***************************************************************************)
(* FeedIndex and CalendarMerger: from the filter's date on, a service runs *)
(* after the merge on the days it ran before it, whether its calendar is   *)
(* kept, was dropped for having finished or for naming no day, or was not  *)
(* there.                                                                  *)
(***************************************************************************)
THEOREM WrittenKeepsTheDays ==
  ASSUME NEW s, AService(s), NEW day \in Nat, day >= FilterBefore
  PROVE  day \in DaysOf(Written(s).calendar, Written(s).dates)
           <=> day \in DaysOfService(s)
<1> DEFINE kept == KeptDates(s.dates)
<1>1. (day \in Added(kept) <=> day \in Added(s.dates))
      /\ (day \in Removed(kept) <=> day \in Removed(s.dates))
  <2>1. day \in Added(kept) <=> day \in Added(s.dates)
    BY DEF Added, KeptDates
  <2>2. day \in Removed(kept) <=> day \in Removed(s.dates)
    BY DEF Removed, KeptDates
  <2> QED BY <2>1, <2>2
<1>2. CASE KeepsCalendar(s.calendar)
  <2>1. Written(s) = [calendar |-> s.calendar, dates |-> kept]
    BY <1>2 DEF Written
  <2>2. DaysOfService(s) = DaysOf(s.calendar, s.dates)
    BY <1>2 DEF DaysOfService, KeepsCalendar
  <2> HIDE DEF kept
  <2> QED BY <1>1, <2>1, <2>2 DEF DaysOf
<1>3. CASE ~KeepsCalendar(s.calendar)
  <2>1. Written(s) = Create(kept)
    BY <1>3 DEF Written
  <2>2. DaysOf(Create(kept).calendar, Create(kept).dates) = Added(kept)
    <3>1. PICK last \in Nat : \A d \in s.dates : d.date <= last
      BY DEF AService
    <3>2. kept \in SUBSET ADate /\ \A d \in kept : d.date <= last
      BY <3>1 DEF AService, KeptDates
    <3> HIDE DEF kept
    <3> QED BY <3>2, CreateRunsTheDates
  <2>3. day \in DaysOfService(s) <=> day \in Added(s.dates)
    <3>1. CASE s.calendar = NoCalendar
      BY <3>1 DEF DaysOfService
    <3>2. CASE s.calendar # NoCalendar
      <4>1. s.calendar.end < FilterBefore \/ s.calendar.days = {}
        BY <1>3, <3>2, WeekAssumption DEF KeepsCalendar, AService
      <4>2. ~(day \in s.calendar.start .. s.calendar.end
              /\ GetDayOfWeek(day) \in s.calendar.days)
        BY <3>2, <4>1, WeekAssumption DEF AService
      <4> QED BY <3>2, <4>2 DEF DaysOfService, DaysOf
    <3> QED BY <3>1, <3>2
  <2> QED BY <1>1, <2>1, <2>2, <2>3
<1> QED BY <1>2, <1>3

(***************************************************************************)
(* CalendarMerger.runsAtAll: a service is left out of the merge exactly    *)
(* when it runs on no day at all.                                          *)
(***************************************************************************)
THEOREM LeftOutRunsNever ==
  ASSUME NEW written PROVE  RunsAtAll(written)
           <=> DaysOf(written.calendar, written.dates) # {}
  BY DEF RunsAtAll, DaysOf

PlaceOf ==
  [routes |-> 1, services |-> 2, trips |-> 3, calls |-> 4, points |-> 5,
   frequencies |-> 6, transfers |-> 7, stops |-> 8, areas |-> 9,
   members |-> 10, read |-> 11, ended |-> 11]

IsSeq(s) == s \in Seq(Range(s))

(* The files written row by row: the others are written at the end.        *)
FilesWritten == FeedFiles \ {"stops", "members"}

(* The rows of a file of the feed in hand, and how many have been taken.   *)
Source(file) ==
  IF file = "transfers" THEN ShortestTransfers(feeds[feed].transfers)
                        ELSE feeds[feed][file]

At(file) == Len(Source(file)) - Len(gtfs[file])

Typed ==
  /\ feeds \in Inputs
  /\ feed \in 0 .. Len(feeds)
  /\ phase \in DOMAIN PlaceOf
  /\ feed = 0 => phase \in {"read", "ended"}
  /\ phase = "ended" => feed = Len(feeds)
  /\ blocks \in Nat /\ shapes \in Nat
  /\ DOMAIN maps = {"routes", "services", "trips", "blocks", "shapes"}
  /\ DOMAIN out = FeedFiles
  /\ \A file \in FilesWritten : IsSeq(out[file])
  /\ DOMAIN held = {"stops", "members"}
  /\ IsSeq(held.stops) /\ IsSeq(held.members)
  /\ IsSeq(batch)
  /\ phase # "calls" => batch = <<>>
  /\ IsFiniteSet(places)

Remains(rows, whole) ==
  /\ IsSeq(rows)
  /\ Len(rows) <= Len(whole)
  /\ \A i \in 1 .. Len(rows) : rows[i] = whole[Len(whole) - Len(rows) + i]

FilesInOrder ==
  \A file \in FeedFiles \ {"members"} :
    /\ Remains(gtfs[file], Source(file))
    /\ PlaceOf[file] < PlaceOf[phase] => gtfs[file] = <<>>
    /\ PlaceOf[phase] < PlaceOf[file] => Len(gtfs[file]) = Len(Source(file))

InHand ==
  feed > 0 =>
    /\ DOMAIN gtfs = FeedFiles
    /\ IsSeq(gtfs["members"])
    /\ FilesInOrder


Orderly == Typed /\ InHand
-----------------------------------------------------------------------------
LEMMA SequenceHas ==
  ASSUME NEW s, IsSeq(s)
  PROVE  /\ Len(s) \in Nat /\ DOMAIN s = 1 .. Len(s)
         /\ \A i \in 1 .. Len(s) : s[i] \in Range(s)
         /\ \A x \in Range(s) : \E i \in 1 .. Len(s) : s[i] = x
<1>1. Len(s) \in Nat /\ DOMAIN s = 1 .. Len(s)
  BY DEF IsSeq
<1> QED BY <1>1 DEF Range

LEMMA ListIsSeq ==
  ASSUME NEW n \in Nat, NEW s, DOMAIN s = 1 .. n, s = [i \in 1 .. n |-> s[i]]
  PROVE  IsSeq(s) /\ Len(s) = n
<1>1. \A i \in 1 .. n : s[i] \in Range(s)
  BY DEF Range
<1>2. s \in [1 .. n -> Range(s)]
  BY <1>1
<1> QED BY <1>2 DEF IsSeq

LEMMA OfItsMembers == ASSUME NEW S, NEW s \in Seq(S) PROVE IsSeq(s)
<1>1. Len(s) \in Nat /\ s \in [1 .. Len(s) -> S] /\ DOMAIN s = 1 .. Len(s)
  OBVIOUS
<1>2. s = [i \in 1 .. Len(s) |-> s[i]]
  BY <1>1
<1> QED BY <1>1, <1>2, ListIsSeq

Appended(after, s, x) ==
  /\ IsSeq(after)
  /\ Len(after) = Len(s) + 1
  /\ \A i \in 1 .. Len(s) : after[i] = s[i]
  /\ after[Len(s) + 1] = x
  /\ Range(after) = Range(s) \cup {x}

LEMMA AppendHas ==
  ASSUME NEW s, IsSeq(s), NEW x
  PROVE  Appended(Append(s, x), s, x)
<1> DEFINE S == Range(s) \cup {x}
           after == Append(s, x)
<1>1. s \in Seq(S) /\ x \in S /\ Len(s) \in Nat
  BY DEF IsSeq
<1>2. /\ after \in Seq(S) /\ Len(after) = Len(s) + 1
      /\ \A i \in 1 .. Len(s) : after[i] = s[i]
      /\ after[Len(s) + 1] = x
  BY <1>1
<1> HIDE DEF after
<1>3. DOMAIN after = 1 .. Len(s) + 1 /\ DOMAIN s = 1 .. Len(s)
  BY <1>1, <1>2
<1>4. Range(after) = S
  <2>1. ASSUME NEW y \in Range(after) PROVE y \in S
    <3>1. PICK i \in DOMAIN after : after[i] = y
      BY DEF Range
    <3> QED BY <1>2, <3>1
  <2>2. ASSUME NEW y \in S PROVE y \in Range(after)
    <3>1. CASE y = x
      BY <1>1, <1>2, <1>3, <3>1 DEF Range
    <3>2. CASE y \in Range(s)
      <4>1. PICK i \in DOMAIN s : s[i] = y
        BY <3>2 DEF Range
      <4> QED BY <1>1, <1>2, <1>3, <4>1 DEF Range
    <3> QED BY <3>1, <3>2
  <2> QED BY <2>1, <2>2
<1>5. IsSeq(after)
  BY <1>2, <1>4 DEF IsSeq
<1> QED BY <1>2, <1>4, <1>5 DEF Appended, after

LEMMA TailHas ==
  ASSUME NEW s, IsSeq(s), s # <<>>
  PROVE  /\ IsSeq(Tail(s)) /\ Len(s) \in Nat \ {0}
         /\ Len(Tail(s)) = Len(s) - 1
         /\ \A i \in 1 .. Len(s) - 1 : Tail(s)[i] = s[i + 1]
         /\ Head(s) = s[1]
<1>1. s \in Seq(Range(s)) /\ Len(s) \in Nat \ {0} /\ DOMAIN s = 1 .. Len(s)
  BY DEF IsSeq
<1>2. /\ Len(Tail(s)) = Len(s) - 1
      /\ Tail(s) \in Seq(Range(s))
      /\ Head(s) = s[1]
  BY <1>1
<1>3. \A i \in 1 .. Len(s) - 1 : Tail(s)[i] = s[i + 1]
  BY <1>1
<1>4. IsSeq(Tail(s))
  BY <1>2, OfItsMembers
<1> QED BY <1>1, <1>2, <1>3, <1>4

Concatenated(after, s, t) ==
  /\ IsSeq(after)
  /\ Len(after) = Len(s) + Len(t)
  /\ \A i \in 1 .. Len(s) : after[i] = s[i]
  /\ \A i \in 1 .. Len(t) : after[Len(s) + i] = t[i]
  /\ Range(after) = Range(s) \cup Range(t)

LEMMA ConcatHas ==
  ASSUME NEW s, IsSeq(s), NEW t, IsSeq(t)
  PROVE  Concatenated(s \o t, s, t)
<1> DEFINE S == Range(s) \cup Range(t)
           after == s \o t
<1>1. /\ s \in Seq(S) /\ t \in Seq(S) /\ Len(s) \in Nat /\ Len(t) \in Nat
      /\ DOMAIN s = 1 .. Len(s) /\ DOMAIN t = 1 .. Len(t)
  BY DEF IsSeq
<1>2. /\ after \in Seq(S) /\ Len(after) = Len(s) + Len(t)
      /\ \A i \in 1 .. Len(s) : after[i] = s[i]
  BY <1>1
<1>3. \A i \in 1 .. Len(t) : after[Len(s) + i] = t[i]
  BY <1>1
<1> HIDE DEF after
<1>4. DOMAIN after = 1 .. Len(s) + Len(t)
  BY <1>1, <1>2
<1>5. Range(after) = S
  <2>1. ASSUME NEW y \in Range(after) PROVE y \in S
    <3>1. PICK i \in DOMAIN after : after[i] = y
      BY DEF Range
    <3> QED BY <1>2, <3>1
  <2>2. ASSUME NEW y \in S PROVE y \in Range(after)
    <3>1. CASE y \in Range(t)
      <4>1. PICK i \in DOMAIN t : t[i] = y
        BY <3>1 DEF Range
      <4>2. Len(s) + i \in DOMAIN after /\ after[Len(s) + i] = y
        BY <1>1, <1>3, <1>4, <4>1
      <4> QED BY <4>2 DEF Range
    <3>2. CASE y \in Range(s)
      <4>1. PICK i \in DOMAIN s : s[i] = y
        BY <3>2 DEF Range
      <4> QED BY <1>1, <1>2, <1>4, <4>1 DEF Range
    <3> QED BY <3>1, <3>2
  <2> QED BY <2>1, <2>2
<1>6. IsSeq(after)
  BY <1>2, <1>5 DEF IsSeq
<1> QED BY <1>2, <1>3, <1>5, <1>6 DEF Concatenated, after

(***************************************************************************)
(* The members of a set of places, by their rank.                          *)
(***************************************************************************)
Rank(U, i) == Cardinality({j \in 1 .. i : j \in U})

LEMMA RankIsCounted ==
  ASSUME NEW U, NEW i \in Nat
  PROVE  /\ Rank(U, i) \in Nat
         /\ Rank(U, 0) = 0
         /\ Rank(U, i + 1) = IF i + 1 \in U THEN Rank(U, i) + 1 ELSE Rank(U, i)
<1> DEFINE Upper(k) == {j \in 1 .. k : j \in U}
<1>1. IsFiniteSet(1 .. i)
  BY FS_Interval
<1>2. IsFiniteSet(Upper(i)) /\ Cardinality(Upper(i)) \in Nat
  BY <1>1, FS_Subset, FS_CardinalityType
<1>3. Upper(0) = {}
  OBVIOUS
<1>4. CASE i + 1 \in U
  <2>1. Upper(i + 1) = Upper(i) \cup {i + 1} /\ i + 1 \notin Upper(i)
    BY <1>4
  <2> HIDE DEF Upper
  <2>2. Cardinality(Upper(i + 1)) = Cardinality(Upper(i)) + 1
    BY <1>2, <2>1, FS_AddElement
  <2> QED BY <1>2, <1>3, <1>4, <2>2, FS_EmptySet DEF Rank, Upper
<1>5. CASE i + 1 \notin U
  <2>1. Upper(i + 1) = Upper(i)
    BY <1>5
  <2> HIDE DEF Upper
  <2> QED BY <1>2, <1>3, <1>5, <2>1, FS_EmptySet DEF Rank, Upper
<1> QED BY <1>4, <1>5

LEMMA RanksAreTaken ==
  ASSUME NEW n \in Nat, NEW U \in SUBSET (1 .. n)
  PROVE  /\ IsFiniteSet(U) /\ Cardinality(U) \in Nat
         /\ \A k \in 1 .. Cardinality(U) : \E i \in U : Rank(U, i) = k
         /\ \A i, j \in U : Rank(U, i) = Rank(U, j) => i = j
<1>1. IsFiniteSet(U) /\ Cardinality(U) \in Nat
  <2>1. IsFiniteSet(1 .. n)
    BY FS_Interval
  <2>2. IsFiniteSet(U)
    BY <2>1, FS_Subset
  <2> QED BY <2>2, FS_CardinalityType
<1>2. Rank(U, n) = Cardinality(U)
  <2>1. {j \in 1 .. n : j \in U} = U
    OBVIOUS
  <2> QED BY <2>1 DEF Rank
<1>3. ASSUME NEW k \in 1 .. Cardinality(U) PROVE \E i \in U : Rank(U, i) = k
  <2> DEFINE S == {i \in 0 .. n : k <= Rank(U, i)}
  <2>1. S \in SUBSET Nat /\ n \in S
    BY <1>1, <1>2
  <2>2. PICK i \in S : \A y \in S : i <= y
    BY <2>1, LeastExists
  <2>3. i # 0
    BY <2>2, RankIsCounted
  <2>4. i - 1 \in Nat /\ i - 1 \in 0 .. n /\ i - 1 \notin S
    BY <2>2, <2>3
  <2>5. /\ Rank(U, i - 1) \in Nat /\ ~(k <= Rank(U, i - 1)) /\ k <= Rank(U, i)
        /\ Rank(U, (i - 1) + 1) = IF (i - 1) + 1 \in U THEN Rank(U, i - 1) + 1
                                  ELSE Rank(U, i - 1)
    BY <2>2, <2>4, RankIsCounted
  <2>6. (i - 1) + 1 = i
    BY <2>4
  <2> HIDE DEF S
  <2>7. i \in U /\ Rank(U, i) = k
    BY <2>5, <2>6
  <2> QED BY <2>7
<1>4. ASSUME NEW i \in U, NEW j \in U, i < j, Rank(U, i) = Rank(U, j)
      PROVE  FALSE
  <2> DEFINE low == {x \in 1 .. i : x \in U}
             high == {x \in 1 .. j : x \in U}
  <2>1. low \in SUBSET high /\ j \in high /\ j \notin low
    BY <1>4
  <2>2. IsFiniteSet(high)
    BY FS_Interval, FS_Subset
  <2>3. Cardinality(low) = Cardinality(high)
    BY <1>4 DEF Rank
  <2> HIDE DEF low, high
  <2> QED BY <2>1, <2>2, <2>3, FS_Subset
<1>5. \A i, j \in U : i < j \/ j < i \/ i = j
  OBVIOUS
<1> QED BY <1>1, <1>3, <1>4, <1>5

(***************************************************************************)
(* What readMergeInput keeps: transfers of the feed, no two for the same   *)
(* stops and trips.                                                        *)
(***************************************************************************)
LEMMA ShortestAreSome ==
  ASSUME NEW ts, IsSeq(ts)
  PROVE  /\ IsSeq(ShortestTransfers(ts))
         /\ \A k \in 1 .. Len(ShortestTransfers(ts)) : \E i \in 1 .. Len(ts) :
              ShortestTransfers(ts)[k] = ts[i]
         /\ (\A i \in 1 .. Len(ts) : ts[i].time \in Nat) =>
              \A k, l \in 1 .. Len(ShortestTransfers(ts)) :
                SameTransfer(ShortestTransfers(ts)[k], ShortestTransfers(ts)[l])
                => k = l
<1> DEFINE Beaten(i) == \E j \in DOMAIN ts :
                          /\ SameTransfer(ts[i], ts[j])
                          /\ \/ ts[j].time < ts[i].time
                             \/ ts[j].time = ts[i].time /\ j < i
           U == {i \in DOMAIN ts : ~Beaten(i)}
           Chosen(k) == CHOOSE i \in DOMAIN ts :
                          ~Beaten(i) /\ Cardinality({j \in 1 .. i : ~Beaten(j)}) = k
           kept == ShortestTransfers(ts)
<1>1. Len(ts) \in Nat /\ DOMAIN ts = 1 .. Len(ts)
  BY SequenceHas
<1>2. kept = [k \in 1 .. Cardinality(U) |-> ts[Chosen(k)]]
  BY DEF ShortestTransfers
<1>3. U \in SUBSET (1 .. Len(ts))
  BY <1>1
<1>4. \A i \in 1 .. Len(ts) : Cardinality({j \in 1 .. i : ~Beaten(j)}) = Rank(U, i)
  <2> SUFFICES ASSUME NEW i \in 1 .. Len(ts)
               PROVE  {j \in 1 .. i : ~Beaten(j)} = {j \in 1 .. i : j \in U}
    BY DEF Rank
  <2>1. \A j \in 1 .. i : j \in DOMAIN ts
    BY <1>1
  <2>2. \A j \in 1 .. i : j \in U <=> ~Beaten(j)
    BY <2>1
  <2> HIDE DEF Beaten, U
  <2> QED BY <2>2
<1>5. \A k \in 1 .. Cardinality(U) : Chosen(k) \in U /\ Rank(U, Chosen(k)) = k
  <2> TAKE k \in 1 .. Cardinality(U)
  <2>1. PICK i \in U : Rank(U, i) = k
    <3> HIDE DEF U
    <3> QED BY <1>1, <1>3, RanksAreTaken
  <2>2. i \in DOMAIN ts /\ ~Beaten(i) /\ Cardinality({j \in 1 .. i : ~Beaten(j)}) = k
    <3>1. i \in DOMAIN ts /\ ~Beaten(i)
      OBVIOUS
    <3> HIDE DEF Beaten, U
    <3> QED BY <1>1, <1>4, <2>1, <3>1
  <2>3. /\ Chosen(k) \in DOMAIN ts /\ ~Beaten(Chosen(k))
        /\ Cardinality({j \in 1 .. Chosen(k) : ~Beaten(j)}) = k
    <3> HIDE DEF Beaten
    <3> QED BY <2>2
  <2>4. Chosen(k) \in U
    <3>1. Chosen(k) \in DOMAIN ts /\ ~Beaten(Chosen(k))
      BY <2>3
    <3> HIDE DEF Beaten, Chosen
    <3> QED BY <3>1
  <2> HIDE DEF Beaten, Chosen, U
  <2> QED BY <1>1, <1>4, <2>3, <2>4
<1>6. Cardinality(U) \in Nat
  <2> HIDE DEF U
  <2> QED BY <1>1, <1>3, RanksAreTaken
<1>7. /\ IsSeq(kept) /\ Len(kept) = Cardinality(U)
      /\ \A k \in 1 .. Cardinality(U) : kept[k] = ts[Chosen(k)]
  <2> HIDE DEF U, Chosen
  <2>1. DOMAIN kept = 1 .. Cardinality(U)
        /\ kept = [k \in 1 .. Cardinality(U) |-> kept[k]]
    BY <1>2
  <2> QED BY <1>2, <1>6, <2>1, ListIsSeq
<1>8. \A k \in 1 .. Len(kept) : \E i \in 1 .. Len(ts) : kept[k] = ts[i]
  <2> HIDE DEF kept, U, Chosen
  <2> QED BY <1>3, <1>5, <1>7
<1>9. ASSUME \A i \in 1 .. Len(ts) : ts[i].time \in Nat,
             NEW k \in 1 .. Len(kept), NEW l \in 1 .. Len(kept),
             SameTransfer(kept[k], kept[l])
      PROVE  k = l
  <2>1. PICK i \in U : i = Chosen(k)
    <3> HIDE DEF U, Chosen, kept
    <3> QED BY <1>5, <1>7
  <2>2. PICK j \in U : j = Chosen(l)
    <3> HIDE DEF U, Chosen, kept
    <3> QED BY <1>5, <1>7
  <2>3. /\ i \in 1 .. Len(ts) /\ j \in 1 .. Len(ts)
        /\ kept[k] = ts[i] /\ kept[l] = ts[j] /\ Rank(U, i) = k /\ Rank(U, j) = l
    <3> HIDE DEF U, Chosen, kept
    <3> QED BY <1>3, <1>5, <1>7, <2>1, <2>2
  <2>4. SameTransfer(ts[i], ts[j]) /\ SameTransfer(ts[j], ts[i])
    <3> HIDE DEF kept, U
    <3> QED BY <1>9, <2>3 DEF SameTransfer
  <2>5. ~Beaten(i) /\ ~Beaten(j)
    OBVIOUS
  <2>6. ~(ts[j].time < ts[i].time \/ (ts[j].time = ts[i].time /\ j < i))
    <3> HIDE DEF U, kept
    <3> QED BY <1>1, <2>3, <2>4, <2>5
  <2>7. ~(ts[i].time < ts[j].time \/ (ts[i].time = ts[j].time /\ i < j))
    <3> HIDE DEF U, kept
    <3> QED BY <1>1, <2>3, <2>4, <2>5
  <2>8. ts[i].time \in Nat /\ ts[j].time \in Nat
    BY <1>9, <2>3
  <2>9. i = j
    <3> HIDE DEF Beaten, U, kept
    <3> QED BY <2>3, <2>6, <2>7, <2>8
  <2> HIDE DEF U, kept
  <2> QED BY <2>3, <2>9
<1> HIDE DEF kept, U
<1> QED BY <1>7, <1>8, <1>9 DEF kept

(***************************************************************************)
(* The feeds given.                                                        *)
(***************************************************************************)
LEMMA FeedsGiven ==
  ASSUME feeds \in Inputs
  PROVE  /\ Len(feeds) \in Nat /\ DOMAIN feeds = 1 .. Len(feeds)
         /\ \A f \in 1 .. Len(feeds) : IsAFeed(feeds[f])
<1>1. IsSeq(feeds)
  BY InputsAssumption DEF IsSeq
<1>2. Len(feeds) \in Nat /\ DOMAIN feeds = 1 .. Len(feeds)
  BY <1>1, SequenceHas
<1> QED BY <1>2, InputsAssumption

LEMMA FilesGiven ==
  ASSUME feeds \in Inputs, NEW f \in 1 .. Len(feeds), NEW file \in FeedFiles
  PROVE  /\ IsSeq(feeds[f][file])
         /\ Len(feeds[f][file]) \in Nat
         /\ DOMAIN feeds[f][file] = 1 .. Len(feeds[f][file])
<1>1. IsAFeed(feeds[f])
  BY FeedsGiven
<1>2. IsSeq(feeds[f][file])
  BY <1>1 DEF IsAFeed, IsSeq
<1> QED BY <1>2, SequenceHas

LEMMA FileNames ==
  /\ \A file \in FeedFiles : file \in DOMAIN PlaceOf
  /\ \A p \in DOMAIN PlaceOf : PlaceOf[p] \in Nat
  /\ \A file \in FeedFiles : PlaceOf[file] < PlaceOf["read"] /\ PlaceOf[file] < PlaceOf["ended"]
  /\ {"routes", "services", "trips", "calls", "points", "frequencies", "transfers",
      "stops", "areas", "members"} = FeedFiles
BY DEF PlaceOf, FeedFiles

LEMMA SourceHas ==
  ASSUME feeds \in Inputs, feed \in 1 .. Len(feeds), NEW file \in FeedFiles
  PROVE  IsSeq(Source(file)) /\ Len(Source(file)) \in Nat
<1>1. IsSeq(feeds[feed][file])
  BY FilesGiven
<1>2. IsSeq(ShortestTransfers(feeds[feed].transfers))
  <2>1. "transfers" \in FeedFiles
    BY DEF FeedFiles
  <2> QED BY <2>1, FilesGiven, ShortestAreSome
<1>3. IsSeq(Source(file))
  BY <1>1, <1>2 DEF Source
<1> QED BY <1>3, SequenceHas

(***************************************************************************)
(* The steps, by what they do to the feed in hand: a row is taken, the     *)
(* next file or feed is come to, or nothing.                               *)
(***************************************************************************)
TakesARow(file) ==
  /\ Row(file) /\ Taken(file)
  /\ UNCHANGED <<feeds, feed, phase>>

ARowFurther(file) ==
  /\ feed \in 1 .. Len(feeds)
  /\ First(file) = Source(file)[At(file) + 1]
  /\ At(file) \in Nat /\ At(file) + 1 \in 1 .. Len(Source(file))
  /\ At(file)' = At(file) + 1
  /\ \A other \in FeedFiles \ {file, "members"} : At(other)' = At(other)
  /\ \A other \in FeedFiles : Source(other)' = Source(other)

LEMMA RowIsTaken ==
  ASSUME Typed, InHand, NEW file \in FeedFiles \ {"members"}, TakesARow(file)
  PROVE  InHand' /\ ARowFurther(file)
<1>1. /\ phase = file /\ gtfs[file] # <<>> /\ gtfs' = [gtfs EXCEPT ![file] = Tail(@)]
      /\ feeds' = feeds /\ feed' = feed /\ phase' = phase
  BY DEF TakesARow, Row, Taken
<1>2. feeds \in Inputs /\ feed \in 1 .. Len(feeds)
  <2>1. feed # 0
    BY <1>1 DEF Typed, FeedFiles
  <2>2. Len(feeds) \in Nat
    BY FeedsGiven DEF Typed
  <2> QED BY <2>1, <2>2 DEF Typed
<1>3. /\ DOMAIN gtfs = FeedFiles /\ IsSeq(gtfs["members"]) /\ FilesInOrder
  BY <1>2 DEF InHand
<1>4. \A other \in FeedFiles : Source(other)' = Source(other)
  BY <1>1 DEF Source
<1>5. /\ gtfs'[file] = Tail(gtfs[file])
      /\ \A other \in FeedFiles : other # file => gtfs'[other] = gtfs[other]
      /\ DOMAIN gtfs' = FeedFiles
  BY <1>1, <1>3
<1>6. Remains(gtfs[file], Source(file)) /\ Len(Source(file)) \in Nat
  BY <1>2, <1>3, SourceHas DEF FilesInOrder
<1>7. /\ IsSeq(Tail(gtfs[file])) /\ Len(gtfs[file]) \in Nat \ {0}
      /\ Len(Tail(gtfs[file])) = Len(gtfs[file]) - 1
      /\ \A i \in 1 .. Len(gtfs[file]) - 1 : Tail(gtfs[file])[i] = gtfs[file][i + 1]
      /\ Head(gtfs[file]) = gtfs[file][1]
  BY <1>1, <1>6, TailHas DEF Remains
<1>8. Remains(Tail(gtfs[file]), Source(file))
  <2>1. ASSUME NEW i \in 1 .. Len(gtfs[file]) - 1
        PROVE  Tail(gtfs[file])[i] = Source(file)[Len(Source(file)) - (Len(gtfs[file]) - 1) + i]
    <3>1. /\ i + 1 \in 1 .. Len(gtfs[file])
          /\ Len(Source(file)) - Len(gtfs[file]) + (i + 1) = Len(Source(file)) - (Len(gtfs[file]) - 1) + i
      BY <1>6, <1>7
    <3>2. gtfs[file][i + 1] = Source(file)[Len(Source(file)) - Len(gtfs[file]) + (i + 1)]
      BY <1>6, <3>1 DEF Remains
    <3> QED BY <1>7, <3>1, <3>2
  <2>2. Len(gtfs[file]) - 1 <= Len(Source(file))
    BY <1>6, <1>7 DEF Remains
  <2> QED BY <1>7, <2>1, <2>2 DEF Remains
<1>9. FilesInOrder'
  <2> SUFFICES ASSUME NEW other \in FeedFiles \ {"members"}
               PROVE  /\ Remains(gtfs'[other], Source(other))
                      /\ PlaceOf[other] < PlaceOf[phase] => gtfs'[other] = <<>>
                      /\ PlaceOf[phase] < PlaceOf[other] =>
                           Len(gtfs'[other]) = Len(Source(other))
    <3>1. \A other \in FeedFiles \ {"members"} :
            /\ Remains(gtfs'[other], Source(other)')
            /\ PlaceOf[other] < PlaceOf[phase'] => gtfs'[other] = <<>>
            /\ PlaceOf[phase'] < PlaceOf[other] =>
                 Len(gtfs'[other]) = Len(Source(other)')
      BY <1>1, <1>4
    <3> QED BY <3>1 DEF FilesInOrder
  <2>1. CASE other = file
    <3>1. ~(PlaceOf[file] < PlaceOf[phase]) /\ ~(PlaceOf[phase] < PlaceOf[file])
      BY <1>1, FileNames
    <3> QED BY <1>5, <1>8, <2>1, <3>1
  <2>2. CASE other # file
    BY <1>3, <1>5, <2>2 DEF FilesInOrder
  <2> QED BY <2>1, <2>2
<1>10. IsSeq(gtfs'["members"])
  BY <1>3, <1>5, FileNames
<1>11. InHand'
  BY <1>5, <1>9, <1>10 DEF InHand
<1>12. /\ At(file) \in Nat /\ At(file) + 1 \in 1 .. Len(Source(file))
       /\ At(file)' = At(file) + 1
  <2>1. At(file)' = Len(Source(file)) - Len(Tail(gtfs[file]))
    BY <1>4, <1>5 DEF At
  <2>2. /\ Len(gtfs[file]) \in Nat \ {0} /\ Len(Source(file)) \in Nat
        /\ Len(gtfs[file]) <= Len(Source(file))
        /\ Len(Tail(gtfs[file])) = Len(gtfs[file]) - 1
    BY <1>6, <1>7 DEF Remains
  <2>3. At(file) = Len(Source(file)) - Len(gtfs[file])
    BY DEF At
  <2>4. At(file)' = Len(Source(file)) - (Len(gtfs[file]) - 1)
    BY <2>1, <2>2
  <2>5. \A m, n \in Nat : n # 0 /\ n <= m =>
          /\ m - n \in Nat /\ m - n + 1 \in 1 .. m
          /\ m - (n - 1) = (m - n) + 1
    OBVIOUS
  <2> QED BY <2>2, <2>3, <2>4, <2>5
<1>13. First(file) = Source(file)[At(file) + 1]
  <2>1. gtfs[file][1] = Source(file)[Len(Source(file)) - Len(gtfs[file]) + 1]
    <3>1. 1 \in 1 .. Len(gtfs[file])
      BY <1>7
    <3> QED BY <1>6, <3>1 DEF Remains
  <2> QED BY <1>7, <2>1 DEF First, At
<1>14. \A other \in FeedFiles \ {file, "members"} : At(other)' = At(other)
  BY <1>4, <1>5 DEF At
<1> QED BY <1>2, <1>4, <1>11, <1>12, <1>13, <1>14 DEF ARowFurther

(***************************************************************************)
(* What a step may do to the files of the output.                          *)
(***************************************************************************)
OutIsTyped == DOMAIN out = FeedFiles /\ \A file \in FilesWritten : IsSeq(out[file])

OutGrows ==
  \A file \in FilesWritten :
    /\ Len(out[file]) \in Nat /\ Len(out[file])' \in Nat
    /\ Len(out[file]) <= Len(out[file])'
    /\ \A i \in 1 .. Len(out[file]) : out[file][i]' = out[file][i]

Wrote(file, row) ==
  /\ Appended(out[file]', out[file], row)
  /\ \A other \in FeedFiles \ {file} : out[other]' = out[other]

LEMMA SameOutGrows ==
  ASSUME OutIsTyped, UNCHANGED out
  PROVE  OutIsTyped' /\ OutGrows
<1>1. \A file \in FilesWritten : Len(out[file]) \in Nat
  BY SequenceHas DEF OutIsTyped
<1> QED BY <1>1 DEF OutIsTyped, OutGrows

LEMMA RowIsWritten ==
  ASSUME OutIsTyped, NEW file \in FilesWritten, NEW row, WriteRow(file, row)
  PROVE  OutIsTyped' /\ OutGrows /\ Wrote(file, row)
<1>1. /\ out'[file] = Append(out[file], row)
      /\ \A other \in FeedFiles \ {file} : out'[other] = out[other]
      /\ DOMAIN out' = FeedFiles
  BY DEF OutIsTyped, WriteRow, FilesWritten
<1>2. Appended(out'[file], out[file], row)
  BY <1>1, AppendHas DEF OutIsTyped, FilesWritten
<1>3. OutIsTyped'
  BY <1>1, <1>2 DEF OutIsTyped, Appended, FilesWritten
<1>4. OutGrows
  <2> SUFFICES ASSUME NEW other \in FilesWritten
               PROVE  /\ Len(out[other]) \in Nat /\ Len(out'[other]) \in Nat
                      /\ Len(out[other]) <= Len(out'[other])
                      /\ \A i \in 1 .. Len(out[other]) : out'[other][i] = out[other][i]
    BY DEF OutGrows
  <2>1. Len(out[other]) \in Nat /\ Len(out'[other]) \in Nat
    BY <1>3, SequenceHas DEF OutIsTyped
  <2>2. CASE other = file
    BY <1>2, <2>1, <2>2 DEF Appended
  <2>3. CASE other # file
    BY <1>1, <2>1, <2>3 DEF FilesWritten
  <2> QED BY <2>1, <2>2, <2>3
<1> QED BY <1>1, <1>2, <1>3, <1>4 DEF Wrote

WroteAll(file, rows) ==
  /\ Concatenated(out[file]', out[file], rows)
  /\ \A other \in FeedFiles \ {file} : out[other]' = out[other]

LEMMA RowsAreWritten ==
  ASSUME OutIsTyped, NEW file \in FilesWritten, NEW rows, IsSeq(rows),
         out' = [out EXCEPT ![file] = @ \o rows]
  PROVE  OutIsTyped' /\ OutGrows /\ WroteAll(file, rows)
<1>1. /\ out'[file] = out[file] \o rows
      /\ \A other \in FeedFiles \ {file} : out'[other] = out[other]
      /\ DOMAIN out' = FeedFiles
  BY DEF OutIsTyped, FilesWritten
<1>2. Concatenated(out'[file], out[file], rows)
  BY <1>1, ConcatHas DEF OutIsTyped
<1>3. OutIsTyped'
  BY <1>1, <1>2 DEF OutIsTyped, Concatenated, FilesWritten
<1>4. OutGrows
  <2> SUFFICES ASSUME NEW other \in FilesWritten
               PROVE  /\ Len(out[other]) \in Nat /\ Len(out'[other]) \in Nat
                      /\ Len(out[other]) <= Len(out'[other])
                      /\ \A i \in 1 .. Len(out[other]) : out'[other][i] = out[other][i]
    BY DEF OutGrows
  <2>1. Len(out[other]) \in Nat /\ Len(out'[other]) \in Nat /\ Len(rows) \in Nat
    BY <1>3, SequenceHas DEF OutIsTyped
  <2>2. CASE other = file
    BY <1>2, <2>1, <2>2 DEF Concatenated
  <2>3. CASE other # file
    BY <1>1, <2>1, <2>3 DEF FilesWritten
  <2> QED BY <2>1, <2>2, <2>3
<1> QED BY <1>1, <1>2, <1>3, <1>4 DEF WroteAll

MapNames == {"routes", "services", "trips", "blocks", "shapes"}

LEMMA TypedIsTyped == ASSUME Typed PROVE OutIsTyped /\ DOMAIN maps = MapNames
  BY DEF Typed, OutIsTyped, MapNames

LEMMA GivenOnes == ASSUME Typed, feed > 0 PROVE feeds \in Inputs /\ feed \in 1 .. Len(feeds)
<1>1. Len(feeds) \in Nat
  BY FeedsGiven DEF Typed
<1> QED BY <1>1 DEF Typed

LEMMA NextPhase ==
  ASSUME Typed, InHand, UNCHANGED <<feeds, feed, gtfs>>, phase \in FeedFiles,
         phase = "members" \/ gtfs[phase] = <<>>,
         phase' \in DOMAIN PlaceOf, PlaceOf[phase'] = PlaceOf[phase] + 1
  PROVE  InHand' /\ \A file \in FeedFiles : At(file)' = At(file) /\ Source(file)' = Source(file)
<1>1. \A file \in FeedFiles : Source(file)' = Source(file) /\ At(file)' = At(file)
  BY DEF Source, At
<1>2. SUFFICES ASSUME feed > 0 PROVE InHand'
  BY <1>1 DEF InHand
<1>3. DOMAIN gtfs = FeedFiles /\ IsSeq(gtfs["members"]) /\ FilesInOrder
  BY <1>2 DEF InHand
<1>4. FilesInOrder'
  <2> SUFFICES ASSUME NEW file \in FeedFiles \ {"members"}
               PROVE  /\ Remains(gtfs[file], Source(file))
                      /\ PlaceOf[file] < PlaceOf[phase'] => gtfs[file] = <<>>
                      /\ PlaceOf[phase'] < PlaceOf[file] =>
                           Len(gtfs[file]) = Len(Source(file))
    <3>1. \A file \in FeedFiles \ {"members"} :
            /\ Remains(gtfs'[file], Source(file)')
            /\ PlaceOf[file] < PlaceOf[phase'] => gtfs'[file] = <<>>
            /\ PlaceOf[phase'] < PlaceOf[file] =>
                 Len(gtfs'[file]) = Len(Source(file)')
      BY <1>1
    <3> QED BY <3>1 DEF FilesInOrder
  <2>1. PlaceOf[file] \in Nat /\ PlaceOf[phase] \in Nat /\ PlaceOf[phase'] \in Nat
    BY FileNames
  <2>2. PlaceOf[file] < PlaceOf[phase'] => PlaceOf[file] < PlaceOf[phase] \/ file = phase
    <3>1. PlaceOf[file] < PlaceOf[phase'] => PlaceOf[file] <= PlaceOf[phase]
      BY <2>1
    <3>2. \A x, y \in FeedFiles : PlaceOf[x] = PlaceOf[y] => x = y
      BY DEF PlaceOf, FeedFiles
    <3> QED BY <2>1, <3>1, <3>2
  <2>3. PlaceOf[phase'] < PlaceOf[file] => PlaceOf[phase] < PlaceOf[file]
    BY <2>1
  <2> QED BY <1>3, <2>2, <2>3 DEF FilesInOrder
<1> QED BY <1>3, <1>4 DEF InHand
-----------------------------------------------------------------------------
LEMMA OrderlyAtFirst == ASSUME Init PROVE Orderly
<1>1. \A file \in FeedFiles : out[file] = <<>>
  BY DEF Init, FeedFiles
<1>2. IsSeq(<<>>)
  BY DEF IsSeq
<1>3. DOMAIN out = FeedFiles
  BY DEF Init, FeedFiles
<1>4. feed \in 0 .. Len(feeds)
  BY FeedsGiven DEF Init
<1> QED BY <1>1, <1>2, <1>3, <1>4, FS_EmptySet
    DEF Init, Orderly, Typed, InHand, NoMaps, PlaceOf, FilesWritten

LEMMA ReadHolds == ASSUME Orderly, Read PROVE Orderly'
<1>1. /\ feed' = feed + 1 /\ phase' = "routes" /\ feeds' = feeds
      /\ gtfs' = [feeds[feed + 1] EXCEPT !.transfers = ShortestTransfers(@)]
      /\ maps' = NoMaps /\ UNCHANGED <<batch, memory, out>>
      /\ phase = "read" /\ feed < Len(feeds)
  BY DEF Read
<1>2. feeds \in Inputs /\ Len(feeds) \in Nat /\ feed' \in 1 .. Len(feeds)
  BY <1>1, FeedsGiven DEF Orderly, Typed
<1>3. IsAFeed(feeds[feed'])
  BY <1>2, FeedsGiven
<1>4. /\ DOMAIN gtfs' = FeedFiles
      /\ gtfs'["transfers"] = ShortestTransfers(feeds[feed'].transfers)
      /\ \A file \in FeedFiles : file # "transfers" => gtfs'[file] = feeds[feed'][file]
  BY <1>1, <1>3 DEF IsAFeed, FeedFiles
<1>5. \A file \in FeedFiles : gtfs'[file] = Source(file)'
  BY <1>1, <1>4 DEF Source
<1>6. \A file \in FeedFiles : IsSeq(gtfs'[file]) /\ Len(gtfs'[file]) \in Nat
  <2> TAKE file \in FeedFiles
  <2>1. CASE file = "transfers"
    <3>1. IsSeq(feeds[feed'].transfers)
      BY <1>2, <2>1, FilesGiven
    <3> QED BY <1>4, <2>1, <3>1, ShortestAreSome, SequenceHas
  <2>2. CASE file # "transfers"
    BY <1>2, <1>4, <2>2, FilesGiven
  <2> QED BY <2>1, <2>2
<1>7. FilesInOrder'
  <2> SUFFICES ASSUME NEW file \in FeedFiles \ {"members"}
               PROVE  /\ Remains(gtfs'[file], gtfs'[file])
                      /\ ~(PlaceOf[file] < PlaceOf["routes"])
    BY <1>1, <1>5 DEF FilesInOrder
  <2>1. ~(PlaceOf[file] < PlaceOf["routes"])
    BY DEF PlaceOf, FeedFiles
  <2> QED BY <1>6, <2>1 DEF Remains
<1>8. InHand'
  <2>1. IsSeq(gtfs'["members"])
    BY <1>6, FileNames
  <2> QED BY <1>4, <1>7, <2>1 DEF InHand
<1>9. Typed'
  BY <1>1, <1>2 DEF Orderly, Typed, NoMaps, memory, PlaceOf
<1> QED BY <1>8, <1>9 DEF Orderly

(* The steps that take a row. *)
LEMMA WriteRouteHolds ==
  ASSUME Orderly, WriteRoute PROVE Orderly' /\ ARowFurther("routes") /\ OutGrows
<1>1. TakesARow("routes") /\ UNCHANGED <<batch, memory>> /\ "routes" \in FilesWritten /\ "routes" \in FeedFiles \ {"members"}
  BY DEF WriteRoute, TakesARow, FeedFiles, FilesWritten
<1>2. InHand' /\ ARowFurther("routes")
  BY <1>1, RowIsTaken DEF Orderly
<1>3. OutIsTyped' /\ OutGrows
  BY <1>1, SameOutGrows, RowIsWritten, TypedIsTyped DEF WriteRoute, Orderly
<1>4. DOMAIN maps' = MapNames
  BY TypedIsTyped DEF WriteRoute, Orderly
<1>5. Typed'
  BY <1>1, <1>3, <1>4 DEF Orderly, Typed, TakesARow, memory, OutIsTyped, MapNames
<1> QED BY <1>2, <1>3, <1>5 DEF Orderly

LEMMA WriteServiceHolds ==
  ASSUME Orderly, WriteService PROVE Orderly' /\ ARowFurther("services") /\ OutGrows
<1>1. TakesARow("services") /\ UNCHANGED <<batch, memory>> /\ "services" \in FilesWritten /\ "services" \in FeedFiles \ {"members"}
  BY DEF WriteService, TakesARow, FeedFiles, FilesWritten
<1>2. InHand' /\ ARowFurther("services")
  BY <1>1, RowIsTaken DEF Orderly
<1>3. OutIsTyped' /\ OutGrows
  BY <1>1, SameOutGrows, RowIsWritten, TypedIsTyped DEF WriteService, Orderly
<1>4. DOMAIN maps' = MapNames
  BY TypedIsTyped DEF WriteService, Orderly
<1>5. Typed'
  BY <1>1, <1>3, <1>4 DEF Orderly, Typed, TakesARow, memory, OutIsTyped, MapNames
<1> QED BY <1>2, <1>3, <1>5 DEF Orderly

LEMMA WriteTripHolds ==
  ASSUME Orderly, WriteTrip PROVE Orderly' /\ ARowFurther("trips") /\ OutGrows
<1>1. /\ TakesARow("trips") /\ "trips" \in FilesWritten /\ "trips" \in FeedFiles \ {"members"}
      /\ UNCHANGED <<batch, held, places>>
  BY DEF WriteTrip, TakesARow, FeedFiles, FilesWritten
<1>2. InHand' /\ ARowFurther("trips")
  BY <1>1, RowIsTaken DEF Orderly
<1>3. OutIsTyped' /\ OutGrows
  BY <1>1, SameOutGrows, RowIsWritten, TypedIsTyped DEF WriteTrip, Orderly
<1>4. DOMAIN maps' = MapNames
  BY TypedIsTyped DEF WriteTrip, Orderly
<1>5. blocks' \in Nat /\ shapes' \in Nat
  BY DEF WriteTrip, Orderly, Typed, NewlyNumbered
<1>6. Typed'
  BY <1>1, <1>3, <1>4, <1>5 DEF Orderly, Typed, TakesARow, OutIsTyped, MapNames
<1> QED BY <1>2, <1>3, <1>6 DEF Orderly

LEMMA ReadCallHolds ==
  ASSUME Orderly, ReadCall PROVE Orderly' /\ ARowFurther("calls") /\ OutGrows
<1>1. /\ TakesARow("calls") /\ "calls" \in FeedFiles \ {"members"}
      /\ UNCHANGED <<maps, memory, out>> /\ phase = "calls"
  BY DEF ReadCall, TakesARow, FeedFiles, Row
<1>2. InHand' /\ ARowFurther("calls")
  BY <1>1, RowIsTaken DEF Orderly
<1>3. OutIsTyped' /\ OutGrows
  BY <1>1, SameOutGrows, TypedIsTyped DEF Orderly
<1>4. IsSeq(batch')
  <2>1. \A x : IsSeq(Append(batch, x))
    BY AppendHas DEF Orderly, Typed, Appended
  <2> QED BY <2>1 DEF ReadCall, Orderly, Typed
<1>5. Typed'
  BY <1>1, <1>3, <1>4 DEF Orderly, Typed, TakesARow, memory, OutIsTyped
<1> QED BY <1>2, <1>3, <1>5 DEF Orderly

LEMMA FlushCallsHolds ==
  ASSUME Orderly, FlushCalls PROVE Orderly' /\ OutGrows /\ WroteAll("calls", batch)
<1>1. /\ phase = "calls" /\ out' = [out EXCEPT !["calls"] = @ \o batch] /\ batch' = <<>>
      /\ UNCHANGED <<feeds, feed, phase, gtfs, maps, used, existing, memory>>
  BY DEF FlushCalls
<1>2. OutIsTyped' /\ OutGrows /\ WroteAll("calls", batch)
  <2>1. OutIsTyped /\ "calls" \in FilesWritten /\ IsSeq(batch)
    BY TypedIsTyped DEF Orderly, FilesWritten, FeedFiles, Typed
  <2>2. PICK rows : rows = batch
    OBVIOUS
  <2>3. IsSeq(rows) /\ out' = [out EXCEPT !["calls"] = @ \o rows]
    BY <1>1, <2>1, <2>2
  <2>4. OutIsTyped' /\ OutGrows /\ WroteAll("calls", rows)
    BY <2>1, <2>3, RowsAreWritten
  <2> QED BY <2>2, <2>4 DEF WroteAll
<1>3. IsSeq(<<>>)
  BY DEF IsSeq
<1>4. Typed'
  BY <1>1, <1>2, <1>3 DEF Orderly, Typed, memory, OutIsTyped
<1>5. InHand'
  BY <1>1 DEF Orderly, InHand, FilesInOrder, Source
<1> QED BY <1>2, <1>4, <1>5 DEF Orderly

LEMMA WritePointHolds ==
  ASSUME Orderly, WritePoint PROVE Orderly' /\ ARowFurther("points") /\ OutGrows
<1>1. /\ TakesARow("points") /\ "points" \in FilesWritten /\ "points" \in FeedFiles \ {"members"}
      /\ UNCHANGED <<maps, batch, memory>>
  BY DEF WritePoint, TakesARow, FeedFiles, FilesWritten
<1>2. InHand' /\ ARowFurther("points")
  BY <1>1, RowIsTaken DEF Orderly
<1>3. OutIsTyped' /\ OutGrows
  BY <1>1, SameOutGrows, RowIsWritten, TypedIsTyped DEF WritePoint, Orderly
<1>4. Typed'
  BY <1>1, <1>3 DEF Orderly, Typed, TakesARow, memory, OutIsTyped
<1> QED BY <1>2, <1>3, <1>4 DEF Orderly

LEMMA WriteFrequencyHolds ==
  ASSUME Orderly, WriteFrequency PROVE Orderly' /\ ARowFurther("frequencies") /\ OutGrows
<1>1. /\ TakesARow("frequencies") /\ "frequencies" \in FilesWritten /\ "frequencies" \in FeedFiles \ {"members"}
      /\ UNCHANGED <<maps, batch, memory>>
  BY DEF WriteFrequency, TakesARow, FeedFiles, FilesWritten
<1>2. InHand' /\ ARowFurther("frequencies")
  BY <1>1, RowIsTaken DEF Orderly
<1>3. OutIsTyped' /\ OutGrows
  BY <1>1, SameOutGrows, RowIsWritten, TypedIsTyped DEF WriteFrequency, Orderly
<1>4. Typed'
  BY <1>1, <1>3 DEF Orderly, Typed, TakesARow, memory, OutIsTyped
<1> QED BY <1>2, <1>3, <1>4 DEF Orderly

LEMMA WriteTransferHolds ==
  ASSUME Orderly, WriteTransfer PROVE Orderly' /\ ARowFurther("transfers") /\ OutGrows
<1>1. /\ TakesARow("transfers") /\ "transfers" \in FilesWritten /\ "transfers" \in FeedFiles \ {"members"}
      /\ UNCHANGED <<maps, batch, memory>>
  BY DEF WriteTransfer, TakesARow, FeedFiles, FilesWritten
<1>2. InHand' /\ ARowFurther("transfers")
  BY <1>1, RowIsTaken DEF Orderly
<1>3. OutIsTyped' /\ OutGrows
  BY <1>1, SameOutGrows, RowIsWritten, TypedIsTyped DEF WriteTransfer, Orderly
<1>4. Typed'
  BY <1>1, <1>3 DEF Orderly, Typed, TakesARow, memory, OutIsTyped
<1> QED BY <1>2, <1>3, <1>4 DEF Orderly

LEMMA WriteAreaHolds ==
  ASSUME Orderly, WriteArea PROVE Orderly' /\ ARowFurther("areas") /\ OutGrows
<1>1. /\ TakesARow("areas") /\ "areas" \in FilesWritten /\ "areas" \in FeedFiles \ {"members"}
      /\ UNCHANGED <<maps, batch, memory>>
  BY DEF WriteArea, TakesARow, FeedFiles, FilesWritten
<1>2. InHand' /\ ARowFurther("areas")
  BY <1>1, RowIsTaken DEF Orderly
<1>3. OutIsTyped' /\ OutGrows
  BY <1>1, SameOutGrows, RowIsWritten, TypedIsTyped DEF WriteArea, Orderly
<1>4. Typed'
  BY <1>1, <1>3 DEF Orderly, Typed, TakesARow, memory, OutIsTyped
<1> QED BY <1>2, <1>3, <1>4 DEF Orderly

LEMMA SetInOrder ==
  ASSUME NEW S, IsFiniteSet(S)
  PROVE  /\ IsSeq(SetToSeq(S))
         /\ Range(SetToSeq(S)) = S
         /\ \A i, j \in 1 .. Len(SetToSeq(S)) : SetToSeq(S)[i] = SetToSeq(S)[j] => i = j
<1> DEFINE n == Cardinality(S)
           w == SetToSeq(S)
<1>1. n \in Nat /\ ExistsBijection(1 .. n, S)
  BY FS_CardinalityType
<1>2. PICK f \in [1 .. n -> S] : IsInjective(f)
  BY <1>1 DEF ExistsBijection, Bijection, Injection, IsInjective
<1>3. w \in [1 .. n -> S] /\ IsInjective(w)
  BY <1>2 DEF SetToSeq
<1> HIDE DEF w, n
<1>4. /\ DOMAIN w = 1 .. n /\ w = [i \in 1 .. n |-> w[i]]
      /\ \A i \in 1 .. n : w[i] \in S
  BY <1>3
<1>5. IsSeq(w) /\ Len(w) = n
  BY <1>1, <1>4, ListIsSeq
<1>6. w \in Surjection(1 .. n, S)
  <2>1. w \in Injection(1 .. n, S)
    BY <1>3, <1>4 DEF Injection, IsInjective
  <2>2. IsFiniteSet(1 .. n) /\ Cardinality(1 .. n) = n
    BY <1>1, FS_Interval
  <2> QED BY <2>1, <2>2, FS_Injection DEF n
<1>7. Range(w) = S
  BY <1>4, <1>6 DEF Range, Surjection
<1> QED BY <1>3, <1>4, <1>5, <1>7 DEF IsInjective, w

LEMMA ConcatTwice ==
  ASSUME NEW s, IsSeq(s), NEW t, IsSeq(t), NEW u, IsSeq(u)
  PROVE  (s \o t) \o u = s \o (t \o u)
<1> DEFINE left == (s \o t) \o u
           right == s \o (t \o u)
<1>1. Concatenated(s \o t, s, t) /\ Concatenated(t \o u, t, u)
  BY ConcatHas
<1>2. Concatenated(left, s \o t, u) /\ Concatenated(right, s, t \o u)
  BY <1>1, ConcatHas DEF Concatenated
<1>3. Len(s) \in Nat /\ Len(t) \in Nat /\ Len(u) \in Nat
  BY SequenceHas
<1>4. Len(left) = Len(s) + Len(t) + Len(u) /\ Len(right) = Len(left)
  BY <1>1, <1>2, <1>3 DEF Concatenated
<1>5. ASSUME NEW i \in 1 .. Len(left) PROVE left[i] = right[i]
  <2>1. CASE i \in 1 .. Len(s)
    <3>1. left[i] = (s \o t)[i] /\ (s \o t)[i] = s[i] /\ right[i] = s[i]
      BY <1>1, <1>2, <1>3, <2>1 DEF Concatenated
    <3> QED BY <3>1
  <2>2. CASE i - Len(s) \in 1 .. Len(t)
    <3> DEFINE k == i - Len(s)
    <3>1. k \in 1 .. Len(t) /\ i = Len(s) + k /\ i \in 1 .. Len(s \o t) /\ k \in 1 .. Len(t \o u)
      BY <1>1, <1>3, <2>2 DEF Concatenated
    <3> HIDE DEF k
    <3>2. left[i] = (s \o t)[i] /\ (s \o t)[i] = t[k]
      BY <1>1, <1>2, <3>1 DEF Concatenated
    <3>3. right[i] = (t \o u)[k] /\ (t \o u)[k] = t[k]
      BY <1>1, <1>2, <3>1 DEF Concatenated
    <3> QED BY <3>2, <3>3
  <2>3. CASE i - Len(s) - Len(t) \in 1 .. Len(u)
    <3> DEFINE k == i - Len(s) - Len(t)
    <3>1. /\ k \in 1 .. Len(u) /\ i = Len(s \o t) + k
          /\ Len(t) + k \in 1 .. Len(t \o u) /\ i = Len(s) + (Len(t) + k)
      BY <1>1, <1>3, <2>3 DEF Concatenated
    <3> HIDE DEF k
    <3>2. left[i] = u[k]
      BY <1>2, <3>1 DEF Concatenated
    <3>3. right[i] = (t \o u)[Len(t) + k] /\ (t \o u)[Len(t) + k] = u[k]
      BY <1>1, <1>2, <3>1 DEF Concatenated
    <3> QED BY <3>2, <3>3
  <2>4. \A l, m, n \in Nat : \A j \in 1 .. l + m + n :
          j \in 1 .. l \/ j - l \in 1 .. m \/ j - l - m \in 1 .. n
    OBVIOUS
  <2> QED BY <1>3, <1>4, <2>1, <2>2, <2>3, <2>4
<1> HIDE DEF left, right
<1>6. left \in Seq(Range(left) \cup Range(right)) /\ right \in Seq(Range(left) \cup Range(right))
  BY <1>2 DEF Concatenated, IsSeq
<1>7. left = right
  BY <1>4, <1>5, <1>6
<1> QED BY <1>7 DEF left, right

LEMMA WalksAreListed ==
  ASSUME Typed, NEW stop
  PROVE  /\ IsFiniteSet(WalksFrom(stop))
         /\ IsSeq(SetToSeq(WalksFrom(stop)))
         /\ Range(SetToSeq(WalksFrom(stop))) = WalksFrom(stop)
<1>1. WalksFrom(stop) \in SUBSET places
  BY DEF WalksFrom
<1>2. IsFiniteSet(WalksFrom(stop))
  BY <1>1, FS_Subset DEF Typed
<1> QED BY <1>2, SetInOrder

WalksWritten(walks, stop) ==
  [i \in DOMAIN walks |-> Walk(stop, walks[i])] \o
  [i \in DOMAIN walks |-> Walk(walks[i], stop)]

LEMMA MappedIsSeq ==
  ASSUME NEW s, IsSeq(s), NEW t, DOMAIN t = DOMAIN s, t = [i \in DOMAIN s |-> t[i]]
  PROVE  IsSeq(t) /\ Len(t) = Len(s)
BY SequenceHas, ListIsSeq

LEMMA WalksWrittenHas ==
  ASSUME NEW walks, IsSeq(walks), NEW stop
  PROVE  /\ IsSeq(WalksWritten(walks, stop)) /\ Len(walks) \in Nat
         /\ Len(WalksWritten(walks, stop)) = Len(walks) + Len(walks)
         /\ \A i \in 1 .. Len(walks) :
              /\ WalksWritten(walks, stop)[i] = Walk(stop, walks[i])
              /\ WalksWritten(walks, stop)[Len(walks) + i] = Walk(walks[i], stop)
<1> DEFINE one == [i \in DOMAIN walks |-> Walk(stop, walks[i])]
           other == [i \in DOMAIN walks |-> Walk(walks[i], stop)]
<1>1. DOMAIN walks = 1 .. Len(walks) /\ Len(walks) \in Nat
  BY SequenceHas
<1>2. IsSeq(one) /\ Len(one) = Len(walks)
  BY MappedIsSeq
<1>3. IsSeq(other) /\ Len(other) = Len(walks)
  BY MappedIsSeq
<1>4. Concatenated(one \o other, one, other)
  <2> HIDE DEF one, other
  <2> QED BY <1>2, <1>3, ConcatHas
<1>5. WalksWritten(walks, stop) = one \o other
  BY DEF WalksWritten
<1>6. \A i \in 1 .. Len(walks) : one[i] = Walk(stop, walks[i]) /\ other[i] = Walk(walks[i], stop)
  BY <1>1
<1> HIDE DEF one, other
<1> QED BY <1>1, <1>2, <1>3, <1>4, <1>5, <1>6 DEF Concatenated

(* A stop is passed by, or held; and held, it may be a place or not.       *)
PassesStop == First("stops").stop \notin Published /\ UNCHANGED <<held, codes, places, out>>

HoldsStop ==
  /\ First("stops").stop \in Published
  /\ held' = [held EXCEPT !.stops = Append(@, First("stops"))]

WritesNoWalk == ~IsAPlace(First("stops").stop) /\ UNCHANGED <<places, out>>

WritesWalks ==
  LET stop == First("stops").stop
  IN  /\ IsAPlace(stop)
      /\ places' = places \cup {stop}
      /\ out' = [out EXCEPT !.transfers =
                   @ \o WalksWritten(SetToSeq(WalksFrom(stop)), stop)]

LEMMA WriteStopIs ==
  ASSUME Typed, WriteStop
  PROVE  /\ TakesARow("stops")
         /\ UNCHANGED <<maps, used, batch, existing, blocks, shapes, parents, published>>
         /\ PassesStop \/ (HoldsStop /\ (WritesNoWalk \/ WritesWalks))
<1> DEFINE stop == First("stops").stop
           walks == SetToSeq(WalksFrom(stop))
           one == [i \in DOMAIN walks |-> Walk(stop, walks[i])]
           other == [i \in DOMAIN walks |-> Walk(walks[i], stop)]
<1>1. IsSeq(walks)
  BY WalksAreListed
<1>2. IsSeq(one) /\ IsSeq(other) /\ IsSeq(out.transfers)
  <2>1. IsSeq(one) /\ IsSeq(other)
    <3> HIDE DEF walks, stop
    <3> QED BY <1>1, MappedIsSeq
  <2> QED BY <2>1 DEF Typed, FilesWritten, FeedFiles
<1>3. (out.transfers \o one) \o other = out.transfers \o (one \o other)
  <2> DEFINE had == out.transfers
  <2> HIDE DEF one, other, had
  <2>1. IsSeq(had) /\ IsSeq(one) /\ IsSeq(other)
    BY <1>2 DEF had
  <2>2. (had \o one) \o other = had \o (one \o other)
    BY <2>1, ConcatTwice
  <2> QED BY <2>2 DEF had
<1>4. TakesARow("stops") /\ UNCHANGED <<maps, used, batch, existing, blocks, shapes, parents, published>>
  BY DEF WriteStop, TakesARow
<1>5. CASE stop \notin Published
  BY <1>4, <1>5 DEF WriteStop, PassesStop
<1>6. CASE stop \in Published
  <2>1. HoldsStop
    BY <1>6 DEF WriteStop, HoldsStop
  <2>2. CASE IsAPlace(stop)
    <3>1. /\ places' = places \cup {stop}
          /\ out' = [out EXCEPT !.transfers = (@ \o one) \o other]
      BY <1>6, <2>2 DEF WriteStop
    <3>2. out' = [out EXCEPT !.transfers = @ \o (one \o other)]
      <4> HIDE DEF one, other
      <4> QED BY <1>3, <3>1
    <3>3. WalksWritten(walks, stop) = one \o other
      BY DEF WalksWritten
    <3>4. WritesWalks
      <4> HIDE DEF one, other
      <4> QED BY <2>2, <3>1, <3>2, <3>3 DEF WritesWalks
    <3> QED BY <1>4, <2>1, <3>4
  <2>3. CASE ~IsAPlace(stop)
    BY <1>4, <1>6, <2>1, <2>3 DEF WriteStop, WritesNoWalk
  <2> QED BY <2>2, <2>3
<1> QED BY <1>5, <1>6

LEMMA WriteStopHolds ==
  ASSUME Orderly, WriteStop PROVE Orderly' /\ ARowFurther("stops") /\ OutGrows
<1>1. /\ TakesARow("stops") /\ "stops" \in FeedFiles \ {"members"}
      /\ UNCHANGED <<maps, used, batch, existing, blocks, shapes, parents, published>>
      /\ PassesStop \/ (HoldsStop /\ (WritesNoWalk \/ WritesWalks))
  BY WriteStopIs DEF Orderly, FeedFiles
<1>2. InHand' /\ ARowFurther("stops")
  BY <1>1, RowIsTaken DEF Orderly
<1>3. OutIsTyped' /\ OutGrows
  <2>1. OutIsTyped /\ "transfers" \in FilesWritten
    BY TypedIsTyped DEF Orderly, FilesWritten, FeedFiles
  <2>2. CASE UNCHANGED out
    BY <2>1, <2>2, SameOutGrows
  <2>3. CASE WritesWalks
    <3> DEFINE stop == First("stops").stop
               rows == WalksWritten(SetToSeq(WalksFrom(stop)), stop)
    <3>1. IsSeq(rows)
      BY WalksAreListed, WalksWrittenHas DEF Orderly
    <3>2. out' = [out EXCEPT !["transfers"] = @ \o rows]
      BY <2>3 DEF WritesWalks
    <3> HIDE DEF rows
    <3> QED BY <2>1, <3>1, <3>2, RowsAreWritten
  <2> QED BY <1>1, <2>2, <2>3 DEF PassesStop, WritesNoWalk
<1>4. IsFiniteSet(places')
  <2>1. IsFiniteSet(places) /\ \A x : IsFiniteSet(places \cup {x})
    BY FS_AddElement DEF Orderly, Typed
  <2> QED BY <1>1, <2>1 DEF PassesStop, WritesNoWalk, WritesWalks
<1>5. DOMAIN held' = {"stops", "members"} /\ IsSeq(held'.stops) /\ IsSeq(held'.members)
  <2>1. \A x : IsSeq(Append(held.stops, x))
    BY AppendHas DEF Orderly, Typed, Appended
  <2> QED BY <1>1, <2>1 DEF PassesStop, HoldsStop, Orderly, Typed
<1>6. Typed'
  BY <1>1, <1>3, <1>4, <1>5 DEF Orderly, Typed, TakesARow, OutIsTyped
<1> QED BY <1>2, <1>3, <1>6 DEF Orderly

(* The steps to the next file, the next feed and the end.                  *)
SameRows ==
  /\ UNCHANGED <<feeds, feed, gtfs>>
  /\ \A file \in FeedFiles : At(file)' = At(file) /\ Source(file)' = Source(file)

LEMMA BeginTransfersHolds ==
  ASSUME Orderly, BeginTransfers PROVE Orderly' /\ SameRows
<1>1. /\ phase = "frequencies" /\ gtfs[phase] = <<>> /\ phase' = "transfers"
      /\ phase \in FeedFiles /\ phase' \in DOMAIN PlaceOf /\ PlaceOf[phase'] = PlaceOf[phase] + 1
      /\ UNCHANGED <<feeds, feed, gtfs, maps, batch, blocks, shapes, places, held, out>>
  BY DEF BeginTransfers, FeedFiles, PlaceOf
<1>2. InHand' /\ SameRows
  BY <1>1, NextPhase DEF Orderly, SameRows
<1>3. Typed'
  BY <1>1 DEF Orderly, Typed
<1> QED BY <1>2, <1>3 DEF Orderly

LEMMA NextFileHolds ==
  ASSUME Orderly, NextFile
  PROVE  Orderly' /\ SameRows /\ phase \in FeedFiles \ {"frequencies", "members"}
         /\ PlaceOf[phase'] = PlaceOf[phase] + 1
<1>1. /\ gtfs[phase] = <<>> /\ phase \in FeedFiles \ {"frequencies", "members"}
      /\ phase' \in FeedFiles \ {"calls"} \/ (phase = "trips" /\ phase' = "calls")
      /\ phase = "calls" => batch = <<>>
      /\ phase' \in DOMAIN PlaceOf /\ PlaceOf[phase'] = PlaceOf[phase] + 1
      /\ UNCHANGED <<feeds, feed, gtfs, maps, used, batch, existing, memory, out>>
  BY DEF NextFile, Through, FeedFiles, PlaceOf
<1>2. InHand' /\ SameRows
  BY <1>1, NextPhase DEF Orderly, SameRows
<1>3. batch' = <<>> /\ phase' # "read" /\ phase' # "ended" /\ phase # "read" /\ phase # "ended"
  BY <1>1 DEF Orderly, Typed, FeedFiles
<1>4. Typed'
  BY <1>1, <1>3 DEF Orderly, Typed, memory
<1> QED BY <1>1, <1>2, <1>4 DEF Orderly

LEMMA HoldMembersHolds ==
  ASSUME Orderly, HoldMembers PROVE Orderly' /\ SameRows /\ held'.stops = held.stops
<1>1. /\ phase = "members" /\ phase' = "read" /\ phase \in FeedFiles
      /\ phase' \in DOMAIN PlaceOf /\ PlaceOf[phase'] = PlaceOf[phase] + 1
      /\ UNCHANGED <<feeds, feed, gtfs, maps, batch, blocks, shapes, places, out>>
  BY DEF HoldMembers, FeedFiles, PlaceOf
<1>2. InHand' /\ SameRows
  BY <1>1, NextPhase DEF Orderly, SameRows
<1>3. feed > 0
  BY <1>1, GivenOnes DEF Orderly, Typed
<1> DEFINE rows == [i \in DOMAIN gtfs.members |->
                      [area |-> gtfs.members[i].area, stop |-> Station(gtfs.members[i].stop)]]
<1>4. IsSeq(rows)
  <2>1. IsSeq(gtfs["members"])
    BY <1>3 DEF Orderly, InHand
  <2> QED BY <2>1, MappedIsSeq
<1>5. DOMAIN held' = {"stops", "members"} /\ held'.stops = held.stops /\ held'.members = held.members \o rows
  BY DEF HoldMembers, Orderly, Typed
<1>6. IsSeq(held'.members)
  <2> HIDE DEF rows
  <2>1. \A s : IsSeq(s) => IsSeq(s \o rows)
    BY <1>4, ConcatHas DEF Concatenated
  <2> QED BY <1>5, <2>1 DEF Orderly, Typed
<1>7. Typed'
  BY <1>1, <1>5, <1>6 DEF Orderly, Typed
<1> QED BY <1>2, <1>5, <1>7 DEF Orderly

LEMMA EndHolds ==
  ASSUME Orderly, End
  PROVE  Orderly' /\ SameRows /\ \A file \in FilesWritten : out'[file] = out[file]
<1>1. /\ phase = "read" /\ phase' = "ended" /\ feed = Len(feeds)
      /\ UNCHANGED <<feeds, feed, gtfs, maps, used, batch, existing, memory>>
  BY DEF End
<1>2. SameRows
  BY <1>1 DEF SameRows, Source, At
<1>3. InHand'
  <2>1. ASSUME feed > 0 PROVE FilesInOrder'
    <3>1. FilesInOrder /\ \A file \in FeedFiles : Source(file)' = Source(file)
      BY <1>2, <2>1 DEF Orderly, InHand, SameRows
    <3>2. \A file \in FeedFiles : /\ PlaceOf[file] < PlaceOf["read"]
                                  /\ ~(PlaceOf["read"] < PlaceOf[file])
                                  /\ ~(PlaceOf["ended"] < PlaceOf[file])
      BY DEF FeedFiles, PlaceOf
    <3> QED BY <1>1, <3>1, <3>2 DEF FilesInOrder
  <2> QED BY <1>1, <2>1 DEF Orderly, InHand
<1>4. DOMAIN out' = FeedFiles /\ \A file \in FilesWritten : out'[file] = out[file]
  BY DEF End, Orderly, Typed, FilesWritten
<1>5. Typed'
  BY <1>1, <1>4 DEF Orderly, Typed, memory, PlaceOf
<1> QED BY <1>2, <1>3, <1>4, <1>5 DEF Orderly

(***************************************************************************)
(* The routes, services and trips of the merged feed.                      *)
(***************************************************************************)
(* How many rows of a file of any feed have been taken, but transfers.     *)
Upto(f, file) == IF f = feed THEN At(file) ELSE Len(feeds[f][file])

(* The n-th trip written is the i-th of a feed. *)
Made(f, i, n) ==
  /\ f \in 1 .. feed
  /\ i \in 1 .. Len(feeds[f].trips)
  /\ n \in 1 .. Len(out.trips)
  /\ out.trips[n].of = feeds[f].trips[i].of

RoutesMapped ==
  /\ \A id \in DOMAIN maps.routes :
       /\ maps.routes[id] \in 1 .. Len(out.routes)
       /\ \E i \in 1 .. Len(feeds[feed].routes) :
            /\ feeds[feed].routes[i].id = id
            /\ out.routes[maps.routes[id]] = feeds[feed].routes[i].of
  /\ feed > 0 => \A i \in 1 .. At("routes") :
       ~feeds[feed].routes[i].removed =>
         feeds[feed].routes[i].id \in DOMAIN maps.routes

ServicesMapped ==
  /\ \A id \in DOMAIN maps.services :
       /\ maps.services[id] \in 1 .. Len(out.services)
       /\ \E i \in 1 .. Len(feeds[feed].services) :
            /\ feeds[feed].services[i].id = id
            /\ out.services[maps.services[id]] = Written(feeds[feed].services[i])
  /\ feed > 0 => \A i \in 1 .. At("services") :
       RunsAtAll(Written(feeds[feed].services[i])) =>
         feeds[feed].services[i].id \in DOMAIN maps.services

TripsMapped ==
  /\ \A id \in DOMAIN maps.trips :
       \E i \in 1 .. At("trips") :
         /\ feeds[feed].trips[i].id = id
         /\ Made(feed, i, maps.trips[id])
  /\ feed > 0 => \A i \in 1 .. At("trips"), n \in 1 .. Len(out.trips) :
       Made(feed, i, n) => /\ feeds[feed].trips[i].id \in DOMAIN maps.trips
                           /\ maps.trips[feeds[feed].trips[i].id] = n

TripsAreTrips ==
  \A n \in 1 .. Len(out.trips) :
    /\ \E f \in 1 .. feed : \E i \in 1 .. Upto(f, "trips") : Made(f, i, n)
    /\ out.trips[n].route \in 1 .. Len(out.routes)
    /\ out.trips[n].service \in 1 .. Len(out.services)

WrittenOnce ==
  \A n, m \in 1 .. Len(out.trips) : out.trips[n].of = out.trips[m].of => n = m

(* The n-th trip written has the route and the days of the i-th of a feed. *)
HasItsRoute(f, i, n) ==
  /\ \E r \in 1 .. Len(feeds[f].routes) :
       /\ feeds[f].routes[r].id = feeds[f].trips[i].route
       /\ feeds[f].routes[r].of = out.routes[out.trips[n].route]
  /\ \E s \in 1 .. Len(feeds[f].services) :
       /\ feeds[f].services[s].id = feeds[f].trips[i].service
       /\ Written(feeds[f].services[s]) = out.services[out.trips[n].service]

OnItsRoute ==
  \A f \in 1 .. feed : \A i, n \in Nat : Made(f, i, n) => HasItsRoute(f, i, n)

(* Why the i-th trip of a feed is not there: its route, or its service.    *)
IsMissing(f, i) ==
  \/ \E r \in 1 .. Len(feeds[f].routes) :
       feeds[f].routes[r].id = feeds[f].trips[i].route /\ feeds[f].routes[r].removed
  \/ \A s \in 1 .. Len(feeds[f].services) :
       feeds[f].services[s].id = feeds[f].trips[i].service =>
         ~RunsAtAll(Written(feeds[f].services[s]))

NoneIsMissing ==
  \A f \in 1 .. feed : \A i \in 1 .. Upto(f, "trips") :
    (\E n \in 1 .. Len(out.trips) : Made(f, i, n)) \/ IsMissing(f, i)

PartsMapped(part, map, count) ==
  /\ \A f \in 1 .. feed : \A i, n \in Nat : Made(f, i, n) =>
       /\ out.trips[n][part] = None <=> feeds[f].trips[i][part] = None
       /\ out.trips[n][part] # None => out.trips[n][part] \in 1 .. count
  /\ \A f, g \in 1 .. feed : \A i, j, n, m \in Nat :
       Made(f, i, n) /\ Made(g, j, m) /\ out.trips[n][part] # None =>
         (out.trips[n][part] = out.trips[m][part] <=>
            f = g /\ feeds[f].trips[i][part] = feeds[g].trips[j][part])
  /\ \A id \in DOMAIN map :
       /\ id # None
       /\ \E i, n \in Nat : /\ Made(feed, i, n)
                            /\ feeds[feed].trips[i][part] = id
                            /\ out.trips[n][part] = map[id]
  /\ \A i, n \in Nat :
       Made(feed, i, n) /\ feeds[feed].trips[i][part] # None =>
         /\ feeds[feed].trips[i][part] \in DOMAIN map
         /\ map[feeds[feed].trips[i][part]] = out.trips[n][part]

BlocksMapped == PartsMapped("block", maps.blocks, blocks)
ShapesMapped == PartsMapped("shape", maps.shapes, shapes)

TripsHold ==
  /\ RoutesMapped /\ ServicesMapped /\ TripsMapped
  /\ TripsAreTrips /\ WrittenOnce /\ OnItsRoute /\ NoneIsMissing
  /\ BlocksMapped /\ ShapesMapped
-----------------------------------------------------------------------------
LEMMA AtIs ==
  ASSUME Orderly, feed > 0, NEW file \in FeedFiles \ {"members"}
  PROVE  /\ At(file) \in 0 .. Len(Source(file))
         /\ PlaceOf[file] < PlaceOf[phase] => At(file) = Len(Source(file))
         /\ PlaceOf[phase] < PlaceOf[file] => At(file) = 0
<1>1. /\ Remains(gtfs[file], Source(file))
      /\ PlaceOf[file] < PlaceOf[phase] => gtfs[file] = <<>>
      /\ PlaceOf[phase] < PlaceOf[file] => Len(gtfs[file]) = Len(Source(file))
  BY DEF Orderly, InHand, FilesInOrder
<1>2. Len(Source(file)) \in Nat
  BY GivenOnes, SourceHas DEF Orderly
<1>3. Len(gtfs[file]) \in Nat /\ Len(gtfs[file]) <= Len(Source(file))
  BY <1>1, SequenceHas DEF Remains
<1>4. gtfs[file] = <<>> => Len(gtfs[file]) = 0
  OBVIOUS
<1> QED BY <1>1, <1>2, <1>3, <1>4 DEF At

LEMMA SourceIs ==
  ASSUME NEW file, file # "transfers" PROVE Source(file) = feeds[feed][file]
BY DEF Source

LEMMA UptoIs ==
  ASSUME Orderly, NEW f \in 1 .. feed, NEW file \in FeedFiles \ {"members", "transfers"}
  PROVE  /\ Upto(f, file) \in 0 .. Len(feeds[f][file])
         /\ f \in 1 .. Len(feeds) /\ IsAFeed(feeds[f])
         /\ Len(feeds[f][file]) \in Nat
         /\ DOMAIN feeds[f][file] = 1 .. Len(feeds[f][file])
<1>1. feeds \in Inputs /\ feed \in 1 .. Len(feeds) /\ Len(feeds) \in Nat
  <2>1. Len(feeds) \in Nat
    BY FeedsGiven DEF Orderly, Typed
  <2> QED BY <2>1 DEF Orderly, Typed
<1>2. f \in 1 .. Len(feeds)
  BY <1>1
<1>3. /\ IsAFeed(feeds[f]) /\ Len(feeds[f][file]) \in Nat
      /\ DOMAIN feeds[f][file] = 1 .. Len(feeds[f][file])
  BY <1>1, <1>2, FeedsGiven, FilesGiven
<1>4. CASE f = feed
  BY <1>1, <1>2, <1>3, <1>4, AtIs, SourceIs DEF Upto
<1>5. CASE f # feed
  BY <1>2, <1>3, <1>5 DEF Upto
<1> QED BY <1>2, <1>3, <1>4, <1>5

(* A trip of the merged feed is of one feed, and one trip of it.           *)
LEMMA OneTrip ==
  ASSUME feeds \in Inputs, NEW f \in 1 .. Len(feeds), NEW g \in 1 .. Len(feeds),
         NEW i \in 1 .. Len(feeds[f].trips), NEW j \in 1 .. Len(feeds[g].trips),
         feeds[f].trips[i].of = feeds[g].trips[j].of
  PROVE  f = g /\ i = j
<1>1. f \in DOMAIN feeds /\ g \in DOMAIN feeds
  BY FeedsGiven
<1>2. "trips" \in FeedFiles
  BY DEF FeedFiles
<1>3. i \in DOMAIN feeds[f].trips /\ j \in DOMAIN feeds[g].trips
  BY <1>2, FilesGiven
<1> QED BY <1>1, <1>3, InputsAssumption

LEMMA MadeOfOne ==
  ASSUME Orderly, TripsAreTrips, WrittenOnce, NEW f, NEW i, NEW n, Made(f, i, n)
  PROVE  /\ i \in 1 .. Upto(f, "trips") /\ f \in 1 .. Len(feeds) /\ i \in Nat /\ n \in Nat
         /\ \A g, j, m : Made(g, j, m) => (n = m <=> f = g /\ i = j)
<1>1. feeds \in Inputs /\ Len(feeds) \in Nat /\ feed \in 0 .. Len(feeds)
  BY FeedsGiven DEF Orderly, Typed
<1>2. \A g, j, m : Made(g, j, m) => g \in 1 .. Len(feeds)
  BY <1>1 DEF Made
<1>3. ASSUME NEW g, NEW j, NEW m, Made(g, j, m)
      PROVE  n = m <=> f = g /\ i = j
  <2>1. ASSUME n = m PROVE f = g /\ i = j
    <3>1. feeds[f].trips[i].of = feeds[g].trips[j].of
      BY <1>3, <2>1 DEF Made
    <3>2. /\ i \in 1 .. Len(feeds[f].trips) /\ j \in 1 .. Len(feeds[g].trips)
          /\ f \in 1 .. Len(feeds) /\ g \in 1 .. Len(feeds)
      BY <1>2, <1>3 DEF Made
    <3> QED BY <1>1, <3>1, <3>2, OneTrip
  <2>2. f = g /\ i = j => n = m
    BY <1>3 DEF Made, WrittenOnce
  <2> QED BY <2>1, <2>2
<1>4. PICK g \in 1 .. feed : \E j \in 1 .. Upto(g, "trips") : Made(g, j, n)
  BY DEF TripsAreTrips, Made
<1>5. i \in 1 .. Upto(f, "trips")
  BY <1>3, <1>4
<1>6. n \in Nat /\ i \in Nat
  BY DEF Made
<1> QED BY <1>2, <1>3, <1>5, <1>6

(* The steps that write no route, no service and no trip. *)
SameTrips ==
  /\ UNCHANGED <<feeds, feed, maps, blocks, shapes>>
  /\ \A file \in {"routes", "services", "trips"} :
       out'[file] = out[file] /\ At(file)' = At(file)

LEMMA TripsAreLeft == ASSUME TripsHold, SameTrips PROVE TripsHold'
<1>1. /\ feeds' = feeds /\ feed' = feed /\ maps' = maps /\ blocks' = blocks /\ shapes' = shapes
      /\ out'.routes = out.routes /\ out'.services = out.services /\ out'.trips = out.trips
      /\ At("routes")' = At("routes") /\ At("services")' = At("services")
      /\ At("trips")' = At("trips")
  BY DEF SameTrips
<1>2. RoutesMapped'
  BY <1>1 DEF TripsHold, RoutesMapped
<1>3. ServicesMapped'
  BY <1>1 DEF TripsHold, ServicesMapped
<1>4. TripsMapped'
  BY <1>1 DEF TripsHold, TripsMapped, Made
<1>5. TripsAreTrips'
  BY <1>1 DEF TripsHold, TripsAreTrips, Made, Upto
<1>6. WrittenOnce'
  BY <1>1 DEF TripsHold, WrittenOnce
<1>7. OnItsRoute'
  BY <1>1 DEF TripsHold, OnItsRoute, HasItsRoute, Made
<1>8. \A f, i, n : Made(f, i, n)' <=> Made(f, i, n)
  BY <1>1 DEF Made
<1>9. NoneIsMissing'
  <2>1. \A f : Upto(f, "trips")' = Upto(f, "trips")
    BY <1>1 DEF Upto
  <2>2. \A f, i : IsMissing(f, i)' <=> IsMissing(f, i)
    BY <1>1 DEF IsMissing
  <2> QED BY <1>1, <1>8, <2>1, <2>2 DEF TripsHold, NoneIsMissing
<1>10. ASSUME NEW part, NEW map, NEW count, PartsMapped(part, map, count)
       PROVE  PartsMapped(part, map, count)'
  BY <1>1, <1>8, <1>10 DEF PartsMapped
<1>11. BlocksMapped' /\ ShapesMapped'
  <2>1. PICK map, other, count, least : /\ map = maps.blocks /\ other = maps.shapes
                                        /\ count = blocks /\ least = shapes
    OBVIOUS
  <2>2. PartsMapped("block", map, count)' /\ PartsMapped("shape", other, least)'
    BY <1>10, <2>1 DEF TripsHold, BlocksMapped, ShapesMapped
  <2>3. map = maps'.blocks /\ other = maps'.shapes /\ count = blocks' /\ least = shapes'
    BY <1>1, <2>1
  <2> QED BY <2>2, <2>3 DEF BlocksMapped, ShapesMapped
<1> QED BY <1>2, <1>3, <1>4, <1>5, <1>6, <1>7, <1>9, <1>11 DEF TripsHold

LEMMA TripsHoldAtFirst == ASSUME Init PROVE TripsHold
<1>1. /\ feed = 0 /\ out.trips = <<>> /\ maps = NoMaps
  BY DEF Init
<1>2. \A f, i, n : ~Made(f, i, n)
  BY <1>1 DEF Made
<1>3. /\ DOMAIN maps.routes = {} /\ DOMAIN maps.services = {} /\ DOMAIN maps.trips = {}
      /\ DOMAIN maps.blocks = {} /\ DOMAIN maps.shapes = {}
  BY <1>1 DEF NoMaps, Nothing
<1>4. 1 .. Len(out.trips) = {} /\ 1 .. feed = {} /\ ~(feed > 0)
  BY <1>1
<1>5. RoutesMapped /\ ServicesMapped /\ TripsMapped
  BY <1>3, <1>4 DEF RoutesMapped, ServicesMapped, TripsMapped
<1>6. TripsAreTrips /\ WrittenOnce /\ OnItsRoute /\ NoneIsMissing
  BY <1>4 DEF TripsAreTrips, WrittenOnce, OnItsRoute, NoneIsMissing
<1>7. BlocksMapped /\ ShapesMapped
  BY <1>2, <1>3, <1>4 DEF BlocksMapped, ShapesMapped, PartsMapped
<1> QED BY <1>5, <1>6, <1>7 DEF TripsHold

(* A feed that is read has no row taken, and no trip yet. *)
ReadsNone ==
  /\ feed' = feed + 1 /\ feeds' = feeds /\ maps' = NoMaps /\ phase = "read"
  /\ blocks' = blocks /\ shapes' = shapes /\ out' = out /\ phase' = "routes"
  /\ feed \in Nat /\ feed' \in 1 .. Len(feeds) /\ feed' > 0
  /\ \A file \in FeedFiles \ {"members", "transfers"} :
       /\ At(file)' = 0
       /\ \A f \in 1 .. feed : Upto(f, file)' = Upto(f, file)
  /\ \A f, i, n : Made(f, i, n)' <=> Made(f, i, n)

LEMMA ReadMakesNone == ASSUME Orderly, TripsHold, Read PROVE ReadsNone
<1>1. /\ feed' = feed + 1 /\ feeds' = feeds /\ maps' = NoMaps /\ phase = "read"
      /\ blocks' = blocks /\ shapes' = shapes /\ out' = out /\ phase' = "routes"
      /\ feed \in Nat /\ feed' \in 1 .. Len(feeds) /\ feed' > 0
  BY FeedsGiven DEF Read, memory, Orderly, Typed
<1>2. \A file \in FeedFiles \ {"members", "transfers"} : At(file)' = 0
  <2>1. gtfs' = [feeds[feed'] EXCEPT !.transfers = ShortestTransfers(@)] /\ IsAFeed(feeds[feed'])
    BY <1>1, FeedsGiven DEF Read, Orderly, Typed
  <2>2. \A file \in FeedFiles : file # "transfers" => gtfs'[file] = feeds[feed'][file]
    BY <2>1 DEF IsAFeed, FeedFiles
  <2>3. \A file \in FeedFiles : Len(feeds[feed'][file]) \in Nat
    BY <1>1, FilesGiven DEF Orderly, Typed
  <2> QED BY <1>1, <2>2, <2>3 DEF At, Source
<1>3. ASSUME NEW file \in FeedFiles \ {"members", "transfers"}, NEW f \in 1 .. feed
      PROVE  Upto(f, file)' = Upto(f, file)
  <2>1. f # feed'
    BY <1>1
  <2>2. CASE f = feed
    <3>1. PlaceOf[file] < PlaceOf["read"]
      BY FileNames
    <3>2. At(file) = Len(Source(file))
      BY <1>1, <2>2, <3>1, AtIs
    <3> QED BY <1>1, <2>1, <2>2, <3>2, SourceIs DEF Upto
  <2>3. CASE f # feed
    BY <1>1, <2>1, <2>3 DEF Upto
  <2> QED BY <2>2, <2>3
<1>4. ASSUME NEW f, NEW i, NEW n PROVE Made(f, i, n)' <=> Made(f, i, n)
  <2>1. Made(f, i, n) => Made(f, i, n)'
    BY <1>1 DEF Made
  <2>2. CASE f = feed'
    <3>1. SUFFICES ASSUME Made(f, i, n)' PROVE FALSE
      BY <1>1, <2>2 DEF Made
    <3>2. /\ n \in 1 .. Len(out.trips) /\ i \in 1 .. Len(feeds[f].trips)
          /\ out.trips[n].of = feeds[f].trips[i].of
      BY <1>1, <3>1 DEF Made
    <3>3. PICK g \in 1 .. feed : \E j \in 1 .. Upto(g, "trips") : Made(g, j, n)
      BY <3>2 DEF TripsHold, TripsAreTrips
    <3>4. PICK j : Made(g, j, n)
      BY <3>3
    <3>5. /\ j \in 1 .. Len(feeds[g].trips) /\ feeds[f].trips[i].of = feeds[g].trips[j].of
          /\ g \in 1 .. Len(feeds) /\ f \in 1 .. Len(feeds) /\ f # g
      BY <1>1, <2>2, <3>2, <3>4 DEF Made
    <3> QED BY <3>2, <3>5, OneTrip DEF Orderly, Typed
  <2>3. CASE f # feed'
    <3>1. f \in 1 .. feed' => f \in 1 .. feed
      BY <1>1, <2>3
    <3> QED BY <1>1, <2>1, <3>1 DEF Made
  <2> QED BY <2>1, <2>2, <2>3
<1> QED BY <1>1, <1>2, <1>3, <1>4 DEF ReadsNone

LEMMA ReadKeepsTrips == ASSUME Orderly, TripsHold, Read PROVE TripsHold'
<1>1. /\ feed' = feed + 1 /\ feeds' = feeds /\ maps' = NoMaps /\ phase = "read"
      /\ blocks' = blocks /\ shapes' = shapes /\ out' = out /\ phase' = "routes"
      /\ feed \in Nat /\ feed' \in 1 .. Len(feeds) /\ feed' > 0
  BY ReadMakesNone DEF ReadsNone
<1>2. /\ "routes" \in FeedFiles \ {"members", "transfers"}
      /\ "services" \in FeedFiles \ {"members", "transfers"}
      /\ "trips" \in FeedFiles \ {"members", "transfers"}
  BY DEF FeedFiles
<1>3. \A file \in {"routes", "services", "trips"} : At(file)' = 0
  BY <1>2, ReadMakesNone DEF ReadsNone
<1>4. \A f \in 1 .. feed : f \in 1 .. feed' /\ Upto(f, "trips")' = Upto(f, "trips")
  BY <1>1, <1>2, ReadMakesNone DEF ReadsNone
<1>5. \A f, i, n : Made(f, i, n)' <=> Made(f, i, n)
  BY ReadMakesNone DEF ReadsNone
<1>6. ASSUME NEW i, NEW n PROVE ~Made(feed + 1, i, n)
  BY <1>1 DEF Made
<1>7. /\ DOMAIN maps'.routes = {} /\ DOMAIN maps'.services = {} /\ DOMAIN maps'.trips = {}
      /\ DOMAIN maps'.blocks = {} /\ DOMAIN maps'.shapes = {}
  BY <1>1 DEF NoMaps, Nothing
<1>8. RoutesMapped' /\ ServicesMapped' /\ TripsMapped'
  <2>1. 1 .. At("routes")' = {} /\ 1 .. At("services")' = {} /\ 1 .. At("trips")' = {}
    BY <1>3
  <2> QED BY <1>7, <2>1 DEF RoutesMapped, ServicesMapped, TripsMapped
<1>9. TripsAreTrips'
  <2> SUFFICES ASSUME NEW n \in 1 .. Len(out.trips)
               PROVE  /\ \E f \in 1 .. feed' : \E i \in 1 .. Upto(f, "trips")' : Made(f, i, n)'
                      /\ out.trips[n].route \in 1 .. Len(out.routes)
                      /\ out.trips[n].service \in 1 .. Len(out.services)
    BY <1>1 DEF TripsAreTrips
  <2>1. PICK f \in 1 .. feed : \E i \in 1 .. Upto(f, "trips") : Made(f, i, n)
    BY DEF TripsHold, TripsAreTrips
  <2>2. f \in 1 .. feed' /\ \E i \in 1 .. Upto(f, "trips")' : Made(f, i, n)'
    BY <1>4, <1>5, <2>1
  <2> QED BY <2>2 DEF TripsHold, TripsAreTrips
<1>10. WrittenOnce'
  BY <1>1 DEF TripsHold, WrittenOnce
<1>11. OnItsRoute'
  <2>1. \A f, i, n : HasItsRoute(f, i, n)' <=> HasItsRoute(f, i, n)
    BY <1>1 DEF HasItsRoute
  <2>2. \A f, i, n : Made(f, i, n) => f \in 1 .. feed
    BY DEF Made
  <2> QED BY <1>5, <2>1, <2>2 DEF TripsHold, OnItsRoute
<1>12. NoneIsMissing'
  <2> SUFFICES ASSUME NEW f \in 1 .. feed', NEW i \in 1 .. Upto(f, "trips")'
               PROVE  (\E n \in 1 .. Len(out.trips) : Made(f, i, n)') \/ IsMissing(f, i)
    <3>1. \A f, i : IsMissing(f, i)' <=> IsMissing(f, i)
      BY <1>1 DEF IsMissing
    <3> QED BY <1>1, <3>1 DEF NoneIsMissing
  <2>1. f # feed'
    <3>1. f = feed' => Upto(f, "trips")' = 0
      BY <1>3 DEF Upto
    <3> QED BY <3>1
  <2>2. f \in 1 .. feed /\ i \in 1 .. Upto(f, "trips")
    BY <1>1, <1>4, <2>1
  <2>3. (\E n \in 1 .. Len(out.trips) : Made(f, i, n)) \/ IsMissing(f, i)
    BY <2>2 DEF TripsHold, NoneIsMissing
  <2> QED BY <1>5, <2>3
<1>13. ASSUME NEW part, NEW map, NEW count, PartsMapped(part, map, count)
       PROVE  PartsMapped(part, Nothing, count)'
  <2>1. DOMAIN Nothing = {}
    BY DEF Nothing
  <2>2. ASSUME NEW f \in 1 .. feed', NEW i \in Nat, NEW n \in Nat, Made(f, i, n)'
        PROVE  f \in 1 .. feed /\ Made(f, i, n)
    <3>1. Made(f, i, n)
      BY <1>5, <2>2
    <3> QED BY <3>1 DEF Made
  <2>3. \A i, n \in Nat : \A f : f = feed' => ~Made(f, i, n)'
    BY <1>1, <1>5, <1>6
  <2>4. \A f \in 1 .. feed' : \A i, n \in Nat : Made(f, i, n)' =>
          /\ out.trips[n][part] = None <=> feeds[f].trips[i][part] = None
          /\ out.trips[n][part] # None => out.trips[n][part] \in 1 .. count
    BY <1>13, <2>2 DEF PartsMapped
  <2>5. \A f, g \in 1 .. feed' : \A i, j, n, m \in Nat :
          Made(f, i, n)' /\ Made(g, j, m)' /\ out.trips[n][part] # None =>
            (out.trips[n][part] = out.trips[m][part] <=>
               f = g /\ feeds[f].trips[i][part] = feeds[g].trips[j][part])
    BY <1>13, <2>2 DEF PartsMapped
  <2>6. PICK next : next = feed'
    OBVIOUS
  <2>7. \A i, n \in Nat : ~Made(next, i, n)'
    BY <2>3, <2>6
  <2>8. \A i, n \in Nat : ~Made(feed, i, n)'
    BY <2>6, <2>7
  <2> QED BY <1>1, <2>1, <2>4, <2>5, <2>8 DEF PartsMapped
<1>14. BlocksMapped' /\ ShapesMapped'
  <2>1. PICK map, other, count, least : /\ map = maps.blocks /\ other = maps.shapes
                                        /\ count = blocks /\ least = shapes
    OBVIOUS
  <2>2. PartsMapped("block", Nothing, count)' /\ PartsMapped("shape", Nothing, least)'
    BY <1>13, <2>1 DEF TripsHold, BlocksMapped, ShapesMapped
  <2>3. maps'.blocks = Nothing /\ maps'.shapes = Nothing /\ count = blocks' /\ least = shapes'
    BY <1>1, <2>1 DEF NoMaps
  <2> QED BY <2>2, <2>3 DEF BlocksMapped, ShapesMapped
<1> QED BY <1>8, <1>9, <1>10, <1>11, <1>12, <1>14 DEF TripsHold

(* The steps that write a route or a service. *)
TheRest ==
  /\ TripsMapped /\ TripsAreTrips /\ WrittenOnce /\ OnItsRoute /\ NoneIsMissing
  /\ BlocksMapped /\ ShapesMapped

LEMMA RestIsLeft ==
  ASSUME Orderly, TripsHold, OutGrows, UNCHANGED <<feeds, feed, blocks, shapes>>,
         out'.trips = out.trips, At("trips")' = At("trips"), maps'.trips = maps.trips,
         maps'.blocks = maps.blocks, maps'.shapes = maps.shapes
  PROVE  TheRest'
<1>1. /\ feeds' = feeds /\ feed' = feed /\ blocks' = blocks /\ shapes' = shapes
      /\ out'.trips = out.trips /\ At("trips")' = At("trips") /\ maps'.trips = maps.trips
      /\ maps'.blocks = maps.blocks /\ maps'.shapes = maps.shapes
  OBVIOUS
<1>2. /\ \A i \in 1 .. Len(out.routes) : i \in 1 .. Len(out'.routes) /\ out'.routes[i] = out.routes[i]
      /\ \A i \in 1 .. Len(out.services) :
           i \in 1 .. Len(out'.services) /\ out'.services[i] = out.services[i]
  <2>1. ASSUME NEW file \in FilesWritten
        PROVE  \A i \in 1 .. Len(out[file]) :
                 i \in 1 .. Len(out'[file]) /\ out'[file][i] = out[file][i]
    BY <2>1 DEF OutGrows
  <2> QED BY <2>1 DEF FilesWritten, FeedFiles
<1>3. \A f, i, n : Made(f, i, n)' <=> Made(f, i, n)
  BY <1>1 DEF Made
<1>4. \A f : Upto(f, "trips")' = Upto(f, "trips")
  BY <1>1 DEF Upto
<1>5. TripsMapped'
  BY <1>1 DEF TripsHold, TripsMapped, Made
<1>6. TripsAreTrips'
  <2> SUFFICES ASSUME NEW n \in 1 .. Len(out.trips)
               PROVE  /\ \E f \in 1 .. feed : \E i \in 1 .. Upto(f, "trips") : Made(f, i, n)
                      /\ out.trips[n].route \in 1 .. Len(out'.routes)
                      /\ out.trips[n].service \in 1 .. Len(out'.services)
    BY <1>1, <1>3, <1>4 DEF TripsAreTrips
  <2> QED BY <1>2 DEF TripsHold, TripsAreTrips
<1>7. WrittenOnce'
  BY <1>1 DEF TripsHold, WrittenOnce
<1>8. OnItsRoute'
  <2> SUFFICES ASSUME NEW f \in 1 .. feed, NEW i \in Nat, NEW n \in Nat, Made(f, i, n)
               PROVE  HasItsRoute(f, i, n)'
    BY <1>1, <1>3 DEF OnItsRoute
  <2>1. n \in 1 .. Len(out.trips)
    BY DEF Made
  <2>2. /\ out'.routes[out.trips[n].route] = out.routes[out.trips[n].route]
        /\ out'.services[out.trips[n].service] = out.services[out.trips[n].service]
    BY <1>2, <2>1 DEF TripsHold, TripsAreTrips
  <2>3. HasItsRoute(f, i, n)
    BY DEF TripsHold, OnItsRoute
  <2> QED BY <1>1, <2>2, <2>3 DEF HasItsRoute
<1>9. NoneIsMissing'
  <2>1. \A f, i : IsMissing(f, i)' <=> IsMissing(f, i)
    BY <1>1 DEF IsMissing
  <2> QED BY <1>1, <1>3, <1>4, <2>1 DEF TripsHold, NoneIsMissing
<1>10. ASSUME NEW part, NEW map, NEW count, PartsMapped(part, map, count)
       PROVE  PartsMapped(part, map, count)'
  BY <1>1, <1>3, <1>10 DEF PartsMapped
<1>11. BlocksMapped' /\ ShapesMapped'
  <2>1. PICK map, other, count, least : /\ map = maps.blocks /\ other = maps.shapes
                                        /\ count = blocks /\ least = shapes
    OBVIOUS
  <2>2. PartsMapped("block", map, count)' /\ PartsMapped("shape", other, least)'
    BY <1>10, <2>1 DEF TripsHold, BlocksMapped, ShapesMapped
  <2>3. map = maps'.blocks /\ other = maps'.shapes /\ count = blocks' /\ least = shapes'
    BY <1>1, <2>1
  <2> QED BY <2>2, <2>3 DEF BlocksMapped, ShapesMapped
<1> QED BY <1>5, <1>6, <1>7, <1>8, <1>9, <1>11 DEF TheRest

LEMMA WriteRouteKeepsTrips == ASSUME Orderly, TripsHold, WriteRoute PROVE TripsHold'
<1>1. Orderly' /\ ARowFurther("routes") /\ OutGrows
  BY WriteRouteHolds
<1>2. /\ UNCHANGED <<feeds, feed, blocks, shapes>>
      /\ DOMAIN maps = MapNames /\ OutIsTyped
  BY TypedIsTyped DEF WriteRoute, memory, Orderly
<1>3. At("trips")' = At("trips") /\ At("services")' = At("services")
  BY <1>1 DEF ARowFurther, FeedFiles
<1>4. /\ feed \in 1 .. Len(feeds) /\ At("routes") \in Nat /\ At("routes")' = At("routes") + 1
      /\ At("routes") + 1 \in 1 .. Len(feeds[feed].routes)
      /\ First("routes") = feeds[feed].routes[At("routes") + 1]
  BY <1>1, SourceIs DEF ARowFurther
<1>5. CASE First("routes").removed
  <2>1. maps' = maps /\ out' = out
    BY <1>5 DEF WriteRoute
  <2>2. RoutesMapped'
    BY <1>2, <1>4, <1>5, <2>1 DEF TripsHold, RoutesMapped
  <2>3. ServicesMapped'
    BY <1>2, <1>3, <2>1 DEF TripsHold, ServicesMapped
  <2>4. TheRest'
    BY <1>1, <1>2, <1>3, <2>1, RestIsLeft
  <2> QED BY <2>2, <2>3, <2>4 DEF TripsHold, TheRest
<1>6. CASE ~First("routes").removed
  <2> DEFINE row == First("routes")
             map == maps.routes
             n == Len(out.routes) + 1
  <2>1. /\ WriteRow("routes", row.of)
        /\ maps' = [maps EXCEPT !.routes = Put(map, row.id, n)]
    BY <1>6 DEF WriteRoute
  <2>2. Wrote("routes", row.of)
    <3>1. PICK wrote : wrote = row.of
      OBVIOUS
    <3>2. Wrote("routes", wrote)
      BY <1>2, <2>1, <3>1, RowIsWritten DEF FilesWritten, FeedFiles
    <3> QED BY <3>1, <3>2 DEF Wrote
  <2>3. /\ out'.trips = out.trips /\ out'.services = out.services
        /\ Len(out.routes) \in Nat /\ Len(out'.routes) = n
        /\ \A k \in 1 .. Len(out.routes) : out'.routes[k] = out.routes[k]
        /\ out'.routes[n] = row.of
    <3>1. Len(out.routes) \in Nat
      BY <1>2, SequenceHas DEF OutIsTyped, FilesWritten, FeedFiles
    <3> QED BY <2>2, <3>1 DEF Wrote, Appended, FeedFiles
  <2>4. /\ maps'.routes = Put(map, row.id, n) /\ maps'.services = maps.services
        /\ maps'.trips = maps.trips /\ maps'.blocks = maps.blocks /\ maps'.shapes = maps.shapes
    BY <1>2, <2>1 DEF MapNames
  <2>5. /\ DOMAIN maps'.routes = DOMAIN map \cup {row.id}
        /\ maps'.routes[row.id] = n
        /\ \A x \in DOMAIN map : x # row.id => maps'.routes[x] = map[x]
    BY <2>4 DEF Put
  <2>6. RoutesMapped'
    <3>1. ASSUME NEW id \in DOMAIN maps'.routes
          PROVE  /\ maps'.routes[id] \in 1 .. Len(out'.routes)
                 /\ \E i \in 1 .. Len(feeds[feed].routes) :
                      /\ feeds[feed].routes[i].id = id
                      /\ out'.routes[maps'.routes[id]] = feeds[feed].routes[i].of
      <4>1. CASE id = row.id
        <5>1. maps'.routes[id] = n /\ n \in 1 .. Len(out'.routes)
          BY <2>3, <2>5, <4>1
        <5>2. /\ feeds[feed].routes[At("routes") + 1].id = id
              /\ out'.routes[n] = feeds[feed].routes[At("routes") + 1].of
          BY <1>4, <2>3, <4>1
        <5> HIDE DEF n
        <5> QED BY <1>4, <5>1, <5>2
      <4>2. CASE id # row.id
        <5>1. id \in DOMAIN map /\ maps'.routes[id] = map[id]
          BY <2>5, <4>2
        <5>2. /\ map[id] \in 1 .. Len(out.routes)
              /\ \E i \in 1 .. Len(feeds[feed].routes) :
                   /\ feeds[feed].routes[i].id = id
                   /\ out.routes[map[id]] = feeds[feed].routes[i].of
          BY <5>1 DEF TripsHold, RoutesMapped
        <5> QED BY <2>3, <5>1, <5>2
      <4> QED BY <4>1, <4>2
    <3>2. ASSUME NEW i \in 1 .. At("routes")', ~feeds[feed].routes[i].removed
          PROVE  feeds[feed].routes[i].id \in DOMAIN maps'.routes
      <4>1. CASE i = At("routes") + 1
        BY <1>4, <2>5, <4>1
      <4>2. CASE i # At("routes") + 1
        <5>1. i \in 1 .. At("routes") /\ feed > 0
          BY <1>4, <4>2
        <5> QED BY <2>5, <3>2, <5>1 DEF TripsHold, RoutesMapped
      <4> QED BY <4>1, <4>2
    <3> QED BY <1>2, <3>1, <3>2 DEF RoutesMapped
  <2>7. ServicesMapped'
    BY <1>2, <1>3, <2>3, <2>4 DEF TripsHold, ServicesMapped
  <2>8. TheRest'
    BY <1>1, <1>2, <1>3, <2>3, <2>4, RestIsLeft
  <2> QED BY <2>6, <2>7, <2>8 DEF TripsHold, TheRest
<1> QED BY <1>5, <1>6

LEMMA SeenIsThere ==
  ASSUME Orderly, NEW written, Seen(written) > 0
  PROVE  Seen(written) \in 1 .. Len(out.services) /\ out.services[Seen(written)] = written
<1> DEFINE I == {i \in 1 .. Len(out.services) : out.services[i] = written}
<1>1. Seen(written) = IF I # {} THEN Min(I) ELSE 0
  BY DEF Seen, SelectInSeq
<1>2. I # {} /\ I \in SUBSET Nat
  BY <1>1
<1> HIDE DEF I
<1>3. Min(I) \in I
  BY <1>2, MinIsLeast
<1> QED BY <1>1, <1>2, <1>3 DEF I

LEMMA WriteServiceKeepsTrips == ASSUME Orderly, TripsHold, WriteService PROVE TripsHold'
<1> DEFINE service == First("services")
           written == Written(service)
           map == maps.services
<1>1. Orderly' /\ ARowFurther("services") /\ OutGrows
  BY WriteServiceHolds
<1>2. /\ UNCHANGED <<feeds, feed, blocks, shapes>>
      /\ DOMAIN maps = MapNames /\ OutIsTyped
  BY TypedIsTyped DEF WriteService, memory, Orderly
<1>3. At("trips")' = At("trips") /\ At("routes")' = At("routes")
  BY <1>1 DEF ARowFurther, FeedFiles
<1>4. /\ feed \in 1 .. Len(feeds) /\ At("services") \in Nat /\ At("services")' = At("services") + 1
      /\ At("services") + 1 \in 1 .. Len(feeds[feed].services)
      /\ service = feeds[feed].services[At("services") + 1]
  BY <1>1, SourceIs DEF ARowFurther
<1>5. CASE ~RunsAtAll(written)
  <2>1. maps' = maps /\ out' = out
    BY <1>5 DEF WriteService
  <2>2. ServicesMapped'
    BY <1>2, <1>4, <1>5, <2>1 DEF TripsHold, ServicesMapped
  <2>3. RoutesMapped'
    BY <1>2, <1>3, <2>1 DEF TripsHold, RoutesMapped
  <2>4. TheRest'
    BY <1>1, <1>2, <1>3, <2>1, RestIsLeft
  <2> QED BY <2>2, <2>3, <2>4 DEF TripsHold, TheRest
<1>6. ASSUME NEW k \in 1 .. Len(out'.services), out'.services[k] = written,
             maps' = [maps EXCEPT !.services = Put(map, service.id, k)],
             out'.routes = out.routes, out'.trips = out.trips,
             \A i \in 1 .. Len(out.services) :
               i \in 1 .. Len(out'.services) /\ out'.services[i] = out.services[i]
      PROVE  TripsHold'
  <2>1. /\ maps'.services = Put(map, service.id, k) /\ maps'.routes = maps.routes
        /\ maps'.trips = maps.trips /\ maps'.blocks = maps.blocks /\ maps'.shapes = maps.shapes
    BY <1>2, <1>6 DEF MapNames
  <2>2. /\ DOMAIN maps'.services = DOMAIN map \cup {service.id}
        /\ maps'.services[service.id] = k
        /\ \A x \in DOMAIN map : x # service.id => maps'.services[x] = map[x]
    BY <2>1 DEF Put
  <2>3. ServicesMapped'
    <3>1. ASSUME NEW id \in DOMAIN maps'.services
          PROVE  /\ maps'.services[id] \in 1 .. Len(out'.services)
                 /\ \E i \in 1 .. Len(feeds[feed].services) :
                      /\ feeds[feed].services[i].id = id
                      /\ out'.services[maps'.services[id]] = Written(feeds[feed].services[i])
      <4>1. CASE id = service.id
        <5>1. maps'.services[id] = k
          BY <2>2, <4>1
        <5>2. /\ feeds[feed].services[At("services") + 1].id = id
              /\ out'.services[k] = Written(feeds[feed].services[At("services") + 1])
          BY <1>4, <1>6, <4>1
        <5> QED BY <1>4, <5>1, <5>2
      <4>2. CASE id # service.id
        <5>1. id \in DOMAIN map /\ maps'.services[id] = map[id]
          BY <2>2, <4>2
        <5>2. /\ map[id] \in 1 .. Len(out.services)
              /\ \E i \in 1 .. Len(feeds[feed].services) :
                   /\ feeds[feed].services[i].id = id
                   /\ out.services[map[id]] = Written(feeds[feed].services[i])
          BY <5>1 DEF TripsHold, ServicesMapped
        <5> QED BY <1>6, <5>1, <5>2
      <4> QED BY <4>1, <4>2
    <3>2. ASSUME NEW i \in 1 .. At("services")', RunsAtAll(Written(feeds[feed].services[i]))
          PROVE  feeds[feed].services[i].id \in DOMAIN maps'.services
      <4>1. CASE i = At("services") + 1
        BY <1>4, <2>2, <4>1
      <4>2. CASE i # At("services") + 1
        <5>1. i \in 1 .. At("services") /\ feed > 0
          BY <1>4, <4>2
        <5> QED BY <2>2, <3>2, <5>1 DEF TripsHold, ServicesMapped
      <4> QED BY <4>1, <4>2
    <3> QED BY <1>2, <3>1, <3>2 DEF ServicesMapped
  <2>4. RoutesMapped'
    BY <1>2, <1>3, <1>6, <2>1 DEF TripsHold, RoutesMapped
  <2>5. TheRest'
    BY <1>1, <1>2, <1>3, <1>6, <2>1, RestIsLeft
  <2> QED BY <2>3, <2>4, <2>5 DEF TripsHold, TheRest
<1>7. CASE /\ Seen(written) > 0 /\ out' = out
           /\ maps' = [maps EXCEPT !.services = Put(map, service.id, Seen(written))]
  <2>1. Seen(written) \in 1 .. Len(out.services) /\ out.services[Seen(written)] = written
    BY <1>7, SeenIsThere
  <2>2. PICK k : k = Seen(written)
    OBVIOUS
  <2> HIDE DEF written
  <2> QED BY <1>6, <1>7, <2>1, <2>2
<1>8. CASE /\ WriteRow("services", written)
           /\ maps' = [maps EXCEPT !.services = Put(map, service.id, Len(out.services) + 1)]
  <2>1. PICK row, k : row = written /\ k = Len(out.services) + 1
    OBVIOUS
  <2>2. Wrote("services", row)
    BY <1>2, <1>8, <2>1, RowIsWritten DEF FilesWritten, FeedFiles
  <2>3. Len(out.services) \in Nat
    BY <1>2, SequenceHas DEF OutIsTyped, FilesWritten, FeedFiles
  <2>4. /\ out'.trips = out.trips /\ out'.routes = out.routes
        /\ k \in 1 .. Len(out'.services) /\ out'.services[k] = row
        /\ \A i \in 1 .. Len(out.services) :
             i \in 1 .. Len(out'.services) /\ out'.services[i] = out.services[i]
    BY <2>1, <2>2, <2>3 DEF Wrote, Appended, FeedFiles
  <2> HIDE DEF written
  <2> QED BY <1>6, <1>8, <2>1, <2>4
<1> QED BY <1>5, <1>7, <1>8 DEF WriteService

(***************************************************************************)
(* A trip is written: the next one of the feed in hand is the next of all. *)
(***************************************************************************)
NextTrip == Len(out.trips) + 1
NextOfFeed == At("trips") + 1

OneMore(i0, n0) ==
  /\ feeds' = feeds /\ feed' = feed /\ feed \in 1 .. Len(feeds)
  /\ i0 \in Nat /\ n0 \in Nat
  /\ \A f, i, n : Made(f, i, n)' <=> Made(f, i, n) \/ (f = feed /\ i = i0 /\ n = n0)
  /\ \A f, i, n : Made(f, i, n) => n # n0 /\ out'.trips[n] = out.trips[n]
  /\ \A n : ~Made(feed, i0, n)

LEMMA PartIsNumbered ==
  ASSUME NEW i0, NEW n0, OneMore(i0, n0), NEW part, NEW map, NEW count \in Nat,
         PartsMapped(part, map, count),
         NEW id, id = feeds[feed].trips[i0][part],
         NEW next, next = Numbered(map, id, count),
         NEW total, total = NewlyNumbered(map, id, count),
         out'.trips[n0][part] = Get(next, id)
  PROVE  PartsMapped(part, next, total)'
<1> DEFINE v == Get(next, id)
<1>0. \A f, h \in 1 .. feed : \A i, k, n, l \in Nat :
        Made(f, i, n) /\ Made(h, k, l) /\ out.trips[n][part] # None =>
          (out.trips[n][part] = out.trips[l][part] <=>
             f = h /\ feeds[f].trips[i][part] = feeds[h].trips[k][part])
  BY Zenon DEF PartsMapped
<1>1. \A x \in DOMAIN map : x # None /\ map[x] \in 1 .. count
  <2> TAKE x \in DOMAIN map
  <2>1. PICK i \in Nat, n \in Nat :
          Made(feed, i, n) /\ feeds[feed].trips[i][part] = x /\ out.trips[n][part] = map[x]
    BY DEF PartsMapped
  <2>2. x # None /\ feed \in 1 .. feed
    BY <2>1 DEF PartsMapped, Made
  <2> QED BY <2>1, <2>2 DEF PartsMapped
<1>2. /\ id = None => v = None /\ next = map /\ total = count
      /\ id # None /\ id \in DOMAIN map => v = map[id] /\ next = map /\ total = count
      /\ id # None /\ id \notin DOMAIN map =>
           /\ v = count + 1 /\ next[id] = count + 1 /\ total = count + 1
           /\ DOMAIN next = DOMAIN map \cup {id}
           /\ \A x \in DOMAIN map : next[x] = map[x]
  BY <1>1 DEF Numbered, NewlyNumbered, Get, Put
<1>3. /\ total \in Nat /\ 1 .. count \subseteq 1 .. total
      /\ v = None <=> id = None
      /\ v # None => v \in 1 .. total
      /\ id # None => id \in DOMAIN next /\ next[id] = v
      /\ DOMAIN map \subseteq DOMAIN next /\ \A x \in DOMAIN map : next[x] = map[x]
      /\ DOMAIN next \subseteq DOMAIN map \cup {id}
      /\ None \notin DOMAIN next
  BY <1>1, <1>2, NoneAssumption, SMTT(20)
<1>4. out'.trips[n0][part] = v
  OBVIOUS
<1> HIDE DEF v
<1>5. ASSUME NEW f \in 1 .. feed, NEW i \in Nat, NEW n \in Nat, Made(f, i, n)'
      PROVE  /\ out'.trips[n][part] = None <=> feeds[f].trips[i][part] = None
             /\ out'.trips[n][part] # None => out'.trips[n][part] \in 1 .. total
  <2>1. CASE Made(f, i, n)
    <3>1. out'.trips[n] = out.trips[n]
      BY <2>1 DEF OneMore
    <3>2. /\ out.trips[n][part] = None <=> feeds[f].trips[i][part] = None
          /\ out.trips[n][part] # None => out.trips[n][part] \in 1 .. count
      BY <2>1 DEF PartsMapped
    <3> QED BY <1>3, <3>1, <3>2
  <2>2. CASE f = feed /\ i = i0 /\ n = n0
    BY <1>3, <1>4, <2>2
  <2> QED BY <1>5, <2>1, <2>2 DEF OneMore
<1>6. ASSUME NEW g \in 1 .. feed, NEW j \in Nat, NEW m \in Nat, Made(g, j, m), v # None
      PROVE  v = out.trips[m][part] <=> feed = g /\ id = feeds[g].trips[j][part]
  <2>1. CASE id \in DOMAIN map
    <3>1. PICK i \in Nat, n \in Nat :
            Made(feed, i, n) /\ feeds[feed].trips[i][part] = id /\ out.trips[n][part] = map[id]
      BY <2>1 DEF PartsMapped
    <3>2. feed \in 1 .. feed
      BY <3>1 DEF Made
    <3>3. v = map[id] /\ v # None
      BY <1>2, <1>3, <1>6, <2>1
    <3>4. Made(feed, i, n) /\ Made(g, j, m) /\ out.trips[n][part] # None
      BY <1>6, <3>1, <3>3
    <3>5. \A f \in 1 .. feed : Made(f, i, n) /\ Made(g, j, m) /\ out.trips[n][part] # None =>
            (out.trips[n][part] = out.trips[m][part] <=>
               f = g /\ feeds[f].trips[i][part] = feeds[g].trips[j][part])
      BY <1>0, <3>1
    <3>6. out.trips[n][part] = out.trips[m][part] <=>
            feed = g /\ feeds[feed].trips[i][part] = feeds[g].trips[j][part]
      BY <3>2, <3>4, <3>5
    <3> QED BY <3>1, <3>3, <3>6
  <2>2. CASE id \notin DOMAIN map
    <3>1. id # None /\ v = count + 1
      BY <1>2, <1>3, <1>6, <2>2
    <3>2. out.trips[m][part] # None => out.trips[m][part] \in 1 .. count
      BY <1>6 DEF PartsMapped
    <3>3. v # out.trips[m][part]
      BY <3>1, <3>2, <1>6
    <3>4. ~(feed = g /\ id = feeds[g].trips[j][part])
      BY <1>6, <2>2, <3>1 DEF PartsMapped
    <3> QED BY <3>3, <3>4
  <2> QED BY <2>1, <2>2
<1>7. ASSUME NEW f \in 1 .. feed, NEW g \in 1 .. feed,
             NEW i \in Nat, NEW j \in Nat, NEW n \in Nat, NEW m \in Nat,
             Made(f, i, n)', Made(g, j, m)', out'.trips[n][part] # None
      PROVE  out'.trips[n][part] = out'.trips[m][part] <=>
               f = g /\ feeds[f].trips[i][part] = feeds[g].trips[j][part]
  <2>1. CASE Made(f, i, n) /\ Made(g, j, m)
    <3>1. out'.trips[n] = out.trips[n] /\ out'.trips[m] = out.trips[m]
      BY <2>1 DEF OneMore
    <3> QED BY <1>7, <2>1, <3>1 DEF PartsMapped
  <2>2. CASE Made(f, i, n) /\ g = feed /\ j = i0 /\ m = n0
    <3>1. out'.trips[n] = out.trips[n] /\ out'.trips[m][part] = v /\ id = feeds[g].trips[j][part]
      BY <1>4, <2>2 DEF OneMore
    <3>2. CASE v = None
      <4>1. id = None /\ feeds[f].trips[i][part] # None
        BY <1>3, <1>7, <2>2, <3>1, <3>2, SMTT(20) DEF PartsMapped
      <4> QED BY <1>7, <3>1, <3>2, <4>1
    <3>3. CASE v # None
      <4>1. v = out.trips[n][part] <=> feed = f /\ id = feeds[f].trips[i][part]
        BY <1>6, <2>2, <3>3
      <4>2. out'.trips[n][part] = out.trips[n][part]
        BY <3>1
      <4> QED BY <2>2, <3>1, <4>1, <4>2
    <3> QED BY <3>2, <3>3
  <2>3. CASE f = feed /\ i = i0 /\ n = n0 /\ Made(g, j, m)
    <3>1. out'.trips[m] = out.trips[m] /\ out'.trips[n][part] = v /\ id = feeds[f].trips[i][part]
      BY <1>4, <2>3 DEF OneMore
    <3> QED BY <1>6, <1>7, <2>3, <3>1
  <2>4. CASE f = feed /\ i = i0 /\ n = n0 /\ g = feed /\ j = i0 /\ m = n0
    BY <2>4
  <2> QED BY <1>7, <2>1, <2>2, <2>3, <2>4 DEF OneMore
<1>8. ASSUME NEW x \in DOMAIN next
      PROVE  /\ x # None
             /\ \E i, n \in Nat : /\ Made(feed, i, n)'
                                  /\ feeds[feed].trips[i][part] = x
                                  /\ out'.trips[n][part] = next[x]
  <2>1. CASE x \in DOMAIN map
    <3>1. PICK i \in Nat, n \in Nat :
            Made(feed, i, n) /\ feeds[feed].trips[i][part] = x /\ out.trips[n][part] = map[x]
      BY <2>1 DEF PartsMapped
    <3>2. Made(feed, i, n)' /\ out'.trips[n] = out.trips[n]
      BY <3>1 DEF OneMore
    <3> QED BY <1>3, <2>1, <3>1, <3>2
  <2>2. CASE x = id
    <3>1. Made(feed, i0, n0)' /\ i0 \in Nat /\ n0 \in Nat
      BY DEF OneMore
    <3> QED BY <1>3, <1>4, <2>2, <3>1
  <2> QED BY <1>3, <2>1, <2>2
<1>9. ASSUME NEW i \in Nat, NEW n \in Nat, Made(feed, i, n)', feeds[feed].trips[i][part] # None
      PROVE  /\ feeds[feed].trips[i][part] \in DOMAIN next
             /\ next[feeds[feed].trips[i][part]] = out'.trips[n][part]
  <2>1. CASE Made(feed, i, n)
    <3>1. /\ feeds[feed].trips[i][part] \in DOMAIN map
          /\ map[feeds[feed].trips[i][part]] = out.trips[n][part]
      BY <1>9, <2>1 DEF PartsMapped
    <3>2. out'.trips[n] = out.trips[n]
      BY <2>1 DEF OneMore
    <3> QED BY <1>3, <3>1, <3>2
  <2>2. CASE i = i0 /\ n = n0
    BY <1>3, <1>4, <1>9, <2>2
  <2> QED BY <1>9, <2>1, <2>2 DEF OneMore
<1>10. feed' = feed /\ feeds' = feeds
  BY DEF OneMore
<1>11. \A f \in 1 .. feed' : \A i, n \in Nat : Made(f, i, n)' =>
         /\ out'.trips[n][part] = None <=> feeds'[f].trips[i][part] = None
         /\ out'.trips[n][part] # None => out'.trips[n][part] \in 1 .. total
  BY <1>5, <1>10
<1>12. \A f, g \in 1 .. feed' : \A i, j, n, m \in Nat :
         Made(f, i, n)' /\ Made(g, j, m)' /\ out'.trips[n][part] # None =>
           (out'.trips[n][part] = out'.trips[m][part] <=>
              f = g /\ feeds'[f].trips[i][part] = feeds'[g].trips[j][part])
  <2> SUFFICES ASSUME NEW f \in 1 .. feed', NEW g \in 1 .. feed', NEW i \in Nat, NEW j \in Nat,
                      NEW n \in Nat, NEW m \in Nat,
                      Made(f, i, n)', Made(g, j, m)', out'.trips[n][part] # None
               PROVE  out'.trips[n][part] = out'.trips[m][part] <=>
                        f = g /\ feeds'[f].trips[i][part] = feeds'[g].trips[j][part]
    OBVIOUS
  <2>1. f \in 1 .. feed /\ g \in 1 .. feed
    BY <1>10
  <2>2. out'.trips[n][part] = out'.trips[m][part] <=>
          f = g /\ feeds[f].trips[i][part] = feeds[g].trips[j][part]
    BY <1>7, <2>1
  <2> QED BY <1>10, <2>2
<1>13. \A x \in DOMAIN next :
         /\ x # None
         /\ \E i, n \in Nat : /\ Made(feed, i, n)'
                              /\ feeds'[feed'].trips[i][part] = x
                              /\ out'.trips[n][part] = next[x]
  BY <1>8, <1>10
<1>14. \A i, n \in Nat :
         Made(feed, i, n)' /\ feeds'[feed'].trips[i][part] # None =>
           /\ feeds'[feed'].trips[i][part] \in DOMAIN next
           /\ next[feeds'[feed'].trips[i][part]] = out'.trips[n][part]
  BY <1>9, <1>10
<1> QED BY <1>11, <1>12, <1>13, <1>14, Zenon DEF PartsMapped

(* What is known of the trip in hand. *)
TripInHand(i0, trip) ==
  /\ i0 = At("trips") + 1 /\ At("trips") \in Nat
  /\ feed \in 1 .. Len(feeds) /\ feed \in 1 .. feed
  /\ i0 \in 1 .. Len(feeds[feed].trips)
  /\ trip = feeds[feed].trips[i0] /\ trip = First("trips")
  /\ At("trips")' = i0
  /\ At("routes")' = At("routes") /\ At("services")' = At("services")
  /\ At("routes") = Len(feeds[feed].routes)
  /\ At("services") = Len(feeds[feed].services)
  /\ feeds' = feeds /\ feed' = feed

LEMMA TripIsInHand ==
  ASSUME Orderly, WriteTrip
  PROVE  \E i0, trip : TripInHand(i0, trip)
<1>1. ARowFurther("trips")
  BY WriteTripHolds
<1>2. feed > 0 /\ feed \in Nat /\ feeds \in Inputs
  <2>1. Len(feeds) \in Nat /\ feed \in 1 .. Len(feeds)
    BY <1>1, FeedsGiven DEF ARowFurther, Orderly, Typed
  <2> QED BY <2>1 DEF Orderly, Typed
<1>3. phase = "trips" /\ feeds' = feeds /\ feed' = feed
  BY DEF WriteTrip, Row
<1>4. /\ "routes" \in FeedFiles \ {"members"} /\ "services" \in FeedFiles \ {"members"}
      /\ PlaceOf["routes"] < PlaceOf["trips"] /\ PlaceOf["services"] < PlaceOf["trips"]
  BY DEF FeedFiles, PlaceOf
<1>5. /\ At("routes") = Len(feeds[feed].routes)
      /\ At("services") = Len(feeds[feed].services)
  BY <1>2, <1>3, <1>4, AtIs, SourceIs
<1>6. At("routes")' = At("routes") /\ At("services")' = At("services")
  BY <1>1, <1>4 DEF ARowFurther
<1>7. /\ At("trips") \in Nat /\ At("trips")' = At("trips") + 1
      /\ At("trips") + 1 \in 1 .. Len(feeds[feed].trips)
      /\ First("trips") = feeds[feed].trips[At("trips") + 1]
      /\ feed \in 1 .. Len(feeds)
  BY <1>1, SourceIs DEF ARowFurther
<1> QED BY <1>2, <1>3, <1>5, <1>6, <1>7 DEF TripInHand

(* It is not there yet. *)
LEMMA NotThereYet ==
  ASSUME Orderly, TripsHold, NEW i0, NEW trip, TripInHand(i0, trip)
  PROVE  /\ \A n : ~Made(feed, i0, n)
         /\ \A f \in 1 .. feed :
              /\ \A i \in 1 .. Upto(f, "trips") : i \in 1 .. Upto(f, "trips")'
              /\ \A i \in 1 .. Upto(f, "trips")' :
                   i \in 1 .. Upto(f, "trips") \/ (f = feed /\ i = i0)
         /\ i0 \in 1 .. Upto(feed, "trips")'
<1>1. Upto(feed, "trips") = At("trips") /\ Upto(feed, "trips")' = i0
  BY DEF Upto, TripInHand
<1>2. \A n : ~Made(feed, i0, n)
  <2>1. ASSUME NEW n, Made(feed, i0, n) PROVE FALSE
    <3>1. i0 \in 1 .. Upto(feed, "trips")
      BY <2>1, MadeOfOne DEF TripsHold
    <3> QED BY <1>1, <3>1 DEF TripInHand
  <2> QED BY <2>1
<1>3. \A f \in 1 .. feed : f # feed => Upto(f, "trips")' = Upto(f, "trips")
  BY DEF Upto, TripInHand
<1>4. ASSUME NEW f \in 1 .. feed
      PROVE  /\ \A i \in 1 .. Upto(f, "trips") : i \in 1 .. Upto(f, "trips")'
             /\ \A i \in 1 .. Upto(f, "trips")' :
                  i \in 1 .. Upto(f, "trips") \/ (f = feed /\ i = i0)
  <2>1. CASE f = feed
    BY <1>1, <2>1 DEF TripInHand
  <2>2. CASE f # feed
    BY <1>3, <2>2
  <2> QED BY <2>1, <2>2
<1>5. i0 \in 1 .. Upto(feed, "trips")'
  BY <1>1 DEF TripInHand
<1> QED BY <1>2, <1>4, <1>5

LEMMA WriteNoTrip ==
  ASSUME Orderly, TripsHold, WriteTrip, NEW i0, NEW trip, TripInHand(i0, trip),
         UNCHANGED <<maps, blocks, shapes, out>>,
         Get(maps.services, trip.service) = None \/ Get(maps.routes, trip.route) = None
  PROVE  TripsHold'
<1>1. /\ feeds' = feeds /\ feed' = feed /\ maps' = maps /\ blocks' = blocks
      /\ shapes' = shapes /\ out' = out
      /\ At("routes")' = At("routes") /\ At("services")' = At("services")
      /\ At("trips")' = At("trips") + 1 /\ At("trips") \in Nat
  BY DEF TripInHand
<1>2. \A f, i, n : Made(f, i, n)' <=> Made(f, i, n)
  BY <1>1 DEF Made
<1>3. RoutesMapped' /\ ServicesMapped'
  BY <1>1 DEF TripsHold, RoutesMapped, ServicesMapped
<1>4. TripsMapped'
  <2>1. ASSUME NEW id \in DOMAIN maps.trips
        PROVE  \E i \in 1 .. At("trips") + 1 :
                 feeds[feed].trips[i].id = id /\ Made(feed, i, maps.trips[id])
    <3>1. PICK i \in 1 .. At("trips") :
            feeds[feed].trips[i].id = id /\ Made(feed, i, maps.trips[id])
      BY DEF TripsHold, TripsMapped
    <3>2. i \in 1 .. At("trips") + 1
      BY <1>1, <3>1
    <3> QED BY <3>1, <3>2
  <2>2. ASSUME NEW i \in 1 .. At("trips") + 1, NEW n \in 1 .. Len(out.trips), Made(feed, i, n)
        PROVE  /\ feeds[feed].trips[i].id \in DOMAIN maps.trips
               /\ maps.trips[feeds[feed].trips[i].id] = n
    <3>1. i # At("trips") + 1
      BY <2>2, NotThereYet DEF TripInHand
    <3>2. i \in 1 .. At("trips") /\ feed > 0
      BY <1>1, <3>1 DEF TripInHand
    <3> QED BY <2>2, <3>2 DEF TripsHold, TripsMapped
  <2>3. \A id, i : Made(feed, i, maps.trips[id])' <=> Made(feed, i, maps.trips[id])
    BY <1>1 DEF Made
  <2> QED BY <1>1, <1>2, <2>1, <2>2, <2>3 DEF TripsMapped
<1>5. TripsAreTrips'
  <2> SUFFICES ASSUME NEW n \in 1 .. Len(out.trips)
               PROVE  /\ \E f \in 1 .. feed : \E i \in 1 .. Upto(f, "trips")' : Made(f, i, n)
                      /\ out.trips[n].route \in 1 .. Len(out.routes)
                      /\ out.trips[n].service \in 1 .. Len(out.services)
    BY <1>1, <1>2 DEF TripsAreTrips
  <2>1. PICK f \in 1 .. feed : \E i \in 1 .. Upto(f, "trips") : Made(f, i, n)
    BY DEF TripsHold, TripsAreTrips
  <2> QED BY <2>1, NotThereYet DEF TripsHold, TripsAreTrips
<1>6. WrittenOnce'
  BY <1>1 DEF TripsHold, WrittenOnce
<1>7. OnItsRoute'
  <2>1. \A f, i, n : HasItsRoute(f, i, n)' <=> HasItsRoute(f, i, n)
    BY <1>1 DEF HasItsRoute
  <2> QED BY <1>1, <1>2, <2>1 DEF TripsHold, OnItsRoute
<1>8. IsMissing(feed, i0)
  <2>1. feed > 0 /\ IsAFeed(feeds[feed]) /\ "routes" \in FeedFiles /\ "services" \in FeedFiles
        /\ "trips" \in FeedFiles
    <3>1. feed \in 1 .. Len(feeds) /\ feeds \in Inputs
      BY DEF TripInHand, Orderly, Typed
    <3>2. IsAFeed(feeds[feed]) /\ feed > 0
      BY <3>1, FeedsGiven
    <3> QED BY <3>2 DEF FeedFiles
  <2>2. CASE Get(maps.services, trip.service) = None
    <3>1. trip.service \notin DOMAIN maps.services
      <4> SUFFICES ASSUME trip.service \in DOMAIN maps.services PROVE FALSE
        OBVIOUS
      <4>1. maps.services[trip.service] \in 1 .. Len(out.services)
        BY DEF TripsHold, ServicesMapped
      <4>2. maps.services[trip.service] # None
        BY <4>1, NoneAssumption
      <4> QED BY <2>2, <4>2 DEF Get
    <3>2. ASSUME NEW s \in 1 .. Len(feeds[feed].services), feeds[feed].services[s].id = trip.service
          PROVE  ~RunsAtAll(Written(feeds[feed].services[s]))
      BY <2>1, <3>1, <3>2 DEF TripsHold, ServicesMapped, TripInHand
    <3> QED BY <3>2 DEF IsMissing, TripInHand
  <2>3. CASE Get(maps.routes, trip.route) = None
    <3>1. trip.route \notin DOMAIN maps.routes
      <4> SUFFICES ASSUME trip.route \in DOMAIN maps.routes PROVE FALSE
        OBVIOUS
      <4>1. maps.routes[trip.route] \in 1 .. Len(out.routes)
        BY DEF TripsHold, RoutesMapped
      <4>2. maps.routes[trip.route] # None
        BY <4>1, NoneAssumption
      <4> QED BY <2>3, <4>2 DEF Get
    <3>2. trip \in Range(feeds[feed].trips)
      <4>1. IsSeq(feeds[feed].trips)
        BY <2>1, FilesGiven DEF Orderly, Typed, TripInHand
      <4>2. i0 \in 1 .. Len(feeds[feed].trips) /\ trip = feeds[feed].trips[i0]
        BY DEF TripInHand
      <4> QED BY <4>1, <4>2, SequenceHas
    <3>3. PICK r \in Range(feeds[feed].routes) : r.id = trip.route
      BY <2>1, <3>2 DEF IsAFeed
    <3>4. PICK k \in 1 .. Len(feeds[feed].routes) : feeds[feed].routes[k] = r
      <4>1. IsSeq(feeds[feed].routes)
        BY <2>1, FilesGiven DEF Orderly, Typed, TripInHand
      <4> QED BY <4>1, SequenceHas
    <3>5. feeds[feed].routes[k].removed
      BY <2>1, <3>1, <3>3, <3>4 DEF TripsHold, RoutesMapped, TripInHand
    <3> QED BY <3>3, <3>4, <3>5 DEF IsMissing, TripInHand
  <2> QED BY <2>2, <2>3
<1>9. NoneIsMissing'
  <2>1. \A f, i : IsMissing(f, i)' <=> IsMissing(f, i)
    BY <1>1 DEF IsMissing
  <2> SUFFICES ASSUME NEW f \in 1 .. feed, NEW i \in 1 .. Upto(f, "trips")'
               PROVE  (\E n \in 1 .. Len(out.trips) : Made(f, i, n)) \/ IsMissing(f, i)
    BY <1>1, <1>2, <2>1 DEF NoneIsMissing
  <2>2. CASE i \in 1 .. Upto(f, "trips")
    BY <2>2 DEF TripsHold, NoneIsMissing
  <2>3. CASE f = feed /\ i = i0
    BY <1>8, <2>3
  <2> QED BY <2>2, <2>3, NotThereYet
<1>10. ASSUME NEW part, NEW map, NEW count, PartsMapped(part, map, count)
       PROVE  PartsMapped(part, map, count)'
  BY <1>1, <1>2, <1>10 DEF PartsMapped
<1>11. BlocksMapped' /\ ShapesMapped'
  <2>1. PICK map, other, count, least : /\ map = maps.blocks /\ other = maps.shapes
                                        /\ count = blocks /\ least = shapes
    OBVIOUS
  <2>2. PartsMapped("block", map, count)' /\ PartsMapped("shape", other, least)'
    BY <1>10, <2>1 DEF TripsHold, BlocksMapped, ShapesMapped
  <2>3. map = maps'.blocks /\ other = maps'.shapes /\ count = blocks' /\ least = shapes'
    BY <1>1, <2>1
  <2> QED BY <2>2, <2>3 DEF BlocksMapped, ShapesMapped
<1> QED BY <1>3, <1>4, <1>5, <1>6, <1>7, <1>9, <1>11 DEF TripsHold

(* The row written for the trip, and the maps that know it. *)
TripWritten(i0, trip, n0, row) ==
  /\ n0 = Len(out.trips) + 1 /\ Len(out.trips) \in Nat
  /\ Len(out'.trips) = n0 /\ out'.trips[n0] = row
  /\ \A n \in 1 .. Len(out.trips) : out'.trips[n] = out.trips[n]
  /\ out'.routes = out.routes /\ out'.services = out.services
  /\ row.of = trip.of
  /\ trip.route \in DOMAIN maps.routes /\ row.route = maps.routes[trip.route]
  /\ trip.service \in DOMAIN maps.services /\ row.service = maps.services[trip.service]
  /\ maps'.trips = Put(maps.trips, trip.id, n0)
  /\ maps'.routes = maps.routes /\ maps'.services = maps.services

LEMMA TripIsWritten ==
  ASSUME Orderly, WriteTrip, NEW i0, NEW trip, TripInHand(i0, trip),
         NEW service, service = Get(maps.services, trip.service), service # None,
         NEW route, route = Get(maps.routes, trip.route), route # None
  PROVE  \E n0, row, inBlocks, inShapes :
           /\ TripWritten(i0, trip, n0, row)
           /\ inBlocks = Numbered(maps.blocks, trip.block, blocks)
           /\ inShapes = Numbered(maps.shapes, trip.shape, shapes)
           /\ maps'.blocks = inBlocks /\ maps'.shapes = inShapes
           /\ blocks' = NewlyNumbered(maps.blocks, trip.block, blocks)
           /\ shapes' = NewlyNumbered(maps.shapes, trip.shape, shapes)
           /\ row.block = Get(inBlocks, trip.block)
           /\ row.shape = Get(inShapes, trip.shape)
<1> DEFINE inBlocks == Numbered(maps.blocks, trip.block, blocks)
           inShapes == Numbered(maps.shapes, trip.shape, shapes)
           n0 == Len(out.trips) + 1
           row == [of |-> trip.of, route |-> route, service |-> service,
                   block |-> Get(inBlocks, trip.block), shape |-> Get(inShapes, trip.shape)]
<1>1. trip = First("trips") /\ DOMAIN maps = MapNames /\ OutIsTyped
  BY TypedIsTyped DEF TripInHand, Orderly
<1>2. /\ maps' = [maps EXCEPT !.trips = Put(@, trip.id, n0),
                               !.blocks = inBlocks, !.shapes = inShapes]
      /\ blocks' = NewlyNumbered(maps.blocks, trip.block, blocks)
      /\ shapes' = NewlyNumbered(maps.shapes, trip.shape, shapes)
      /\ WriteRow("trips", row)
  BY <1>1 DEF WriteTrip
<1>3. PICK wrote : wrote = row
  OBVIOUS
<1>4. Wrote("trips", wrote)
  <2> HIDE DEF row
  <2> QED BY <1>1, <1>2, <1>3, RowIsWritten DEF FilesWritten, FeedFiles
<1>5. /\ Len(out.trips) \in Nat /\ Len(out'.trips) = n0 /\ out'.trips[n0] = wrote
      /\ \A n \in 1 .. Len(out.trips) : out'.trips[n] = out.trips[n]
      /\ out'.routes = out.routes /\ out'.services = out.services
  <2>1. Len(out.trips) \in Nat
    BY <1>1, SequenceHas DEF OutIsTyped, FilesWritten, FeedFiles
  <2> QED BY <1>4, <2>1 DEF Wrote, Appended, FeedFiles
<1>6. /\ maps'.trips = Put(maps.trips, trip.id, n0) /\ maps'.blocks = inBlocks
      /\ maps'.shapes = inShapes /\ maps'.routes = maps.routes /\ maps'.services = maps.services
  <2> HIDE DEF n0, inBlocks, inShapes
  <2> QED BY <1>1, <1>2 DEF MapNames
<1>7. /\ trip.route \in DOMAIN maps.routes /\ route = maps.routes[trip.route]
      /\ trip.service \in DOMAIN maps.services /\ service = maps.services[trip.service]
  BY DEF Get
<1>8. /\ wrote.of = trip.of /\ wrote.route = route /\ wrote.service = service
      /\ wrote.block = Get(inBlocks, trip.block) /\ wrote.shape = Get(inShapes, trip.shape)
  <2> HIDE DEF inBlocks, inShapes
  <2> QED BY <1>3
<1>9. TripWritten(i0, trip, n0, wrote)
  BY <1>5, <1>6, <1>7, <1>8 DEF TripWritten
<1> HIDE DEF n0, inBlocks, inShapes, row
<1>10. /\ inBlocks = Numbered(maps.blocks, trip.block, blocks)
       /\ inShapes = Numbered(maps.shapes, trip.shape, shapes)
  BY DEF inBlocks, inShapes
<1> QED BY <1>2, <1>6, <1>8, <1>9, <1>10

LEMMA WriteATrip ==
  ASSUME Orderly, TripsHold, WriteTrip, NEW i0, NEW trip, TripInHand(i0, trip),
         NEW n0, NEW row, TripWritten(i0, trip, n0, row)
  PROVE  /\ OneMore(i0, n0)
         /\ RoutesMapped' /\ ServicesMapped' /\ TripsMapped' /\ TripsAreTrips' /\ WrittenOnce'
         /\ OnItsRoute' /\ NoneIsMissing'
<1>1. /\ feeds' = feeds /\ feed' = feed /\ feed \in 1 .. Len(feeds) /\ feed \in 1 .. feed
      /\ out'.routes = out.routes /\ out'.services = out.services
      /\ maps'.routes = maps.routes /\ maps'.services = maps.services
      /\ At("routes")' = At("routes") /\ At("services")' = At("services")
      /\ At("trips")' = At("trips") + 1 /\ At("trips") \in Nat /\ i0 = At("trips") + 1
      /\ i0 \in 1 .. Len(feeds[feed].trips) /\ trip = feeds[feed].trips[i0]
  BY DEF TripInHand, TripWritten
<1>2. /\ n0 = Len(out.trips) + 1 /\ Len(out.trips) \in Nat /\ Len(out'.trips) = n0
      /\ out'.trips[n0] = row /\ n0 \in Nat /\ i0 \in Nat /\ row.of = trip.of
      /\ \A n \in 1 .. Len(out.trips) : out'.trips[n] = out.trips[n]
  BY <1>1 DEF TripWritten
<1>3. ASSUME NEW f, NEW i, NEW n
      PROVE  Made(f, i, n)' <=> Made(f, i, n) \/ (f = feed /\ i = i0 /\ n = n0)
  <2>1. Made(f, i, n) => Made(f, i, n)'
    BY <1>1, <1>2, SMTT(20) DEF Made
  <2>2. f = feed /\ i = i0 /\ n = n0 => Made(f, i, n)'
    BY <1>1, <1>2 DEF Made
  <2>3. ASSUME Made(f, i, n)', n # n0 PROVE Made(f, i, n)
    <3>1. n \in 1 .. Len(out.trips)
      BY <1>2, <2>3 DEF Made
    <3> QED BY <1>1, <1>2, <2>3, <3>1 DEF Made
  <2>4. ASSUME Made(f, i, n)', n = n0 PROVE f = feed /\ i = i0
    <3>1. /\ f \in 1 .. feed /\ i \in 1 .. Len(feeds[f].trips)
          /\ feeds[f].trips[i].of = feeds[feed].trips[i0].of
      BY <1>1, <1>2, <2>4 DEF Made
    <3>2. f \in 1 .. Len(feeds) /\ feeds \in Inputs
      BY <1>1, <3>1, FeedsGiven DEF Orderly, Typed
    <3>3. feed \in 1 .. Len(feeds) /\ i0 \in 1 .. Len(feeds[feed].trips)
      BY <1>1
    <3> QED BY <3>1, <3>2, <3>3, OneTrip
  <2> QED BY <2>1, <2>2, <2>3, <2>4
<1>4. \A n : ~Made(feed, i0, n)
  BY NotThereYet
<1>5. \A f, i, n : Made(f, i, n) => n \in 1 .. Len(out.trips) /\ n # n0 /\ out'.trips[n] = out.trips[n]
  BY <1>2 DEF Made
<1>6. OneMore(i0, n0)
  BY <1>1, <1>2, <1>3, <1>4, <1>5 DEF OneMore
<1>7. RoutesMapped' /\ ServicesMapped'
  BY <1>1 DEF TripsHold, RoutesMapped, ServicesMapped
<1>8. /\ DOMAIN maps'.trips = DOMAIN maps.trips \cup {trip.id}
      /\ maps'.trips[trip.id] = n0
      /\ \A x \in DOMAIN maps.trips : x # trip.id => maps'.trips[x] = maps.trips[x]
  BY DEF TripWritten, Put
<1>9. TripsMapped'
  <2>1. ASSUME NEW id \in DOMAIN maps'.trips
        PROVE  \E i \in 1 .. At("trips") + 1 :
                 feeds[feed].trips[i].id = id /\ \A n : n = maps'.trips[id] => Made(feed, i, n)'
    <3>1. CASE id = trip.id
      <4>1. i0 \in 1 .. At("trips") + 1 /\ feeds[feed].trips[i0].id = id
        BY <1>1, <3>1
      <4>2. Made(feed, i0, n0)'
        BY <1>1, <1>6 DEF OneMore
      <4> QED BY <1>8, <3>1, <4>1, <4>2
    <3>2. CASE id # trip.id
      <4>1. id \in DOMAIN maps.trips /\ maps'.trips[id] = maps.trips[id]
        BY <1>8, <3>2
      <4>2. PICK i \in 1 .. At("trips") :
              feeds[feed].trips[i].id = id /\ Made(feed, i, maps.trips[id])
        BY <4>1 DEF TripsHold, TripsMapped
      <4>3. i \in 1 .. At("trips") + 1 /\ \A n : n = maps.trips[id] => Made(feed, i, n)'
        BY <1>1, <1>3, <4>2
      <4> QED BY <4>1, <4>2, <4>3
    <3> QED BY <3>1, <3>2
  <2>2. ASSUME NEW i \in 1 .. At("trips") + 1, NEW n, Made(feed, i, n)'
        PROVE  /\ feeds[feed].trips[i].id \in DOMAIN maps'.trips
               /\ maps'.trips[feeds[feed].trips[i].id] = n
    <3>1. CASE Made(feed, i, n)
      <4>1. i \in 1 .. At("trips") /\ n \in 1 .. Len(out.trips) /\ feed > 0 /\ i # i0
        BY <1>1, <1>4, <1>5, <3>1
      <4>2. /\ feeds[feed].trips[i].id \in DOMAIN maps.trips
            /\ maps.trips[feeds[feed].trips[i].id] = n
        BY <3>1, <4>1 DEF TripsHold, TripsMapped
      <4>3. feeds[feed].trips[i].id # trip.id
        <5>1. IsAFeed(feeds[feed]) /\ "trips" \in FeedFiles
          BY <1>1, FeedsGiven DEF Orderly, Typed, FeedFiles
        <5>2. i \in DOMAIN feeds[feed].trips /\ i0 \in DOMAIN feeds[feed].trips
          BY <1>1, <3>1, <5>1, FilesGiven DEF Made, Orderly, Typed
        <5>3. \A k, l \in DOMAIN feeds[feed].trips :
                feeds[feed].trips[k].id = feeds[feed].trips[l].id => k = l
          BY <5>1 DEF IsAFeed
        <5> QED BY <1>1, <4>1, <5>2, <5>3
      <4> QED BY <1>8, <4>2, <4>3
    <3>2. CASE i = i0 /\ n = n0
      BY <1>1, <1>8, <3>2
    <3> QED BY <1>6, <2>2, <3>1, <3>2 DEF OneMore
  <2>3. \A id \in DOMAIN maps'.trips : \E i \in 1 .. At("trips")' :
          feeds'[feed'].trips[i].id = id /\ Made(feed, i, maps.trips[id])'
    <3> TAKE id \in DOMAIN maps'.trips
    <3>1. PICK n : n = maps'.trips[id]
      OBVIOUS
    <3>2. PICK i \in 1 .. At("trips") + 1 : feeds[feed].trips[i].id = id /\ Made(feed, i, n)'
      BY <2>1, <3>1
    <3>3. Made(feed, i, maps.trips[id])'
      BY <3>1, <3>2 DEF Made
    <3> QED BY <1>1, <3>2, <3>3
  <2>4. \A i \in 1 .. At("trips")', n \in 1 .. Len(out'.trips) :
          Made(feed, i, n)' => /\ feeds'[feed'].trips[i].id \in DOMAIN maps'.trips
                               /\ maps'.trips[feeds'[feed'].trips[i].id] = n
    BY <1>1, <2>2
  <2> QED BY <2>3, <2>4 DEF TripsMapped
<1>10. TripsAreTrips'
  <2> SUFFICES ASSUME NEW n \in 1 .. Len(out'.trips)
               PROVE  /\ \E f \in 1 .. feed : \E i \in 1 .. Upto(f, "trips")' : Made(f, i, n)'
                      /\ out'.trips[n].route \in 1 .. Len(out.routes)
                      /\ out'.trips[n].service \in 1 .. Len(out.services)
    BY <1>1 DEF TripsAreTrips
  <2>1. CASE n = n0
    <3>1. Made(feed, i0, n)' /\ i0 \in 1 .. Upto(feed, "trips")'
      BY <1>6, <2>1, NotThereYet DEF OneMore
    <3>2. /\ maps.routes[trip.route] \in 1 .. Len(out.routes)
          /\ maps.services[trip.service] \in 1 .. Len(out.services)
      BY DEF TripsHold, RoutesMapped, ServicesMapped, TripWritten
    <3>3. row.route = maps.routes[trip.route] /\ row.service = maps.services[trip.service]
      BY DEF TripWritten
    <3> QED BY <1>1, <1>2, <2>1, <3>1, <3>2, <3>3
  <2>2. CASE n # n0
    <3>1. n \in 1 .. Len(out.trips) /\ out'.trips[n] = out.trips[n]
      BY <1>2, <2>2
    <3>2. PICK f \in 1 .. feed : \E i \in 1 .. Upto(f, "trips") : Made(f, i, n)
      BY <3>1 DEF TripsHold, TripsAreTrips
    <3>3. \E i \in 1 .. Upto(f, "trips")' : Made(f, i, n)'
      BY <1>3, <3>2, NotThereYet
    <3> QED BY <3>1, <3>3 DEF TripsHold, TripsAreTrips
  <2> QED BY <2>1, <2>2
<1>11. WrittenOnce'
  <2> SUFFICES ASSUME NEW n \in 1 .. Len(out'.trips), NEW m \in 1 .. Len(out'.trips),
                      out'.trips[n].of = out'.trips[m].of
               PROVE  n = m
    BY DEF WrittenOnce
  <2>1. ASSUME NEW k \in 1 .. Len(out.trips) PROVE out.trips[k].of # trip.of
    <3>1. PICK f \in 1 .. feed : \E i \in 1 .. Upto(f, "trips") : Made(f, i, k)
      BY DEF TripsHold, TripsAreTrips
    <3>2. PICK i \in 1 .. Upto(f, "trips") : Made(f, i, k)
      BY <3>1
    <3>3. f = feed => i # i0
      BY <1>4, <3>2
    <3>4. /\ f \in 1 .. Len(feeds) /\ i \in 1 .. Len(feeds[f].trips) /\ feeds \in Inputs
          /\ out.trips[k].of = feeds[f].trips[i].of
      <4>1. Len(feeds) \in Nat /\ feeds \in Inputs /\ feed \in 0 .. Len(feeds)
        BY FeedsGiven DEF Orderly, Typed
      <4> QED BY <3>2, <4>1 DEF Made
    <3>5. feed \in 1 .. Len(feeds) /\ i0 \in 1 .. Len(feeds[feed].trips)
      BY <1>1
    <3>6. feeds[f].trips[i].of = feeds[feed].trips[i0].of => f = feed /\ i = i0
      BY <3>4, <3>5, OneTrip, SMTT(20)
    <3> QED BY <1>1, <3>3, <3>4, <3>6
  <2>2. CASE n = n0 /\ m # n0
    <3>1. m \in 1 .. Len(out.trips) /\ out'.trips[m] = out.trips[m]
      BY <1>2, <2>2
    <3> QED BY <1>2, <2>1, <2>2, <3>1
  <2>3. CASE n # n0 /\ m = n0
    <3>1. n \in 1 .. Len(out.trips) /\ out'.trips[n] = out.trips[n]
      BY <1>2, <2>3
    <3> QED BY <1>2, <2>1, <2>3, <3>1
  <2>4. CASE n # n0 /\ m # n0
    <3>1. /\ n \in 1 .. Len(out.trips) /\ out'.trips[n] = out.trips[n]
          /\ m \in 1 .. Len(out.trips) /\ out'.trips[m] = out.trips[m]
      BY <1>2, <2>4
    <3> QED BY <3>1 DEF TripsHold, WrittenOnce
  <2> QED BY <2>2, <2>3, <2>4
<1>12. OnItsRoute'
  <2> SUFFICES ASSUME NEW f \in 1 .. feed, NEW i \in Nat, NEW n \in Nat, Made(f, i, n)'
               PROVE  HasItsRoute(f, i, n)'
    BY <1>1 DEF OnItsRoute
  <2>1. CASE Made(f, i, n)
    <3>1. HasItsRoute(f, i, n) /\ out'.trips[n] = out.trips[n]
      BY <1>5, <2>1 DEF TripsHold, OnItsRoute
    <3> QED BY <1>1, <3>1 DEF HasItsRoute
  <2>2. CASE f = feed /\ i = i0 /\ n = n0
    <3>1. \E r \in 1 .. Len(feeds[feed].routes) :
            /\ feeds[feed].routes[r].id = trip.route
            /\ out.routes[maps.routes[trip.route]] = feeds[feed].routes[r].of
      BY DEF TripsHold, RoutesMapped, TripWritten
    <3>2. \E s \in 1 .. Len(feeds[feed].services) :
            /\ feeds[feed].services[s].id = trip.service
            /\ out.services[maps.services[trip.service]] = Written(feeds[feed].services[s])
      BY DEF TripsHold, ServicesMapped, TripWritten
    <3>3. row.route = maps.routes[trip.route] /\ row.service = maps.services[trip.service]
      BY DEF TripWritten
    <3> QED BY <1>1, <1>2, <2>2, <3>1, <3>2, <3>3 DEF HasItsRoute
  <2> QED BY <1>3, <2>1, <2>2
<1>13. NoneIsMissing'
  <2>1. \A f, i : IsMissing(f, i)' <=> IsMissing(f, i)
    BY <1>1 DEF IsMissing
  <2> SUFFICES ASSUME NEW f \in 1 .. feed, NEW i \in 1 .. Upto(f, "trips")'
               PROVE  (\E n \in 1 .. Len(out'.trips) : Made(f, i, n)') \/ IsMissing(f, i)
    BY <1>1, <2>1 DEF NoneIsMissing
  <2>2. CASE i \in 1 .. Upto(f, "trips")
    <3>1. (\E n \in 1 .. Len(out.trips) : Made(f, i, n)) \/ IsMissing(f, i)
      BY <2>2 DEF TripsHold, NoneIsMissing
    <3>2. \A n \in 1 .. Len(out.trips) : n \in 1 .. Len(out'.trips)
      BY <1>2
    <3> QED BY <1>3, <3>1, <3>2
  <2>3. CASE f = feed /\ i = i0
    <3>1. n0 \in 1 .. Len(out'.trips)
      BY <1>2
    <3> QED BY <1>3, <2>3, <3>1
  <2> QED BY <2>2, <2>3, NotThereYet
<1> QED BY <1>6, <1>7, <1>9, <1>10, <1>11, <1>12, <1>13

LEMMA WriteTripKeepsTrips == ASSUME Orderly, TripsHold, WriteTrip PROVE TripsHold'
<1>1. PICK i0, trip : TripInHand(i0, trip)
  BY TripIsInHand
<1>2. PICK service, route : service = Get(maps.services, trip.service)
                            /\ route = Get(maps.routes, trip.route)
  OBVIOUS
<1>3. CASE service = None \/ route = None
  <2>1. UNCHANGED <<maps, blocks, shapes, out>>
    BY <1>1, <1>2, <1>3 DEF WriteTrip, TripInHand
  <2> QED BY <1>1, <1>2, <1>3, <2>1, WriteNoTrip
<1>4. CASE service # None /\ route # None
  <2>1. PICK n0, row, inBlocks, inShapes :
           /\ TripWritten(i0, trip, n0, row)
           /\ inBlocks = Numbered(maps.blocks, trip.block, blocks)
           /\ inShapes = Numbered(maps.shapes, trip.shape, shapes)
           /\ maps'.blocks = inBlocks /\ maps'.shapes = inShapes
           /\ blocks' = NewlyNumbered(maps.blocks, trip.block, blocks)
           /\ shapes' = NewlyNumbered(maps.shapes, trip.shape, shapes)
           /\ row.block = Get(inBlocks, trip.block)
           /\ row.shape = Get(inShapes, trip.shape)
    BY <1>1, <1>2, <1>4, TripIsWritten
  <2>2. /\ OneMore(i0, n0)
        /\ RoutesMapped' /\ ServicesMapped' /\ TripsMapped' /\ TripsAreTrips' /\ WrittenOnce'
        /\ OnItsRoute' /\ NoneIsMissing'
    BY <1>1, <2>1, WriteATrip
  <2>3. out'.trips[n0] = row /\ trip = feeds[feed].trips[i0]
    BY <1>1, <2>1 DEF TripWritten, TripInHand
  <2>4. BlocksMapped'
    <3>1. PICK map, count, id, total :
            /\ map = maps.blocks /\ count = blocks /\ id = trip.block /\ total = blocks'
      OBVIOUS
    <3>2. count \in Nat /\ PartsMapped("block", map, count)
      BY <3>1 DEF Orderly, Typed, TripsHold, BlocksMapped
    <3>3. /\ id = feeds[feed].trips[i0]["block"]
          /\ inBlocks = Numbered(map, id, count) /\ total = NewlyNumbered(map, id, count)
          /\ out'.trips[n0]["block"] = Get(inBlocks, id)
      BY <2>1, <2>3, <3>1
    <3>4. PartsMapped("block", inBlocks, total)'
      BY <2>2, <3>2, <3>3, PartIsNumbered
    <3> QED BY <2>1, <3>1, <3>4 DEF BlocksMapped
  <2>5. ShapesMapped'
    <3>1. PICK map, count, id, total :
            /\ map = maps.shapes /\ count = shapes /\ id = trip.shape /\ total = shapes'
      OBVIOUS
    <3>2. count \in Nat /\ PartsMapped("shape", map, count)
      BY <3>1 DEF Orderly, Typed, TripsHold, ShapesMapped
    <3>3. /\ id = feeds[feed].trips[i0]["shape"]
          /\ inShapes = Numbered(map, id, count) /\ total = NewlyNumbered(map, id, count)
          /\ out'.trips[n0]["shape"] = Get(inShapes, id)
      BY <2>1, <2>3, <3>1
    <3>4. PartsMapped("shape", inShapes, total)'
      BY <2>2, <3>2, <3>3, PartIsNumbered
    <3> QED BY <2>1, <3>1, <3>4 DEF ShapesMapped
  <2> QED BY <2>2, <2>4, <2>5 DEF TripsHold
<1> QED BY <1>3, <1>4

(* The steps that leave the routes, the services and the trips as they are. *)
LEMMA RowLeavesTrips ==
  ASSUME Orderly, NEW file \in {"calls", "points", "frequencies", "transfers", "stops", "areas"},
         ARowFurther(file), UNCHANGED <<feeds, feed, maps, blocks, shapes>>,
         \A other \in {"routes", "services", "trips"} : out'[other] = out[other]
  PROVE  SameTrips
<1>1. \A other \in {"routes", "services", "trips"} : other \in FeedFiles \ {file, "members"}
  BY DEF FeedFiles
<1>2. \A other \in {"routes", "services", "trips"} : At(other)' = At(other)
  BY <1>1 DEF ARowFurther
<1> QED BY <1>2 DEF SameTrips

LEMMA OtherFilesAreLeft ==
  ASSUME Orderly, NEW file \in {"calls", "points", "frequencies", "transfers", "areas"},
         NEW row, WriteRow(file, row)
  PROVE  \A other \in FeedFiles \ {file} : out'[other] = out[other]
BY DEF WriteRow, Orderly, Typed

LEMMA SameRowsSameTrips ==
  ASSUME SameRows, UNCHANGED <<maps, blocks, shapes>>,
         \A other \in {"routes", "services", "trips"} : out'[other] = out[other]
  PROVE  SameTrips
BY DEF SameRows, SameTrips, FeedFiles

LEMMA StepKeepsTrips ==
  ASSUME Orderly, TripsHold, [Next]_vars PROVE Orderly' /\ TripsHold'
<1>1. CASE Read
  BY <1>1, ReadHolds, ReadKeepsTrips
<1>2. CASE WriteRoute
  BY <1>2, WriteRouteHolds, WriteRouteKeepsTrips
<1>3. CASE WriteService
  BY <1>3, WriteServiceHolds, WriteServiceKeepsTrips
<1>4. CASE WriteTrip
  BY <1>4, WriteTripHolds, WriteTripKeepsTrips
<1>5. CASE ReadCall
  <2>1. UNCHANGED <<feeds, feed, maps, blocks, shapes, out>>
    BY <1>5 DEF ReadCall, memory
  <2>2. Orderly' /\ ARowFurther("calls")
    BY <1>5, ReadCallHolds
  <2>3. SameTrips
    BY <2>1, <2>2, RowLeavesTrips
  <2> QED BY <2>2, <2>3, TripsAreLeft
<1>6. CASE FlushCalls
  <2>1. UNCHANGED <<feeds, feed, gtfs, maps, blocks, shapes>>
    BY <1>6 DEF FlushCalls, memory
  <2>2. Orderly' /\ WroteAll("calls", batch)
    BY <1>6, FlushCallsHolds
  <2>3. SameTrips
    BY <2>1, <2>2 DEF SameTrips, WroteAll, FeedFiles, At, Source
  <2> QED BY <2>2, <2>3, TripsAreLeft
<1>7. CASE WritePoint
  <2>1. /\ UNCHANGED <<feeds, feed, maps, blocks, shapes>>
        /\ out' = out \/ \E row : WriteRow("points", row)
    BY <1>7 DEF WritePoint, memory
  <2>2. Orderly' /\ ARowFurther("points")
    BY <1>7, WritePointHolds
  <2>3. \A other \in FeedFiles \ {"points"} : out'[other] = out[other]
    BY <2>1, OtherFilesAreLeft
  <2>4. SameTrips
    BY <2>1, <2>2, <2>3, RowLeavesTrips DEF FeedFiles
  <2> QED BY <2>2, <2>4, TripsAreLeft
<1>8. CASE WriteFrequency
  <2>1. /\ UNCHANGED <<feeds, feed, maps, blocks, shapes>>
        /\ out' = out \/ \E row : WriteRow("frequencies", row)
    BY <1>8 DEF WriteFrequency, memory
  <2>2. Orderly' /\ ARowFurther("frequencies")
    BY <1>8, WriteFrequencyHolds
  <2>3. \A other \in FeedFiles \ {"frequencies"} : out'[other] = out[other]
    BY <2>1, OtherFilesAreLeft
  <2>4. SameTrips
    BY <2>1, <2>2, <2>3, RowLeavesTrips DEF FeedFiles
  <2> QED BY <2>2, <2>4, TripsAreLeft
<1>9. CASE BeginTransfers
  <2>1. Orderly' /\ SameRows
    BY <1>9, BeginTransfersHolds
  <2>2. SameTrips
    BY <1>9, <2>1, SameRowsSameTrips DEF BeginTransfers
  <2> QED BY <2>1, <2>2, TripsAreLeft
<1>10. CASE WriteTransfer
  <2>1. /\ UNCHANGED <<feeds, feed, maps, blocks, shapes>>
        /\ out' = out \/ \E row : WriteRow("transfers", row)
    BY <1>10 DEF WriteTransfer, memory
  <2>2. Orderly' /\ ARowFurther("transfers")
    BY <1>10, WriteTransferHolds
  <2>3. \A other \in FeedFiles \ {"transfers"} : out'[other] = out[other]
    BY <2>1, OtherFilesAreLeft
  <2>4. SameTrips
    BY <2>1, <2>2, <2>3, RowLeavesTrips DEF FeedFiles
  <2> QED BY <2>2, <2>4, TripsAreLeft
<1>11. CASE WriteStop
  <2>1. /\ UNCHANGED <<feeds, feed, maps, blocks, shapes>>
        /\ out' = out \/ \E rows : out' = [out EXCEPT !.transfers = rows]
    BY <1>11, WriteStopIs DEF Orderly, TakesARow, PassesStop, WritesNoWalk, WritesWalks
  <2>2. Orderly' /\ ARowFurther("stops")
    BY <1>11, WriteStopHolds
  <2>3. \A other \in FeedFiles \ {"transfers"} : out'[other] = out[other]
    BY <2>1 DEF Orderly, Typed
  <2>4. SameTrips
    BY <2>1, <2>2, <2>3, RowLeavesTrips DEF FeedFiles
  <2> QED BY <2>2, <2>4, TripsAreLeft
<1>12. CASE WriteArea
  <2>1. /\ UNCHANGED <<feeds, feed, maps, blocks, shapes>>
        /\ out' = out \/ \E row : WriteRow("areas", row)
    BY <1>12 DEF WriteArea, memory
  <2>2. Orderly' /\ ARowFurther("areas")
    BY <1>12, WriteAreaHolds
  <2>3. \A other \in FeedFiles \ {"areas"} : out'[other] = out[other]
    BY <2>1, OtherFilesAreLeft
  <2>4. SameTrips
    BY <2>1, <2>2, <2>3, RowLeavesTrips DEF FeedFiles
  <2> QED BY <2>2, <2>4, TripsAreLeft
<1>13. CASE HoldMembers
  <2>1. Orderly' /\ SameRows
    BY <1>13, HoldMembersHolds
  <2>2. SameTrips
    BY <1>13, <2>1, SameRowsSameTrips DEF HoldMembers
  <2> QED BY <2>1, <2>2, TripsAreLeft
<1>14. CASE NextFile
  <2>1. Orderly' /\ SameRows
    BY <1>14, NextFileHolds
  <2>2. SameTrips
    BY <1>14, <2>1, SameRowsSameTrips DEF NextFile, memory
  <2> QED BY <2>1, <2>2, TripsAreLeft
<1>15. CASE End
  <2>1. Orderly' /\ SameRows /\ \A file \in FilesWritten : out'[file] = out[file]
    BY <1>15, EndHolds
  <2>2. \A other \in {"routes", "services", "trips"} : out'[other] = out[other]
    BY <2>1 DEF FilesWritten, FeedFiles
  <2>3. UNCHANGED <<maps, blocks, shapes>>
    BY <1>15 DEF End, memory
  <2>4. SameTrips
    BY <2>1, <2>2, <2>3, SameRowsSameTrips
  <2> QED BY <2>1, <2>4, TripsAreLeft
<1>16. CASE UNCHANGED vars
  <2>1. UNCHANGED <<feeds, hand, memory, out>>
    BY <1>16 DEF vars
  <2>2. Orderly'
    BY <2>1 DEF Orderly, Typed, InHand, FilesInOrder, Source, hand, memory
  <2>3. SameTrips
    BY <2>1 DEF SameTrips, hand, memory, At, Source
  <2> QED BY <2>2, <2>3, TripsAreLeft
<1> QED
  BY <1>1, <1>2, <1>3, <1>4, <1>5, <1>6, <1>7, <1>8, <1>9, <1>10, <1>11,
     <1>12, <1>13, <1>14, <1>15, <1>16 DEF Next

(***************************************************************************)
(* The calls, the frequencies and the points of the shapes.                *)
(***************************************************************************)
(* The j-th row of a file of a feed is of its i-th trip. *)
IsOf(file, f, i, j) ==
  IF file = "points"
  THEN /\ feeds[f].trips[i].shape # None
       /\ feeds[f].points[j].shape = feeds[f].trips[i].shape
  ELSE /\ feeds[f][file][j].trip = feeds[f].trips[i].id
       /\ file = "calls" => feeds[f].calls[j].complete

(* A row written is of the n-th trip written. *)
Names(file, row, n) ==
  IF file = "points" THEN row.shape = out.trips[n].shape ELSE row.trip = n

RowsOf(file) ==
  IF file = "calls" THEN Range(out.calls) \cup Range(batch) ELSE Range(out[file])

RowsAreKept(file, rows) ==
  /\ \A row \in rows :
       \E f \in 1 .. feed : \E i, n \in Nat, j \in 1 .. Upto(f, file) :
         /\ Made(f, i, n) /\ IsOf(file, f, i, j) /\ Names(file, row, n)
         /\ feeds[f][file][j].of = row.of
  /\ \A f \in 1 .. feed : \A i, n \in Nat, j \in 1 .. Upto(f, file) :
       Made(f, i, n) /\ IsOf(file, f, i, j) =>
         \E row \in rows : Names(file, row, n) /\ row.of = feeds[f][file][j].of

FilesOfTrips == {"calls", "points", "frequencies"}

LEMMA FilesOfTripsAreFiles ==
  /\ FilesOfTrips \subseteq FilesWritten
  /\ FilesOfTrips \subseteq FeedFiles \ {"members", "transfers"}
  /\ FilesOfTrips \subseteq FeedFiles \ {"members"}
  /\ \A file \in FilesOfTrips :
       file \in FeedFiles /\ file # "transfers" /\ PlaceOf["trips"] < PlaceOf[file]
BY DEF FilesOfTrips, FilesWritten, FeedFiles, PlaceOf

SameFeeds == feeds' = feeds /\ feed' = feed

LEMMA RowsAreLeft ==
  ASSUME NEW file, NEW rows, RowsAreKept(file, rows),
         SameFeeds, out'.trips = out.trips, At(file)' = At(file)
  PROVE  RowsAreKept(file, rows)'
<1>1. feeds' = feeds /\ feed' = feed
  BY DEF SameFeeds
<1>2. \A f, i, n : Made(f, i, n)' <=> Made(f, i, n)
  BY <1>1 DEF Made
<1>3. \A f : Upto(f, file)' = Upto(f, file)
  BY <1>1 DEF Upto
<1>4. \A f, i, j : IsOf(file, f, i, j)' <=> IsOf(file, f, i, j)
  BY <1>1 DEF IsOf
<1>5. \A row, n : Names(file, row, n)' <=> Names(file, row, n)
  BY <1>1 DEF Names
<1> QED BY <1>1, <1>2, <1>3, <1>4, <1>5 DEF RowsAreKept

LEMMA RowsWhenRead ==
  ASSUME ReadsNone, NEW file \in FilesOfTrips, NEW rows, RowsAreKept(file, rows)
  PROVE  RowsAreKept(file, rows)'
<1>1. /\ feeds' = feeds /\ feed' = feed + 1 /\ out' = out /\ feed \in Nat
      /\ \A f \in 1 .. feed : f \in 1 .. feed' /\ Upto(f, file)' = Upto(f, file)
      /\ \A f, i, n : Made(f, i, n)' <=> Made(f, i, n)
  BY FilesOfTripsAreFiles DEF ReadsNone
<1>2. \A f, i, j : IsOf(file, f, i, j)' <=> IsOf(file, f, i, j)
  BY <1>1 DEF IsOf
<1>3. \A row, n : Names(file, row, n)' <=> Names(file, row, n)
  BY <1>1 DEF Names
<1>4. \A f, i, n : Made(f, i, n) => f \in 1 .. feed
  BY DEF Made
<1>5. ASSUME NEW row \in rows
      PROVE  \E f \in 1 .. feed' : \E i, n \in Nat, j \in 1 .. Upto(f, file)' :
               /\ Made(f, i, n)' /\ IsOf(file, f, i, j)' /\ Names(file, row, n)'
               /\ feeds'[f][file][j].of = row.of
  <2>1. PICK f \in 1 .. feed : \E i, n \in Nat, j \in 1 .. Upto(f, file) :
         /\ Made(f, i, n) /\ IsOf(file, f, i, j) /\ Names(file, row, n)
         /\ feeds[f][file][j].of = row.of
    BY DEF RowsAreKept
  <2>2. f \in 1 .. feed' /\ Upto(f, file)' = Upto(f, file)
    BY <1>1
  <2> QED BY <1>1, <1>2, <1>3, <2>1, <2>2
<1>6. ASSUME NEW f \in 1 .. feed', NEW i \in Nat, NEW n \in Nat,
             NEW j \in 1 .. Upto(f, file)', Made(f, i, n)', IsOf(file, f, i, j)'
      PROVE  \E row \in rows : Names(file, row, n)' /\ row.of = feeds'[f][file][j].of
  <2>1. Made(f, i, n) /\ IsOf(file, f, i, j) /\ f \in 1 .. feed
    BY <1>1, <1>2, <1>4, <1>6
  <2>2. j \in 1 .. Upto(f, file)
    BY <1>1, <2>1
  <2> QED BY <1>1, <1>3, <2>1, <2>2 DEF RowsAreKept
<1> QED BY <1>5, <1>6 DEF RowsAreKept

(* A trip is written before any row of the feed in hand that is of a trip. *)
LEMMA RowsAfterATrip ==
  ASSUME NEW i0, NEW n0, OneMore(i0, n0), NEW file, NEW rows, RowsAreKept(file, rows),
         At(file) = 0, At(file)' = 0
  PROVE  RowsAreKept(file, rows)'
<1>1. /\ feeds' = feeds /\ feed' = feed /\ feed \in 1 .. Len(feeds)
      /\ \A f, i, n : Made(f, i, n)' <=> Made(f, i, n) \/ (f = feed /\ i = i0 /\ n = n0)
      /\ \A f, i, n : Made(f, i, n) => out'.trips[n] = out.trips[n]
  BY DEF OneMore
<1>2. \A f : Upto(f, file)' = Upto(f, file)
  BY <1>1 DEF Upto
<1>3. \A f, i, j : IsOf(file, f, i, j)' <=> IsOf(file, f, i, j)
  BY <1>1 DEF IsOf
<1>4. \A f, i, n, row : Made(f, i, n) => (Names(file, row, n)' <=> Names(file, row, n))
  BY <1>1 DEF Names
<1>5. ASSUME NEW row \in rows
      PROVE  \E f \in 1 .. feed : \E i, n \in Nat, j \in 1 .. Upto(f, file) :
               /\ Made(f, i, n)' /\ IsOf(file, f, i, j) /\ Names(file, row, n)'
               /\ feeds[f][file][j].of = row.of
  <2>1. PICK f \in 1 .. feed, i \in Nat, n \in Nat, j \in Nat :
           /\ j \in 1 .. Upto(f, file)
           /\ Made(f, i, n) /\ IsOf(file, f, i, j) /\ Names(file, row, n)
           /\ feeds[f][file][j].of = row.of
    BY DEF RowsAreKept
  <2>2. Made(f, i, n)' /\ Names(file, row, n)'
    BY <1>1, <1>4, <2>1
  <2> QED BY <2>1, <2>2
<1>6. ASSUME NEW f \in 1 .. feed, NEW i \in Nat, NEW n \in Nat,
             NEW j \in 1 .. Upto(f, file), Made(f, i, n)', IsOf(file, f, i, j)
      PROVE  \E row \in rows : Names(file, row, n)' /\ row.of = feeds[f][file][j].of
  <2>1. f # feed
    <3>1. Upto(feed, file) = 0
      BY DEF Upto
    <3> QED BY <3>1
  <2>2. Made(f, i, n)
    BY <1>1, <1>6, <2>1
  <2> QED BY <1>4, <1>6, <2>2, ZenonT(20) DEF RowsAreKept
<1> QED BY <1>1, <1>2, <1>3, <1>5, <1>6 DEF RowsAreKept

(* A row is taken: it is written for the trips it is of, or there are none. *)
RowFor(file, row) ==
  LET j0 == At(file) + 1
  IN  /\ row.of = feeds[feed][file][j0].of
      /\ \E i, n \in Nat :
           Made(feed, i, n) /\ IsOf(file, feed, i, j0) /\ Names(file, row, n)
      /\ \A i, n \in Nat :
           Made(feed, i, n) /\ IsOf(file, feed, i, j0) => Names(file, row, n)

NoTripHas(file) ==
  \A i, n \in Nat : ~(Made(feed, i, n) /\ IsOf(file, feed, i, At(file) + 1))

OneTaken(file) ==
  /\ SameFeeds /\ out'.trips = out.trips /\ feed \in 1 .. feed
  /\ At(file) \in Nat /\ At(file)' = At(file) + 1

LEMMA RowsWhenTaken ==
  ASSUME NEW file, NEW rows, RowsAreKept(file, rows), OneTaken(file),
         NEW more, rows \subseteq more,
         \A row \in more : row \in rows \/ RowFor(file, row),
         NoTripHas(file) \/ \E row \in more : RowFor(file, row)
  PROVE  RowsAreKept(file, more)'
<1>1. /\ feeds' = feeds /\ feed' = feed /\ feed \in 1 .. feed /\ out'.trips = out.trips
      /\ At(file) \in Nat /\ At(file)' = At(file) + 1
  BY DEF OneTaken, SameFeeds
<1>2. \A f, i, n : Made(f, i, n)' <=> Made(f, i, n)
  BY <1>1 DEF Made
<1>3. \A f, i, j : IsOf(file, f, i, j)' <=> IsOf(file, f, i, j)
  BY <1>1 DEF IsOf
<1>4. \A row, n : Names(file, row, n)' <=> Names(file, row, n)
  BY <1>1 DEF Names
<1>5. \A f : Upto(f, file)' = IF f = feed THEN At(file) + 1 ELSE Upto(f, file)
  BY <1>1 DEF Upto
<1>6. Upto(feed, file) = At(file)
  BY DEF Upto
<1>7. ASSUME NEW row \in more
      PROVE  \E f \in 1 .. feed : \E i, n \in Nat, j \in 1 .. Upto(f, file)' :
               /\ Made(f, i, n) /\ IsOf(file, f, i, j) /\ Names(file, row, n)
               /\ feeds[f][file][j].of = row.of
  <2>1. CASE row \in rows
    <3>1. PICK f \in 1 .. feed, i \in Nat, n \in Nat, j \in Nat :
             /\ j \in 1 .. Upto(f, file)
             /\ Made(f, i, n) /\ IsOf(file, f, i, j) /\ Names(file, row, n)
             /\ feeds[f][file][j].of = row.of
      BY <2>1 DEF RowsAreKept
    <3>2. j \in 1 .. Upto(f, file)'
      BY <1>1, <1>5, <1>6, <3>1
    <3> QED BY <3>1, <3>2
  <2>2. CASE RowFor(file, row)
    <3>1. At(file) + 1 \in 1 .. Upto(feed, file)'
      BY <1>1, <1>5
    <3>2. /\ row.of = feeds[feed][file][At(file) + 1].of
          /\ \E i, n \in Nat : /\ Made(feed, i, n) /\ IsOf(file, feed, i, At(file) + 1)
                               /\ Names(file, row, n)
      BY <2>2 DEF RowFor
    <3> QED BY <1>1, <3>1, <3>2
  <2> QED BY <2>1, <2>2
<1>8. ASSUME NEW f \in 1 .. feed, NEW i \in Nat, NEW n \in Nat,
             NEW j \in 1 .. Upto(f, file)', Made(f, i, n), IsOf(file, f, i, j)
      PROVE  \E row \in more : Names(file, row, n) /\ row.of = feeds[f][file][j].of
  <2>1. CASE j \in 1 .. Upto(f, file)
    BY <1>8, <2>1 DEF RowsAreKept
  <2>2. CASE f = feed /\ j = At(file) + 1
    <3>1. ~NoTripHas(file)
      BY <1>8, <2>2 DEF NoTripHas
    <3>2. PICK row \in more : RowFor(file, row)
      BY <3>1
    <3> QED BY <1>8, <2>2, <3>2 DEF RowFor
  <2>3. j \in 1 .. Upto(f, file) \/ (f = feed /\ j = At(file) + 1)
    BY <1>1, <1>5, <1>6
  <2> QED BY <2>1, <2>2, <2>3
<1> QED BY <1>1, <1>2, <1>3, <1>4, <1>7, <1>8 DEF RowsAreKept

(* What the maps know of an id is the trip, or the shape, of the feed. *)
LEMMA TripKnown ==
  ASSUME Orderly, TripsHold, NEW id
  PROVE  /\ Get(maps.trips, id) # None =>
              \E i \in Nat : /\ Made(feed, i, Get(maps.trips, id))
                             /\ feeds[feed].trips[i].id = id
                             /\ Get(maps.trips, id) \in Nat
         /\ \A i, n : Made(feed, i, n) /\ feeds[feed].trips[i].id = id =>
              n = Get(maps.trips, id) /\ n # None
<1>1. ASSUME Get(maps.trips, id) # None
      PROVE  \E i \in Nat : /\ Made(feed, i, Get(maps.trips, id))
                            /\ feeds[feed].trips[i].id = id
                            /\ Get(maps.trips, id) \in Nat
  <2>1. id \in DOMAIN maps.trips /\ Get(maps.trips, id) = maps.trips[id]
    BY <1>1 DEF Get
  <2>2. PICK i : feeds[feed].trips[i].id = id /\ Made(feed, i, maps.trips[id])
    BY <2>1 DEF TripsHold, TripsMapped
  <2>3. i \in Nat /\ maps.trips[id] \in Nat
    BY <2>2, MadeOfOne DEF TripsHold
  <2> QED BY <2>1, <2>2, <2>3
<1>2. ASSUME NEW i, NEW n, Made(feed, i, n), feeds[feed].trips[i].id = id
      PROVE  n = Get(maps.trips, id) /\ n # None
  <2>1. i \in 1 .. Upto(feed, "trips") /\ n \in Nat
    BY <1>2, MadeOfOne DEF TripsHold
  <2>2. feed > 0 /\ n \in 1 .. Len(out.trips) /\ i \in 1 .. At("trips")
    BY <1>2, <2>1 DEF Made, Upto
  <2>3. id \in DOMAIN maps.trips /\ maps.trips[id] = n
    BY <1>2, <2>2 DEF TripsHold, TripsMapped
  <2> QED BY <2>1, <2>3, NoneAssumption DEF Get
<1> QED BY <1>1, <1>2

LEMMA ShapeKnown ==
  ASSUME Orderly, TripsHold, NEW id
  PROVE  /\ Get(maps.shapes, id) # None =>
              \E i, n \in Nat : /\ Made(feed, i, n)
                                /\ feeds[feed].trips[i].shape = id /\ id # None
                                /\ out.trips[n].shape = Get(maps.shapes, id)
         /\ \A i, n \in Nat : Made(feed, i, n) /\ feeds[feed].trips[i].shape = id /\ id # None =>
              out.trips[n].shape = Get(maps.shapes, id) /\ Get(maps.shapes, id) # None
<1>1. ASSUME Get(maps.shapes, id) # None
      PROVE  \E i, n \in Nat : /\ Made(feed, i, n)
                               /\ feeds[feed].trips[i]["shape"] = id /\ id # None
                               /\ out.trips[n]["shape"] = Get(maps.shapes, id)
  <2>1. id \in DOMAIN maps.shapes /\ Get(maps.shapes, id) = maps.shapes[id]
    BY <1>1 DEF Get
  <2> QED BY <2>1 DEF TripsHold, ShapesMapped, PartsMapped
<1>2. ASSUME NEW i \in Nat, NEW n \in Nat, Made(feed, i, n), feeds[feed].trips[i]["shape"] = id,
             id # None
      PROVE  out.trips[n]["shape"] = Get(maps.shapes, id) /\ Get(maps.shapes, id) # None
  <2>1. id \in DOMAIN maps.shapes /\ maps.shapes[id] = out.trips[n]["shape"]
    BY <1>2 DEF TripsHold, ShapesMapped, PartsMapped
  <2>2. feed \in 1 .. feed
    BY <1>2 DEF Made
  <2>3. out.trips[n]["shape"] # None
    BY <1>2, <2>2 DEF TripsHold, ShapesMapped, PartsMapped
  <2> QED BY <2>1, <2>3 DEF Get
<1> QED BY <1>1, <1>2

RowsKept == \A file \in FilesOfTrips : RowsAreKept(file, RowsOf(file))

LEMMA RowsNext ==
  ASSUME NEW file, NEW rows, RowsAreKept(file, rows)', rows = RowsOf(file)'
  PROVE  RowsAreKept(file, RowsOf(file))'
BY DEF RowsAreKept

(* Nothing is taken of the files, or of all but one of them.               *)
LEMMA KeptRowsAreLeft ==
  ASSUME RowsKept, NEW file \in FilesOfTrips, SameFeeds, out'.trips = out.trips,
         At(file)' = At(file), RowsOf(file)' = RowsOf(file)
  PROVE  RowsAreKept(file, RowsOf(file))'
<1>1. PICK rows : rows = RowsOf(file)
  OBVIOUS
<1>2. RowsAreKept(file, rows)'
  BY <1>1, RowsAreLeft DEF RowsKept
<1> QED BY <1>1, <1>2, RowsNext

LEMMA ReadCallKeepsRows == ASSUME Orderly, TripsHold, RowsKept, ReadCall PROVE RowsKept'
<1>1. Orderly' /\ ARowFurther("calls")
  BY ReadCallHolds
<1>2. /\ out' = out /\ SameFeeds /\ feed \in 1 .. feed /\ feed \in Nat
      /\ At("calls") \in Nat /\ At("calls")' = At("calls") + 1
      /\ First("calls") = feeds[feed].calls[At("calls") + 1]
      /\ \A other \in {"points", "frequencies"} : At(other)' = At(other)
  BY <1>1, SourceIs DEF ReadCall, ARowFurther, SameFeeds, FeedFiles, Orderly, Typed
<1>3. \A other \in {"points", "frequencies"} :
        other \in FilesOfTrips /\ RowsAreKept(other, RowsOf(other))'
  BY <1>2, KeptRowsAreLeft DEF FilesOfTrips, RowsOf
<1>4. RowsAreKept("calls", RowsOf("calls"))'
  <2> DEFINE call == First("calls")
  <2>1. PICK rows, more, trip : /\ rows = RowsOf("calls") /\ more = RowsOf("calls")'
                                /\ trip = Get(maps.trips, call.trip)
    OBVIOUS
  <2>2. RowsAreKept("calls", rows) /\ OneTaken("calls")
    BY <1>2, <2>1 DEF RowsKept, FilesOfTrips, OneTaken
  <2>3. CASE call.complete /\ trip # None
    <3>1. PICK row : row = [of |-> call.of, trip |-> trip, stop |-> call.stop]
      OBVIOUS
    <3>2. batch' = Append(batch, row)
      BY <2>1, <2>3, <3>1 DEF ReadCall
    <3>3. more = rows \cup {row}
      <4>1. Range(Append(batch, row)) = Range(batch) \cup {row}
        BY AppendHas DEF Orderly, Typed, Appended
      <4> QED BY <1>2, <2>1, <3>2, <4>1 DEF RowsOf
    <3>4. RowFor("calls", row)
      <4>1. /\ row.of = call.of /\ row.trip = trip /\ call.complete
            /\ call = feeds[feed].calls[At("calls") + 1]
        BY <1>2, <2>3, <3>1
      <4>2. PICK i \in Nat : Made(feed, i, trip) /\ feeds[feed].trips[i].id = call.trip /\ trip \in Nat
        BY <2>1, <2>3, TripKnown
      <4>3. \A j, n : IsOf("calls", feed, j, At("calls") + 1) <=> feeds[feed].trips[j].id = call.trip
        BY <4>1 DEF IsOf
      <4>4. \A n : Names("calls", row, n) <=> trip = n
        BY <4>1 DEF Names
      <4>5. \A j, n : Made(feed, j, n) /\ feeds[feed].trips[j].id = call.trip => n = trip
        BY <2>1, TripKnown
      <4> QED BY <4>1, <4>2, <4>3, <4>4, <4>5 DEF RowFor
    <3>5. RowsAreKept("calls", more)'
      BY <2>2, <3>3, <3>4, RowsWhenTaken
    <3> QED BY <2>1, <3>5, RowsNext
  <2>4. CASE ~(call.complete /\ trip # None)
    <3>1. more = rows
      BY <1>2, <2>1, <2>4 DEF ReadCall, RowsOf
    <3>2. NoTripHas("calls")
      BY <1>2, <2>1, <2>4, TripKnown DEF NoTripHas, IsOf
    <3>3. RowsAreKept("calls", more)'
      BY <2>2, <3>1, <3>2, RowsWhenTaken
    <3> QED BY <2>1, <3>3, RowsNext
  <2> QED BY <2>3, <2>4
<1> QED BY <1>3, <1>4 DEF RowsKept, FilesOfTrips

LEMMA WriteFrequencyKeepsRows == ASSUME Orderly, TripsHold, RowsKept, WriteFrequency PROVE RowsKept'
<1> DEFINE frequency == First("frequencies")
<1>1. Orderly' /\ ARowFurther("frequencies")
  BY WriteFrequencyHolds
<1>2. PICK rows, more, trip, row :
        /\ rows = RowsOf("frequencies") /\ more = RowsOf("frequencies")'
        /\ trip = Get(maps.trips, frequency.trip)
        /\ row = [of |-> frequency.of, trip |-> trip]
  OBVIOUS
<1>3. /\ \/ trip = None /\ out' = out
         \/ trip # None /\ WriteRow("frequencies", row)
      /\ SameFeeds /\ batch' = batch
  BY <1>2 DEF WriteFrequency, SameFeeds, Get
<1>4. /\ \A other \in FeedFiles \ {"frequencies"} : out'[other] = out[other]
      /\ trip # None => more = rows \cup {row}
      /\ trip = None => more = rows
  <2>1. CASE trip = None
    BY <1>2, <1>3, <2>1 DEF RowsOf
  <2>2. CASE trip # None
    <3>1. Wrote("frequencies", row)
      BY <1>3, <2>2, RowIsWritten, TypedIsTyped DEF Orderly, FilesWritten, FeedFiles
    <3> QED BY <1>2, <2>2, <3>1 DEF Wrote, Appended, RowsOf
  <2> QED BY <2>1, <2>2
<1>5. /\ out'.trips = out.trips /\ feed \in 1 .. feed
      /\ At("frequencies") \in Nat /\ At("frequencies")' = At("frequencies") + 1
      /\ frequency = feeds[feed].frequencies[At("frequencies") + 1]
      /\ \A other \in {"points", "calls"} : At(other)' = At(other) /\ RowsOf(other)' = RowsOf(other)
  BY <1>1, <1>3, <1>4, SourceIs DEF ARowFurther, FeedFiles, Orderly, Typed, RowsOf
<1>6. \A other \in {"points", "calls"} :
        other \in FilesOfTrips /\ RowsAreKept(other, RowsOf(other))'
  BY <1>3, <1>5, KeptRowsAreLeft DEF FilesOfTrips
<1>7. RowsAreKept("frequencies", rows) /\ OneTaken("frequencies")
  BY <1>2, <1>3, <1>5 DEF RowsKept, FilesOfTrips, OneTaken
<1>8. RowsAreKept("frequencies", more)'
  <2>1. \A i, n : IsOf("frequencies", feed, i, At("frequencies") + 1)
                    <=> feeds[feed].trips[i].id = frequency.trip
    BY <1>5 DEF IsOf
  <2>2. CASE trip # None
    <3>1. PICK i \in Nat :
            Made(feed, i, trip) /\ feeds[feed].trips[i].id = frequency.trip /\ trip \in Nat
      BY <1>2, <2>2, TripKnown
    <3>2. \A n : Names("frequencies", row, n) <=> trip = n
      BY <1>2 DEF Names
    <3>3. \A j, n : Made(feed, j, n) /\ feeds[feed].trips[j].id = frequency.trip => n = trip
      BY <1>2, TripKnown
    <3>4. RowFor("frequencies", row)
      BY <1>2, <1>5, <2>1, <3>1, <3>2, <3>3 DEF RowFor
    <3> QED BY <1>4, <1>7, <2>2, <3>4, RowsWhenTaken
  <2>3. CASE trip = None
    <3>1. NoTripHas("frequencies")
      BY <1>2, <2>1, <2>3, TripKnown DEF NoTripHas
    <3> QED BY <1>4, <1>7, <2>3, <3>1, RowsWhenTaken
  <2> QED BY <2>2, <2>3
<1>9. RowsAreKept("frequencies", RowsOf("frequencies"))'
  BY <1>2, <1>8, RowsNext
<1> QED BY <1>6, <1>9 DEF RowsKept, FilesOfTrips

LEMMA WritePointKeepsRows == ASSUME Orderly, TripsHold, RowsKept, WritePoint PROVE RowsKept'
<1> DEFINE point == First("points")
<1>1. Orderly' /\ ARowFurther("points")
  BY WritePointHolds
<1>2. PICK rows, more, shape, row :
        /\ rows = RowsOf("points") /\ more = RowsOf("points")'
        /\ shape = Get(maps.shapes, point.shape)
        /\ row = [of |-> point.of, shape |-> shape]
  OBVIOUS
<1>3. /\ \/ shape = None /\ out' = out
         \/ shape # None /\ WriteRow("points", row)
      /\ SameFeeds /\ batch' = batch
  BY <1>2 DEF WritePoint, SameFeeds, Get
<1>4. /\ \A other \in FeedFiles \ {"points"} : out'[other] = out[other]
      /\ shape # None => more = rows \cup {row}
      /\ shape = None => more = rows
  <2>1. CASE shape = None
    BY <1>2, <1>3, <2>1 DEF RowsOf
  <2>2. CASE shape # None
    <3>1. Wrote("points", row)
      BY <1>3, <2>2, RowIsWritten, TypedIsTyped DEF Orderly, FilesWritten, FeedFiles
    <3> QED BY <1>2, <2>2, <3>1 DEF Wrote, Appended, RowsOf
  <2> QED BY <2>1, <2>2
<1>5. /\ out'.trips = out.trips /\ feed \in 1 .. feed
      /\ At("points") \in Nat /\ At("points")' = At("points") + 1
      /\ point = feeds[feed].points[At("points") + 1]
      /\ \A other \in {"frequencies", "calls"} :
           At(other)' = At(other) /\ RowsOf(other)' = RowsOf(other)
  BY <1>1, <1>3, <1>4, SourceIs DEF ARowFurther, FeedFiles, Orderly, Typed, RowsOf
<1>6. \A other \in {"frequencies", "calls"} :
        other \in FilesOfTrips /\ RowsAreKept(other, RowsOf(other))'
  BY <1>3, <1>5, KeptRowsAreLeft DEF FilesOfTrips
<1>7. RowsAreKept("points", rows) /\ OneTaken("points")
  BY <1>2, <1>3, <1>5 DEF RowsKept, FilesOfTrips, OneTaken
<1>8. RowsAreKept("points", more)'
  <2>1. \A i : IsOf("points", feed, i, At("points") + 1)
                 <=> feeds[feed].trips[i].shape = point.shape /\ point.shape # None
    BY <1>5 DEF IsOf
  <2>2. CASE shape # None
    <3>1. PICK i \in Nat, n \in Nat :
            /\ Made(feed, i, n)
            /\ feeds[feed].trips[i].shape = point.shape /\ point.shape # None
            /\ out.trips[n].shape = shape
      BY <1>2, <2>2, ShapeKnown
    <3>2. \A m : Names("points", row, m) <=> shape = out.trips[m].shape
      BY <1>2 DEF Names
    <3>3. \A k, m \in Nat :
            Made(feed, k, m) /\ feeds[feed].trips[k].shape = point.shape /\ point.shape # None =>
              out.trips[m].shape = shape
      BY <1>2, ShapeKnown
    <3>4. RowFor("points", row)
      BY <1>2, <1>5, <2>1, <3>1, <3>2, <3>3 DEF RowFor
    <3> QED BY <1>4, <1>7, <2>2, <3>4, RowsWhenTaken
  <2>3. CASE shape = None
    <3>1. NoTripHas("points")
      BY <1>2, <2>1, <2>3, ShapeKnown DEF NoTripHas
    <3> QED BY <1>4, <1>7, <2>3, <3>1, RowsWhenTaken
  <2> QED BY <2>2, <2>3
<1>9. RowsAreKept("points", RowsOf("points"))'
  BY <1>2, <1>8, RowsNext
<1> QED BY <1>6, <1>9 DEF RowsKept, FilesOfTrips

(* An end of a coupling is the trip that the feed's own transfer says. *)
IsCoupling(end, row) ==
  \E f \in 1 .. feed : \E i \in Nat, j \in 1 .. Len(feeds[f].transfers) :
    /\ Made(f, i, row[end])
    /\ feeds[f].transfers[j][end] = feeds[f].trips[i].id
    /\ feeds[f].transfers[j].of = row.of

CouplingsAreKept ==
  \A row \in Range(out.transfers) : \A end \in {"fromTrip", "toTrip"} :
    row[end] # None => IsCoupling(end, row)

RowsHold == RowsKept /\ CouplingsAreKept

(* What is made stays made. *)
MadeStays ==
  /\ feeds' = feeds /\ 1 .. feed \subseteq 1 .. feed'
  /\ \A f, i, n : Made(f, i, n) => Made(f, i, n)'

LEMMA CouplingsStay ==
  ASSUME CouplingsAreKept, MadeStays,
         \A row \in Range(out'.transfers) :
           \/ row \in Range(out.transfers)
           \/ \A end \in {"fromTrip", "toTrip"} : row[end] # None => IsCoupling(end, row)
  PROVE  CouplingsAreKept'
<1>1. ASSUME NEW row, NEW end, IsCoupling(end, row) PROVE IsCoupling(end, row)'
  <2>1. PICK f \in 1 .. feed, i \in Nat, j \in Nat :
          /\ j \in 1 .. Len(feeds[f].transfers)
          /\ Made(f, i, row[end])
          /\ feeds[f].transfers[j][end] = feeds[f].trips[i].id
          /\ feeds[f].transfers[j].of = row.of
    BY <1>1 DEF IsCoupling
  <2>2. f \in 1 .. feed' /\ Made(f, i, row[end])' /\ feeds' = feeds
    BY <2>1 DEF MadeStays
  <2> QED BY <2>1, <2>2 DEF IsCoupling
<1>2. ASSUME NEW row \in Range(out'.transfers), NEW end \in {"fromTrip", "toTrip"},
             row[end] # None
      PROVE  IsCoupling(end, row)
  BY <1>2 DEF CouplingsAreKept
<1> QED BY <1>1, <1>2 DEF CouplingsAreKept

LEMMA SameTripsStay ==
  ASSUME SameFeeds, out'.trips = out.trips PROVE MadeStays
<1>1. feeds' = feeds /\ feed' = feed
  BY DEF SameFeeds
<1> QED BY <1>1 DEF MadeStays, Made

LEMMA NothingTaken ==
  ASSUME RowsHold, SameFeeds, out'.trips = out.trips, out'.transfers = out.transfers,
         \A file \in FilesOfTrips : At(file)' = At(file) /\ RowsOf(file)' = RowsOf(file)
  PROVE  RowsHold'
<1>1. RowsKept'
  <2>1. \A file \in FilesOfTrips : RowsAreKept(file, RowsOf(file))'
    BY KeptRowsAreLeft DEF RowsHold
  <2> QED BY <2>1 DEF RowsKept
<1>2. CouplingsAreKept'
  BY SameTripsStay, CouplingsStay DEF RowsHold
<1> QED BY <1>1, <1>2 DEF RowsHold

LEMMA RowLeavesRows ==
  ASSUME NEW file \in FeedFiles \ {"calls", "points", "frequencies"}, ARowFurther(file)
  PROVE  \A other \in FilesOfTrips : At(other)' = At(other)
BY FilesOfTripsAreFiles DEF ARowFurther, FilesOfTrips

LEMMA WriteTripKeepsRows == ASSUME Orderly, TripsHold, RowsHold, WriteTrip PROVE RowsHold'
<1>1. ARowFurther("trips")
  BY WriteTripHolds
<1>2. \A file \in FilesOfTrips : At(file)' = At(file)
  BY <1>1, RowLeavesRows DEF FeedFiles
<1>3. batch' = batch
  BY DEF WriteTrip
<1>4. PICK i0, trip : TripInHand(i0, trip)
  BY TripIsInHand
<1>5. SameFeeds
  BY <1>4 DEF TripInHand, SameFeeds
<1>6. PICK service, route : service = Get(maps.services, trip.service)
                            /\ route = Get(maps.routes, trip.route)
  OBVIOUS
<1>7. CASE service = None \/ route = None
  <2>1. out' = out
    BY <1>4, <1>6, <1>7 DEF WriteTrip, TripInHand
  <2>2. \A file \in FilesOfTrips : RowsOf(file)' = RowsOf(file)
    BY <1>3, <2>1 DEF RowsOf
  <2> QED BY <1>2, <1>5, <2>1, <2>2, NothingTaken
<1>8. CASE service # None /\ route # None
  <2>1. PICK n0, row : TripWritten(i0, trip, n0, row)
    BY <1>4, <1>6, <1>8, TripIsWritten
  <2>2. OneMore(i0, n0)
    BY <1>4, <2>1, WriteATrip
  <2>3. \A other \in FeedFiles \ {"trips"} : out'[other] = out[other]
    BY <1>4, <1>6, <1>8 DEF WriteTrip, TripInHand, WriteRow, Orderly, Typed
  <2>4. \A file \in FilesOfTrips : At(file) = 0
    <3>1. feed > 0 /\ phase = "trips"
      <4>1. feed \in 1 .. feed
        BY <1>4 DEF TripInHand
      <4> QED BY <4>1 DEF WriteTrip, Row
    <3> QED BY <3>1, AtIs, FilesOfTripsAreFiles
  <2>5. ASSUME NEW file \in FilesOfTrips PROVE RowsAreKept(file, RowsOf(file))'
    <3>1. PICK rows : rows = RowsOf(file)
      OBVIOUS
    <3>2. rows = RowsOf(file)'
      BY <1>3, <2>3, <3>1, FilesOfTripsAreFiles DEF RowsOf, FilesOfTrips, FeedFiles
    <3>3. RowsAreKept(file, rows) /\ At(file) = 0 /\ At(file)' = 0
      BY <1>2, <2>4, <3>1 DEF RowsHold, RowsKept
    <3>4. RowsAreKept(file, rows)'
      BY <2>2, <3>3, RowsAfterATrip
    <3> QED BY <3>2, <3>4, RowsNext
  <2>6. MadeStays
    BY <2>2 DEF OneMore, MadeStays
  <2>7. CouplingsAreKept'
    <3>1. out'.transfers = out.transfers
      BY <2>3 DEF FeedFiles
    <3> QED BY <2>6, <3>1, CouplingsStay DEF RowsHold
  <2> QED BY <2>5, <2>7 DEF RowsHold, RowsKept
<1> QED BY <1>7, <1>8

LEMMA ReadKeepsRows == ASSUME Orderly, TripsHold, RowsHold, Read PROVE RowsHold'
<1>1. ReadsNone
  BY ReadMakesNone
<1>2. /\ out' = out /\ batch' = batch /\ feeds' = feeds /\ feed' = feed + 1 /\ feed \in Nat
  BY <1>1 DEF ReadsNone, Read
<1>3. ASSUME NEW file \in FilesOfTrips PROVE RowsAreKept(file, RowsOf(file))'
  <2>1. PICK rows : rows = RowsOf(file)
    OBVIOUS
  <2>2. rows = RowsOf(file)'
    BY <1>2, <2>1 DEF RowsOf
  <2>3. RowsAreKept(file, rows)
    BY <2>1 DEF RowsHold, RowsKept
  <2>4. RowsAreKept(file, rows)'
    BY <1>1, <2>3, RowsWhenRead
  <2> QED BY <2>2, <2>4, RowsNext
<1>4. MadeStays
  <2>1. 1 .. feed \subseteq 1 .. feed'
    BY <1>2
  <2> QED BY <1>1, <1>2, <2>1 DEF ReadsNone, MadeStays
<1>5. CouplingsAreKept'
  BY <1>2, <1>4, CouplingsStay DEF RowsHold
<1> QED BY <1>3, <1>5 DEF RowsHold, RowsKept

LEMMA WriteTransferKeepsRows == ASSUME Orderly, TripsHold, RowsHold, WriteTransfer PROVE RowsHold'
<1> DEFINE transfer == First("transfers")
           coupling == transfer.fromTrip # None
<1>1. ARowFurther("transfers")
  BY WriteTransferHolds
<1>2. \A file \in FilesOfTrips : At(file)' = At(file)
  BY <1>1, RowLeavesRows DEF FeedFiles
<1>3. PICK from, to, row :
        /\ from = Get(maps.trips, transfer.fromTrip) /\ to = Get(maps.trips, transfer.toTrip)
        /\ row = [from |-> transfer.from, to |-> transfer.to,
                  fromTrip |-> IF coupling THEN from ELSE None,
                  toTrip |-> IF coupling THEN to ELSE None,
                  of |-> transfer.of]
  OBVIOUS
<1>4. /\ SameFeeds /\ batch' = batch
      /\ out' = out \/ (WriteRow("transfers", row) /\ (coupling => from # None /\ to # None))
  BY <1>3 DEF WriteTransfer, SameFeeds
<1>5. CASE out' = out
  <2>1. \A file \in FilesOfTrips : RowsOf(file)' = RowsOf(file)
    BY <1>4, <1>5 DEF RowsOf
  <2> QED BY <1>2, <1>4, <1>5, <2>1, NothingTaken
<1>6. CASE WriteRow("transfers", row) /\ (coupling => from # None /\ to # None)
  <2>1. Wrote("transfers", row)
    BY <1>6, RowIsWritten, TypedIsTyped DEF Orderly, FilesWritten, FeedFiles
  <2>2. /\ \A file \in FilesOfTrips : RowsOf(file)' = RowsOf(file)
        /\ out'.trips = out.trips /\ Range(out'.transfers) = Range(out.transfers) \cup {row}
    BY <1>4, <2>1 DEF Wrote, Appended, RowsOf, FilesOfTrips, FeedFiles
  <2>3. \A file \in FilesOfTrips : RowsAreKept(file, RowsOf(file))'
    BY <1>2, <1>4, <2>2, KeptRowsAreLeft DEF RowsHold
  <2>4. PICK j \in 1 .. Len(feeds[feed].transfers) : feeds[feed].transfers[j] = transfer
    <3>1. /\ feed \in 1 .. Len(feeds) /\ transfer = Source("transfers")[At("transfers") + 1]
          /\ At("transfers") + 1 \in 1 .. Len(Source("transfers"))
      BY <1>1 DEF ARowFurther
    <3>2. IsSeq(feeds[feed].transfers)
      BY <3>1, FilesGiven DEF Orderly, Typed, FeedFiles
    <3>3. Source("transfers") = ShortestTransfers(feeds[feed].transfers)
      BY DEF Source
    <3> QED BY <3>1, <3>2, <3>3, ShortestAreSome
  <2>5. ASSUME NEW end \in {"fromTrip", "toTrip"}, row[end] # None PROVE IsCoupling(end, row)
    <3>1. row[end] = Get(maps.trips, transfer[end]) /\ row.of = transfer.of
      BY <1>3, <2>5
    <3>2. PICK i \in Nat : Made(feed, i, row[end]) /\ feeds[feed].trips[i].id = transfer[end]
      BY <2>5, <3>1, TripKnown
    <3>3. feed \in 1 .. feed
      BY <3>2 DEF Made
    <3> QED BY <2>4, <3>1, <3>2, <3>3 DEF IsCoupling
  <2>6. CouplingsAreKept'
    <3>1. MadeStays
      BY <1>4, <2>2, SameTripsStay
    <3> QED BY <2>2, <2>5, <3>1, CouplingsStay DEF RowsHold
  <2> QED BY <2>3, <2>6 DEF RowsHold, RowsKept
<1> QED BY <1>4, <1>5, <1>6

LEMMA WriteStopKeepsRows == ASSUME Orderly, TripsHold, RowsHold, WriteStop PROVE RowsHold'
<1>1. ARowFurther("stops")
  BY WriteStopHolds
<1>2. \A file \in FilesOfTrips : At(file)' = At(file)
  BY <1>1, RowLeavesRows DEF FeedFiles
<1>3. /\ SameFeeds /\ batch' = batch
      /\ out' = out \/ WritesWalks
  BY WriteStopIs DEF Orderly, TakesARow, PassesStop, WritesNoWalk, SameFeeds
<1>4. CASE out' = out
  <2>1. \A file \in FilesOfTrips : RowsOf(file)' = RowsOf(file)
    BY <1>3, <1>4 DEF RowsOf
  <2> QED BY <1>2, <1>3, <1>4, <2>1, NothingTaken
<1>5. CASE WritesWalks
  <2>1. PICK stop, walks : stop = First("stops").stop /\ walks = SetToSeq(WalksFrom(stop))
    OBVIOUS
  <2>2. PICK rows : rows = WalksWritten(walks, stop)
    OBVIOUS
  <2>3. IsSeq(walks)
    BY <2>1, WalksAreListed DEF Orderly
  <2>4. IsSeq(rows) /\ \A row \in Range(rows) : row.fromTrip = None /\ row.toTrip = None
    <3>1. /\ IsSeq(rows) /\ Len(walks) \in Nat /\ Len(rows) = Len(walks) + Len(walks)
          /\ \A i \in 1 .. Len(walks) :
               /\ rows[i] = Walk(stop, walks[i])
               /\ rows[Len(walks) + i] = Walk(walks[i], stop)
      BY <2>2, <2>3, WalksWrittenHas
    <3>2. ASSUME NEW i \in 1 .. Len(rows) PROVE rows[i].fromTrip = None /\ rows[i].toTrip = None
      <4>1. CASE i \in 1 .. Len(walks)
        <5>1. rows[i] = Walk(stop, walks[i])
          BY <3>1, <4>1
        <5> QED BY <5>1 DEF Walk
      <4>2. CASE i \notin 1 .. Len(walks)
        <5>1. i - Len(walks) \in 1 .. Len(walks) /\ i = Len(walks) + (i - Len(walks))
          BY <3>1, <4>2
        <5>2. rows[i] = Walk(walks[i - Len(walks)], stop)
          BY <3>1, <5>1
        <5> QED BY <5>2 DEF Walk
      <4> QED BY <4>1, <4>2
    <3> QED BY <3>1, <3>2, SequenceHas
  <2>5. out' = [out EXCEPT !["transfers"] = @ \o rows]
    BY <1>5, <2>1, <2>2 DEF WritesWalks
  <2>6. WroteAll("transfers", rows)
    BY <2>4, <2>5, RowsAreWritten, TypedIsTyped DEF Orderly, FilesWritten, FeedFiles
  <2>7. /\ \A file \in FilesOfTrips : RowsOf(file)' = RowsOf(file)
        /\ out'.trips = out.trips /\ Range(out'.transfers) = Range(out.transfers) \cup Range(rows)
    BY <1>3, <2>6 DEF WroteAll, Concatenated, RowsOf, FilesOfTrips, FeedFiles
  <2>8. \A file \in FilesOfTrips : RowsAreKept(file, RowsOf(file))'
    BY <1>2, <1>3, <2>7, KeptRowsAreLeft DEF RowsHold
  <2>9. CouplingsAreKept'
    <3>1. MadeStays
      BY <1>3, <2>7, SameTripsStay
    <3> QED BY <2>4, <2>7, <3>1, CouplingsStay DEF RowsHold
  <2> QED BY <2>8, <2>9 DEF RowsHold, RowsKept
<1> QED BY <1>3, <1>4, <1>5

LEMMA RowsHoldAtFirst == ASSUME Init PROVE RowsHold
<1>1. feed = 0 /\ out.transfers = <<>> /\ batch = <<>>
  BY DEF Init
<1>2. ASSUME NEW file \in FilesOfTrips PROVE RowsAreKept(file, RowsOf(file))
  <2>1. out[file] = <<>>
    BY DEF Init, FilesOfTrips
  <2>2. RowsOf(file) = {}
    BY <1>1, <2>1 DEF RowsOf, Range, FilesOfTrips
  <2>3. 1 .. feed = {}
    BY <1>1
  <2> QED BY <2>2, <2>3 DEF RowsAreKept
<1>3. Range(out.transfers) = {}
  BY <1>1 DEF Range
<1> QED BY <1>2, <1>3 DEF RowsHold, RowsKept, CouplingsAreKept

LEMMA StepKeepsRows ==
  ASSUME Orderly, TripsHold, RowsHold, [Next]_vars PROVE RowsHold'
<1>1. CASE Read
  BY <1>1, ReadKeepsRows
<1>2. CASE WriteRoute
  <2>1. /\ SameFeeds /\ batch' = batch
        /\ out' = out \/ \E row : WriteRow("routes", row)
    BY <1>2 DEF WriteRoute, SameFeeds
  <2>2. \A other \in FeedFiles \ {"routes"} : out'[other] = out[other]
    BY <2>1 DEF WriteRow, Orderly, Typed
  <2>3. ARowFurther("routes")
    BY <1>2, WriteRouteHolds
  <2>4. \A file \in FilesOfTrips : At(file)' = At(file) /\ RowsOf(file)' = RowsOf(file)
    BY <2>1, <2>2, <2>3, RowLeavesRows DEF FeedFiles, RowsOf, FilesOfTrips
  <2> QED BY <2>1, <2>2, <2>4, NothingTaken DEF FeedFiles
<1>3. CASE WriteService
  <2>1. /\ SameFeeds /\ batch' = batch
        /\ out' = out \/ \E row : WriteRow("services", row)
    BY <1>3 DEF WriteService, SameFeeds
  <2>2. \A other \in FeedFiles \ {"services"} : out'[other] = out[other]
    BY <2>1 DEF WriteRow, Orderly, Typed
  <2>3. ARowFurther("services")
    BY <1>3, WriteServiceHolds
  <2>4. \A file \in FilesOfTrips : At(file)' = At(file) /\ RowsOf(file)' = RowsOf(file)
    BY <2>1, <2>2, <2>3, RowLeavesRows DEF FeedFiles, RowsOf, FilesOfTrips
  <2> QED BY <2>1, <2>2, <2>4, NothingTaken DEF FeedFiles
<1>4. CASE WriteTrip
  BY <1>4, WriteTripKeepsRows
<1>5. CASE ReadCall
  <2>1. RowsKept'
    BY <1>5, ReadCallKeepsRows DEF RowsHold
  <2>2. CouplingsAreKept'
    <3>1. SameFeeds /\ out' = out
      BY <1>5 DEF ReadCall, SameFeeds
    <3> QED BY <3>1, SameTripsStay, CouplingsStay DEF RowsHold
  <2> QED BY <2>1, <2>2 DEF RowsHold
<1>6. CASE FlushCalls
  <2>1. SameFeeds /\ gtfs' = gtfs /\ batch' = <<>>
    BY <1>6 DEF FlushCalls, SameFeeds
  <2>2. WroteAll("calls", batch)
    BY <1>6, FlushCallsHolds
  <2>3. \A file \in FilesOfTrips : At(file)' = At(file)
    BY <2>1 DEF SameFeeds, At, Source
  <2>4. \A other \in FeedFiles \ {"calls"} : out'[other] = out[other]
    BY <2>2 DEF WroteAll
  <2>5. Range(out'.calls) = Range(out.calls) \cup Range(batch)
    <3>1. Concatenated(out'["calls"], out["calls"], batch)
      BY <2>2 DEF WroteAll
    <3> QED BY <3>1 DEF Concatenated
  <2>a. Range(batch') = {}
    BY <2>1 DEF Range
  <2>6. \A file \in FilesOfTrips : RowsOf(file)' = RowsOf(file)
    BY <2>4, <2>5, <2>a DEF RowsOf, FilesOfTrips, FeedFiles
  <2> QED BY <2>1, <2>3, <2>4, <2>6, NothingTaken DEF FeedFiles
<1>7. CASE WritePoint
  <2>1. RowsKept'
    BY <1>7, WritePointKeepsRows DEF RowsHold
  <2>2. CouplingsAreKept'
    <3>1. SameFeeds /\ (out' = out \/ \E row : WriteRow("points", row))
      BY <1>7 DEF WritePoint, SameFeeds
    <3>2. out'.trips = out.trips /\ out'.transfers = out.transfers
      BY <3>1, OtherFilesAreLeft DEF FeedFiles
    <3> QED BY <3>1, <3>2, SameTripsStay, CouplingsStay DEF RowsHold
  <2> QED BY <2>1, <2>2 DEF RowsHold
<1>8. CASE WriteFrequency
  <2>1. RowsKept'
    BY <1>8, WriteFrequencyKeepsRows DEF RowsHold
  <2>2. CouplingsAreKept'
    <3>1. SameFeeds /\ (out' = out \/ \E row : WriteRow("frequencies", row))
      BY <1>8 DEF WriteFrequency, SameFeeds
    <3>2. out'.trips = out.trips /\ out'.transfers = out.transfers
      BY <3>1, OtherFilesAreLeft DEF FeedFiles
    <3> QED BY <3>1, <3>2, SameTripsStay, CouplingsStay DEF RowsHold
  <2> QED BY <2>1, <2>2 DEF RowsHold
<1>9. CASE WriteTransfer
  BY <1>9, WriteTransferKeepsRows
<1>10. CASE WriteStop
  BY <1>10, WriteStopKeepsRows
<1>11. CASE WriteArea
  <2>1. /\ SameFeeds /\ batch' = batch
        /\ out' = out \/ \E row : WriteRow("areas", row)
    BY <1>11 DEF WriteArea, SameFeeds
  <2>2. \A other \in FeedFiles \ {"areas"} : out'[other] = out[other]
    BY <2>1, OtherFilesAreLeft
  <2>3. ARowFurther("areas")
    BY <1>11, WriteAreaHolds
  <2>4. \A file \in FilesOfTrips : At(file)' = At(file) /\ RowsOf(file)' = RowsOf(file)
    BY <2>1, <2>2, <2>3, RowLeavesRows DEF FeedFiles, RowsOf, FilesOfTrips
  <2> QED BY <2>1, <2>2, <2>4, NothingTaken DEF FeedFiles
<1>12. ASSUME SameRows, batch' = batch, \A file \in FilesWritten : out'[file] = out[file]
       PROVE  RowsHold'
  <2>1. SameFeeds /\ \A file \in FilesOfTrips : At(file)' = At(file)
    BY <1>12, FilesOfTripsAreFiles DEF SameRows, SameFeeds
  <2>2. \A file \in FilesOfTrips : RowsOf(file)' = RowsOf(file)
    BY <1>12, FilesOfTripsAreFiles DEF RowsOf, FilesOfTrips, FilesWritten, FeedFiles
  <2>3. out'.trips = out.trips /\ out'.transfers = out.transfers
    BY <1>12 DEF FilesWritten, FeedFiles
  <2> QED BY <2>1, <2>2, <2>3, NothingTaken
<1>13. CASE BeginTransfers
  BY <1>12, <1>13, BeginTransfersHolds DEF BeginTransfers
<1>14. CASE HoldMembers
  BY <1>12, <1>14, HoldMembersHolds DEF HoldMembers
<1>15. CASE NextFile
  BY <1>12, <1>15, NextFileHolds DEF NextFile
<1>16. CASE End
  BY <1>12, <1>16, EndHolds DEF End
<1>17. CASE UNCHANGED vars
  <2>1. SameRows /\ batch' = batch /\ out' = out
    BY <1>17 DEF vars, hand, SameRows, At, Source
  <2> QED BY <1>12, <2>1
<1> QED
  BY <1>1, <1>2, <1>3, <1>4, <1>5, <1>6, <1>7, <1>8, <1>9, <1>10, <1>11,
     <1>13, <1>14, <1>15, <1>16, <1>17 DEF Next

TripsAndRows == Orderly /\ TripsHold /\ RowsHold

(* A finite set of exceptions has a last date. *)
Bounded(dates) == \E last \in Nat : \A d \in dates : d.date <= last

LEMMA FiniteIsBounded ==
  ASSUME NEW dates \in SUBSET ADate, IsFiniteSet(dates) PROVE Bounded(dates)
<1> DEFINE Counts(k) == \E T \in SUBSET ADate :
                          IsFiniteSet(T) /\ ~Bounded(T) /\ Cardinality(T) = k
           counts == {k \in Nat : Counts(k)}
<1>1. SUFFICES ASSUME counts # {} PROVE FALSE
  <2>1. Cardinality(dates) \in Nat
    BY FS_CardinalityType
  <2> QED BY <2>1
<1>2. PICK k \in counts : \A j \in counts : k <= j
  BY <1>1, LeastExists
<1>3. PICK T \in SUBSET ADate : IsFiniteSet(T) /\ ~Bounded(T) /\ Cardinality(T) = k
  BY <1>2
<1>4. PICK x : x \in T
  BY <1>3 DEF Bounded
<1>5. IsFiniteSet(T \ {x}) /\ Cardinality(T \ {x}) = k - 1
  BY <1>3, <1>4, FS_RemoveElement
<1>6. k - 1 \in Nat
  BY <1>5, FS_CardinalityType
<1>7. k - 1 \notin counts
  BY <1>2, <1>6
<1>8. PICK last \in Nat : \A d \in T \ {x} : d.date <= last
  BY <1>3, <1>5, <1>6, <1>7 DEF Bounded
<1>9. x.date \in Nat /\ \A d \in T : d.date \in Nat
  BY <1>3, <1>4 DEF ADate
<1>10. PICK most \in Nat : x.date <= most /\ last <= most
  <2>1. x.date <= last \/ last <= x.date
    BY <1>8, <1>9
  <2> QED BY <1>8, <1>9, <2>1
<1>11. \A d \in T : d.date <= most
  <2> TAKE d \in T
  <2>1. CASE d = x
    BY <1>10, <2>1
  <2>2. CASE d # x
    BY <1>8, <1>9, <1>10, <2>2
  <2> QED BY <2>1, <2>2
<1> QED BY <1>3, <1>11 DEF Bounded

LEMMA GivenServices == ASSUME NEW s, IsAService(s) PROVE AService(s)
<1>1. Bounded(s.dates)
  BY FiniteIsBounded DEF IsAService, ADate
<1> QED BY <1>1 DEF IsAService, AService, ADate, Bounded

LEMMA DaysAreDates ==
  ASSUME NEW s, AService(s)
  PROVE  /\ DaysOfService(s) \subseteq Nat
         /\ DaysOf(Written(s).calendar, Written(s).dates) \subseteq Nat
<1>1. Added(s.dates) \subseteq Nat
  BY DEF AService, Added, ADate
<1>2. s.calendar # NoCalendar => s.calendar.start .. s.calendar.end \subseteq Nat
  BY DEF AService
<1>3. DaysOfService(s) \subseteq Nat
  BY <1>1, <1>2 DEF DaysOfService, DaysOf
<1> DEFINE kept == KeptDates(s.dates)
<1>4. Added(kept) \subseteq Nat /\ kept \in SUBSET ADate
  BY <1>1 DEF KeptDates, Added, AService
<1>5. CASE KeepsCalendar(s.calendar)
  <2>1. Written(s) = [calendar |-> s.calendar, dates |-> kept]
    BY <1>5 DEF Written
  <2>2. s.calendar.start .. s.calendar.end \subseteq Nat
    BY <1>2, <1>5 DEF KeepsCalendar
  <2> HIDE DEF kept
  <2>3. DaysOf(s.calendar, kept) \subseteq Nat
    BY <1>4, <2>2 DEF DaysOf
  <2> QED BY <1>3, <2>1, <2>3
<1>6. CASE ~KeepsCalendar(s.calendar)
  <2>1. Written(s) = Create(kept)
    BY <1>6 DEF Written
  <2>2. PICK last \in Nat : \A d \in s.dates : d.date <= last
    BY DEF AService
  <2>3. \A d \in kept : d.date <= last
    BY <2>2 DEF KeptDates
  <2> HIDE DEF kept
  <2>4. DaysOf(Create(kept).calendar, Create(kept).dates) = Added(kept)
    BY <1>4, <2>2, <2>3, CreateRunsTheDates
  <2> QED BY <1>3, <1>4, <2>1, <2>4
<1> QED BY <1>5, <1>6

LEMMA DaysFromTheFilterOn ==
  ASSUME NEW s, AService(s)
  PROVE  FromTheFilterOn(DaysOf(Written(s).calendar, Written(s).dates))
           = FromTheFilterOn(DaysOfService(s))
BY DaysAreDates, WrittenKeepsTheDays DEF FromTheFilterOn

(* The rows of the feeds when all of them are merged. *)
LEMMA AtTheEnd ==
  ASSUME Orderly, Ended
  PROVE  /\ feeds \in Inputs /\ feed = Len(feeds) /\ DOMAIN feeds = 1 .. feed
         /\ batch = <<>>
         /\ \A f \in DOMAIN feeds :
              /\ IsAFeed(feeds[f])
              /\ \A file \in FeedFiles \ {"members", "transfers"} :
                   /\ Upto(f, file) = Len(feeds[f][file])
                   /\ DOMAIN feeds[f][file] = 1 .. Len(feeds[f][file])
         /\ \A file \in FilesWritten :
              Len(out[file]) \in Nat /\ DOMAIN out[file] = 1 .. Len(out[file])
<1>1. feeds \in Inputs /\ feed = Len(feeds) /\ Len(feeds) \in Nat /\ phase = "ended"
  BY FeedsGiven DEF Orderly, Typed, Ended
<1>2. DOMAIN feeds = 1 .. feed
  BY <1>1, FeedsGiven
<1>3. batch = <<>>
  BY <1>1 DEF Orderly, Typed
<1>4. ASSUME NEW f \in DOMAIN feeds, NEW file \in FeedFiles \ {"members", "transfers"}
      PROVE  /\ Upto(f, file) = Len(feeds[f][file])
             /\ DOMAIN feeds[f][file] = 1 .. Len(feeds[f][file])
  <2>1. feed > 0 /\ f \in 1 .. feed
    BY <1>1, <1>2
  <2>2. PlaceOf[file] < PlaceOf[phase]
    BY <1>1 DEF PlaceOf, FeedFiles
  <2>3. At(file) = Len(Source(file))
    BY <2>1, <2>2, AtIs
  <2>4. Source(file) = feeds[feed][file]
    BY SourceIs
  <2>5. DOMAIN feeds[f][file] = 1 .. Len(feeds[f][file])
    BY <2>1, UptoIs
  <2> QED BY <2>3, <2>4, <2>5 DEF Upto
<1>5. \A f \in DOMAIN feeds : IsAFeed(feeds[f])
  BY <1>1, FeedsGiven
<1>6. \A file \in FilesWritten :
        Len(out[file]) \in Nat /\ DOMAIN out[file] = 1 .. Len(out[file])
  BY SequenceHas DEF Orderly, Typed
<1> QED BY <1>1, <1>2, <1>3, <1>4, <1>5, <1>6

(* A survivor is a trip that was made of one of its feed. *)
LEMMA SurvivorsAreMade ==
  ASSUME Orderly, Ended, NEW f \in DOMAIN feeds, NEW s \in Survivors(f)
  PROVE  /\ f \in 1 .. feed
         /\ \E i \in 1 .. Len(feeds[f].trips) : feeds[f].trips[i] = s[1] /\ Made(f, i, s[2])
<1>1. /\ s[1] \in Range(feeds[f].trips) /\ s[2] \in DOMAIN out.trips
      /\ out.trips[s[2]].of = s[1].of
  BY DEF Survivors
<1>2. /\ "trips" \in FeedFiles \ {"members", "transfers"} /\ "trips" \in FilesWritten
  BY DEF FeedFiles, FilesWritten
<1>3. f \in 1 .. feed /\ DOMAIN out.trips = 1 .. Len(out.trips)
      /\ DOMAIN feeds[f].trips = 1 .. Len(feeds[f].trips)
  BY <1>2, AtTheEnd
<1>4. PICK i \in 1 .. Len(feeds[f].trips) : feeds[f].trips[i] = s[1]
  BY <1>1, <1>3 DEF Range
<1>5. Made(f, i, s[2])
  BY <1>1, <1>3, <1>4 DEF Made
<1> QED BY <1>3, <1>4, <1>5

(* The rows of the feeds with the same id are the same. *)
LEMMA OneService ==
  ASSUME NEW given, IsAFeed(given), NEW s \in Range(given.services),
         NEW j \in DOMAIN given.services, given.services[j].id = s.id
  PROVE  given.services[j] = s /\ IsAService(s)
<1>1. PICK i \in DOMAIN given.services : given.services[i] = s
  BY DEF Range
<1>2. given.services[i].id = given.services[j].id
  BY <1>1
<1>3. i = j
  BY <1>2 DEF IsAFeed
<1> QED BY <1>1, <1>3 DEF IsAFeed

LEMMA DaysAreKeptInTheEnd == ASSUME TripsAndRows PROVE DaysAreKept
<1> SUFFICES ASSUME Ended,
                    NEW f \in DOMAIN feeds, NEW t \in Range(feeds[f].trips),
                    NEW service \in Range(feeds[f].services), service.id = t.service
             PROVE  /\ \A s \in Survivors(f) : s[1] = t =>
                         FromTheFilterOn(DaysOf(
                           out.services[out.trips[s[2]].service].calendar,
                           out.services[out.trips[s[2]].service].dates))
                         = FromTheFilterOn(DaysOfService(service))
                    /\ \/ FromTheFilterOn(DaysOfService(service)) = {}
                       \/ \E r \in Range(feeds[f].routes) : r.id = t.route /\ r.removed
                       \/ \E s \in Survivors(f) : s[1] = t
  BY DEF DaysAreKept
<1>1. Orderly /\ TripsHold
  BY DEF TripsAndRows
<1>2. /\ "trips" \in FeedFiles \ {"members", "transfers"} /\ "trips" \in FilesWritten
      /\ "services" \in FeedFiles \ {"members", "transfers"}
      /\ "routes" \in FeedFiles \ {"members", "transfers"}
  BY DEF FeedFiles, FilesWritten
<1>3. /\ f \in 1 .. feed /\ IsAFeed(feeds[f])
      /\ DOMAIN feeds[f].trips = 1 .. Len(feeds[f].trips)
      /\ Upto(f, "trips") = Len(feeds[f].trips)
      /\ DOMAIN feeds[f].services = 1 .. Len(feeds[f].services)
      /\ DOMAIN feeds[f].routes = 1 .. Len(feeds[f].routes)
      /\ DOMAIN out.trips = 1 .. Len(out.trips)
  BY <1>1, <1>2, AtTheEnd
<1>4. ASSUME NEW j \in 1 .. Len(feeds[f].services), feeds[f].services[j].id = t.service
      PROVE  feeds[f].services[j] = service
  BY <1>3, <1>4, OneService
<1>5. AService(service)
  BY <1>3, GivenServices DEF IsAFeed
<1>6. ASSUME NEW s \in Survivors(f), s[1] = t
      PROVE  out.services[out.trips[s[2]].service] = Written(service)
  <2>1. PICK i \in 1 .. Len(feeds[f].trips) : feeds[f].trips[i] = t /\ Made(f, i, s[2])
    BY <1>1, <1>6, SurvivorsAreMade
  <2>2. i \in Nat /\ s[2] \in Nat
    BY <2>1 DEF Made
  <2>3. HasItsRoute(f, i, s[2])
    BY <1>1, <1>3, <2>1, <2>2 DEF TripsHold, OnItsRoute
  <2>4. PICK j \in 1 .. Len(feeds[f].services) :
          /\ feeds[f].services[j].id = t.service
          /\ Written(feeds[f].services[j]) = out.services[out.trips[s[2]].service]
    BY <2>1, <2>3 DEF HasItsRoute
  <2> QED BY <1>4, <2>4
<1>7. PICK i \in 1 .. Len(feeds[f].trips) : feeds[f].trips[i] = t
  BY <1>3 DEF Range
<1>8. (\E n \in 1 .. Len(out.trips) : Made(f, i, n)) \/ IsMissing(f, i)
  <2>1. i \in 1 .. Upto(f, "trips")
    BY <1>3, <1>7
  <2> QED BY <1>1, <1>3, <2>1 DEF TripsHold, NoneIsMissing
<1>9. ASSUME NEW n \in 1 .. Len(out.trips), Made(f, i, n)
      PROVE  \E s \in Survivors(f) : s[1] = t
  <2>1. <<t, n>> \in Survivors(f)
    BY <1>3, <1>7, <1>9 DEF Survivors, Made
  <2> QED BY <2>1
<1>10. ASSUME IsMissing(f, i)
       PROVE  \/ FromTheFilterOn(DaysOfService(service)) = {}
              \/ \E r \in Range(feeds[f].routes) : r.id = t.route /\ r.removed
  <2>1. CASE \E r \in 1 .. Len(feeds[f].routes) :
               feeds[f].routes[r].id = t.route /\ feeds[f].routes[r].removed
    BY <1>3, <2>1 DEF Range
  <2>2. CASE \A j \in 1 .. Len(feeds[f].services) :
               feeds[f].services[j].id = t.service =>
                 ~RunsAtAll(Written(feeds[f].services[j]))
    <3>1. PICK j \in 1 .. Len(feeds[f].services) : feeds[f].services[j] = service
      BY <1>3 DEF Range
    <3>2. ~RunsAtAll(Written(service))
      BY <2>2, <3>1
    <3>3. DaysOf(Written(service).calendar, Written(service).dates) = {}
      BY <3>2, LeftOutRunsNever
    <3>4. FromTheFilterOn({}) = {}
      BY DEF FromTheFilterOn
    <3> QED BY <1>5, <3>3, <3>4, DaysFromTheFilterOn
  <2> QED BY <1>7, <1>10, <2>1, <2>2 DEF IsMissing
<1> QED BY <1>5, <1>6, <1>8, <1>9, <1>10, DaysFromTheFilterOn

(* The rows written of the n-th trip, or of its shape, and the rows of a   *)
(* feed that are of its i-th.                                              *)
WrittenOf(file, n) == {r.of : r \in {x \in Range(out[file]) : Names(file, x, n)}}

GivenOf(file, f, i) ==
  {r.of : r \in {feeds[f][file][j] :
                   j \in {k \in 1 .. Len(feeds[f][file]) : IsOf(file, f, i, k)}}}

LEMMA RowsAreItsOwn ==
  ASSUME TripsAndRows, Ended, NEW file \in FilesOfTrips, NEW f, NEW i, NEW n, Made(f, i, n),
         file = "points" => feeds[f].trips[i].shape # None
  PROVE  WrittenOf(file, n) = GivenOf(file, f, i)
<1> DEFINE written == {x \in Range(out[file]) : Names(file, x, n)}
           given == {feeds[f][file][j] :
                       j \in {k \in 1 .. Len(feeds[f][file]) : IsOf(file, f, i, k)}}
<1>1. Orderly /\ TripsHold /\ RowsKept
  BY DEF TripsAndRows, RowsHold
<1>2. f \in 1 .. feed /\ i \in Nat /\ n \in Nat
  BY DEF Made
<1>3. \A g \in 1 .. feed : Upto(g, file) = Len(feeds[g][file])
  BY <1>1, AtTheEnd, FilesOfTripsAreFiles
<1>4. RowsOf(file) = Range(out[file])
  <2>1. Range(batch) = {}
    BY <1>1, AtTheEnd DEF Range
  <2> QED BY <2>1 DEF RowsOf
<1>5. RowsAreKept(file, Range(out[file]))
  BY <1>1, <1>4 DEF RowsKept
<1>6. ASSUME NEW row \in written PROVE \E r \in given : r.of = row.of
  <2>1. PICK g \in 1 .. feed, j \in Nat, m \in Nat, k \in Nat :
          /\ k \in 1 .. Upto(g, file)
          /\ Made(g, j, m) /\ IsOf(file, g, j, k) /\ Names(file, row, m)
          /\ feeds[g][file][k].of = row.of
    <3>1. PICK g \in 1 .. feed : \E j, m \in Nat, k \in 1 .. Upto(g, file) :
            /\ Made(g, j, m) /\ IsOf(file, g, j, k) /\ Names(file, row, m)
            /\ feeds[g][file][k].of = row.of
      BY <1>5 DEF RowsAreKept
    <3> QED BY <3>1
  <2>2. CASE file # "points"
    <3>1. n = m
      BY <2>1, <2>2 DEF Names
    <3>2. f = g /\ i = j
      BY <1>1, <2>1, <3>1, MadeOfOne DEF TripsHold
    <3>3. k \in 1 .. Len(feeds[f][file])
      BY <1>3, <2>1, <3>2
    <3> QED BY <2>1, <3>2, <3>3
  <2>3. CASE file = "points"
    <3>1. /\ out.trips[n].shape = out.trips[m].shape
          /\ feeds[g].trips[j].shape # None
          /\ feeds[g].points[k].shape = feeds[g].trips[j].shape
      BY <2>1, <2>3 DEF Names, IsOf
    <3>2. PartsMapped("shape", maps.shapes, shapes)
      BY <1>1 DEF TripsHold, ShapesMapped
    <3>3. out.trips[m]["shape"] # None
      BY <2>1, <3>1, <3>2 DEF PartsMapped
    <3>4. f = g /\ feeds[f].trips[i]["shape"] = feeds[g].trips[j]["shape"]
      BY <1>2, <2>1, <3>1, <3>2, <3>3 DEF PartsMapped
    <3>5. k \in 1 .. Len(feeds[f][file])
      BY <1>3, <2>1, <3>4
    <3>6. IsOf(file, f, i, k)
      BY <2>3, <3>1, <3>4 DEF IsOf
    <3> QED BY <2>1, <3>4, <3>5, <3>6
  <2> QED BY <2>2, <2>3
<1>7. ASSUME NEW r \in given PROVE \E row \in written : row.of = r.of
  <2>1. PICK k \in 1 .. Len(feeds[f][file]) : IsOf(file, f, i, k) /\ r = feeds[f][file][k]
    OBVIOUS
  <2>2. k \in 1 .. Upto(f, file)
    BY <1>2, <1>3, <2>1
  <2>3. PICK row \in Range(out[file]) : Names(file, row, n) /\ row.of = feeds[f][file][k].of
    BY <1>2, <1>5, <2>1, <2>2 DEF RowsAreKept
  <2> QED BY <2>1, <2>3
<1> HIDE DEF written, given
<1>8. {r.of : r \in written} = {r.of : r \in given}
  BY <1>6, <1>7
<1> QED BY <1>8 DEF written, given, WrittenOf, GivenOf

LEMMA CouplingsAreItsOwn ==
  ASSUME TripsAndRows, Ended, NEW f, NEW i, NEW n, Made(f, i, n),
         NEW end \in {"fromTrip", "toTrip"},
         NEW row \in Range(out.transfers), row[end] = n
  PROVE  \E c \in Range(feeds[f].transfers) :
           c[end] = feeds[f].trips[i].id /\ c.of = row.of
<1>1. Orderly /\ TripsHold /\ CouplingsAreKept
  BY DEF TripsAndRows, RowsHold
<1>2. f \in 1 .. feed /\ i \in Nat /\ n \in Nat
  BY DEF Made
<1>3. IsCoupling(end, row)
  BY <1>1, <1>2, NoneAssumption DEF CouplingsAreKept
<1>4. PICK g \in 1 .. feed, k \in Nat, j \in Nat :
        /\ j \in 1 .. Len(feeds[g].transfers)
        /\ Made(g, k, row[end])
        /\ feeds[g].transfers[j][end] = feeds[g].trips[k].id
        /\ feeds[g].transfers[j].of = row.of
  BY <1>3 DEF IsCoupling
<1>5. f = g /\ i = k
  BY <1>1, <1>4, MadeOfOne DEF TripsHold
<1>6. DOMAIN feeds[f].transfers = 1 .. Len(feeds[f].transfers)
  <2>1. feeds \in Inputs /\ f \in 1 .. Len(feeds) /\ "transfers" \in FeedFiles
    BY <1>1, <1>2, AtTheEnd DEF FeedFiles
  <2> QED BY <2>1, FilesGiven
<1> QED BY <1>4, <1>5, <1>6 DEF Range

LEMMA PartsAreItsOwn ==
  ASSUME TripsAndRows, NEW f, NEW i, NEW n, Made(f, i, n), NEW g, NEW j, NEW m, Made(g, j, m),
         NEW part \in {"block", "shape"}
  PROVE  out.trips[n][part] = out.trips[m][part] <=>
           \/ feeds[f].trips[i][part] = None /\ feeds[g].trips[j][part] = None
           \/ /\ f = g /\ feeds[f].trips[i][part] # None
              /\ feeds[f].trips[i][part] = feeds[g].trips[j][part]
<1>1. /\ f \in 1 .. feed /\ i \in Nat /\ n \in Nat
      /\ g \in 1 .. feed /\ j \in Nat /\ m \in Nat
  BY DEF Made
<1>2. PICK map, count : PartsMapped(part, map, count)
  <2>1. PartsMapped("block", maps.blocks, blocks) /\ PartsMapped("shape", maps.shapes, shapes)
    BY DEF TripsAndRows, TripsHold, BlocksMapped, ShapesMapped
  <2>2. CASE part = "block"
    BY <2>1, <2>2
  <2>3. CASE part = "shape"
    BY <2>1, <2>3
  <2> QED BY <2>2, <2>3
<1>3. /\ out.trips[n][part] = None <=> feeds[f].trips[i][part] = None
      /\ out.trips[m][part] = None <=> feeds[g].trips[j][part] = None
  BY <1>1, <1>2 DEF PartsMapped
<1>4. out.trips[n][part] # None =>
        (out.trips[n][part] = out.trips[m][part] <=>
           f = g /\ feeds[f].trips[i][part] = feeds[g].trips[j][part])
  BY <1>1, <1>2 DEF PartsMapped
<1> QED BY <1>3, <1>4

(* What TripsAreTheirOwn says of a survivor. *)
IsItsOwn(f, t, n) ==
  /\ out.routes[out.trips[n].route] \in Of(feeds[f].routes, LAMBDA r : r.id = t.route)
  /\ Of(out.calls, LAMBDA c : c.trip = n) =
       Of(feeds[f].calls, LAMBDA c : c.trip = t.id /\ c.complete)
  /\ Of(out.frequencies, LAMBDA c : c.trip = n) =
       Of(feeds[f].frequencies, LAMBDA c : c.trip = t.id)
  /\ t.shape # None =>
       Of(out.points, LAMBDA p : p.shape = out.trips[n].shape) =
       Of(feeds[f].points, LAMBDA p : p.shape = t.shape)
  /\ Of(out.transfers, LAMBDA c : c.fromTrip = n) \subseteq
       Of(feeds[f].transfers, LAMBDA c : c.fromTrip = t.id)
  /\ Of(out.transfers, LAMBDA c : c.toTrip = n) \subseteq
       Of(feeds[f].transfers, LAMBDA c : c.toTrip = t.id)

LEMMA SurvivorsAreTheirOwn ==
  ASSUME TripsAndRows, Ended, NEW f, NEW i, NEW n, Made(f, i, n)
  PROVE  IsItsOwn(f, feeds[f].trips[i], n)
<1> DEFINE t == feeds[f].trips[i]
<1>1. f \in 1 .. feed /\ i \in Nat /\ n \in Nat /\ Orderly /\ TripsHold
  BY DEF Made, TripsAndRows
<1>2. f \in DOMAIN feeds
  BY <1>1, AtTheEnd
<1>3. \A file \in FeedFiles \ {"members", "transfers"} :
        DOMAIN feeds[f][file] = 1 .. Len(feeds[f][file])
  BY <1>1, <1>2, AtTheEnd
<1>4. out.routes[out.trips[n].route] \in Of(feeds[f].routes, LAMBDA r : r.id = t.route)
  <2>1. HasItsRoute(f, i, n)
    BY <1>1 DEF TripsHold, OnItsRoute
  <2>2. PICK r \in 1 .. Len(feeds[f].routes) :
          /\ feeds[f].routes[r].id = t.route
          /\ feeds[f].routes[r].of = out.routes[out.trips[n].route]
    BY <2>1 DEF HasItsRoute
  <2>3. DOMAIN feeds[f].routes = 1 .. Len(feeds[f].routes)
    BY <1>3 DEF FeedFiles
  <2> QED BY <2>2, <2>3 DEF Of, Range
<1>5. Of(out.calls, LAMBDA c : c.trip = n) =
        Of(feeds[f].calls, LAMBDA c : c.trip = t.id /\ c.complete)
  <2>1. WrittenOf("calls", n) = GivenOf("calls", f, i)
    BY RowsAreItsOwn DEF FilesOfTrips
  <2>2. {x \in Range(out["calls"]) : Names("calls", x, n)} =
        {x \in Range(out.calls) : x.trip = n}
    BY DEF Names
  <2>3. DOMAIN feeds[f].calls = 1 .. Len(feeds[f].calls)
    BY <1>3 DEF FeedFiles
  <2>4. {feeds[f]["calls"][j] :
           j \in {k \in 1 .. Len(feeds[f]["calls"]) : IsOf("calls", f, i, k)}} =
        {c \in Range(feeds[f].calls) : c.trip = t.id /\ c.complete}
    BY <2>3 DEF IsOf, Range
  <2> QED BY <2>1, <2>2, <2>4 DEF Of, WrittenOf, GivenOf
<1>6. Of(out.frequencies, LAMBDA c : c.trip = n) =
        Of(feeds[f].frequencies, LAMBDA c : c.trip = t.id)
  <2>1. WrittenOf("frequencies", n) = GivenOf("frequencies", f, i)
    BY RowsAreItsOwn DEF FilesOfTrips
  <2>2. {x \in Range(out["frequencies"]) : Names("frequencies", x, n)} =
        {x \in Range(out.frequencies) : x.trip = n}
    BY DEF Names
  <2>3. DOMAIN feeds[f].frequencies = 1 .. Len(feeds[f].frequencies)
    BY <1>3 DEF FeedFiles
  <2>4. {feeds[f]["frequencies"][j] :
           j \in {k \in 1 .. Len(feeds[f]["frequencies"]) : IsOf("frequencies", f, i, k)}} =
        {c \in Range(feeds[f].frequencies) : c.trip = t.id}
    BY <2>3 DEF IsOf, Range
  <2> QED BY <2>1, <2>2, <2>4 DEF Of, WrittenOf, GivenOf
<1>7. ASSUME t.shape # None
      PROVE  Of(out.points, LAMBDA p : p.shape = out.trips[n].shape) =
             Of(feeds[f].points, LAMBDA p : p.shape = t.shape)
  <2>1. WrittenOf("points", n) = GivenOf("points", f, i)
    BY <1>7, RowsAreItsOwn DEF FilesOfTrips
  <2>2. {x \in Range(out["points"]) : Names("points", x, n)} =
        {x \in Range(out.points) : x.shape = out.trips[n].shape}
    BY DEF Names
  <2>3. DOMAIN feeds[f].points = 1 .. Len(feeds[f].points)
    BY <1>3 DEF FeedFiles
  <2>4. {feeds[f]["points"][j] :
           j \in {k \in 1 .. Len(feeds[f]["points"]) : IsOf("points", f, i, k)}} =
        {p \in Range(feeds[f].points) : p.shape = t.shape}
    BY <1>7, <2>3 DEF IsOf, Range
  <2> QED BY <2>1, <2>2, <2>4 DEF Of, WrittenOf, GivenOf
<1>8. Of(out.transfers, LAMBDA c : c.fromTrip = n) \subseteq
        Of(feeds[f].transfers, LAMBDA c : c.fromTrip = t.id)
  <2>1. \A row \in Range(out.transfers) : row.fromTrip = n =>
          \E c \in Range(feeds[f].transfers) : c.fromTrip = t.id /\ c.of = row.of
    BY CouplingsAreItsOwn
  <2> QED BY <2>1 DEF Of
<1>9. Of(out.transfers, LAMBDA c : c.toTrip = n) \subseteq
        Of(feeds[f].transfers, LAMBDA c : c.toTrip = t.id)
  <2>1. \A row \in Range(out.transfers) : row.toTrip = n =>
          \E c \in Range(feeds[f].transfers) : c.toTrip = t.id /\ c.of = row.of
    BY CouplingsAreItsOwn
  <2> QED BY <2>1 DEF Of
<1> HIDE DEF t
<1>10. IsItsOwn(f, t, n)
  BY <1>4, <1>5, <1>6, <1>7, <1>8, <1>9 DEF IsItsOwn
<1> QED BY <1>10 DEF t

LEMMA TripsAreTheirOwnInTheEnd == ASSUME TripsAndRows PROVE TripsAreTheirOwn
<1> SUFFICES ASSUME Ended PROVE TripsAreTheirOwn
  BY DEF TripsAreTheirOwn
<1>1. Orderly /\ TripsHold
  BY DEF TripsAndRows
<1>2. IsInjective([n \in DOMAIN out.trips |-> out.trips[n].of])
  <2>1. DOMAIN out.trips = 1 .. Len(out.trips)
    BY <1>1, AtTheEnd DEF FilesWritten, FeedFiles
  <2> QED BY <1>1, <2>1 DEF IsInjective, TripsHold, WrittenOnce
<1>3. ASSUME NEW f \in DOMAIN feeds, NEW s \in Survivors(f)
      PROVE  IsItsOwn(f, s[1], s[2])
  <2>1. PICK i \in 1 .. Len(feeds[f].trips) : feeds[f].trips[i] = s[1] /\ Made(f, i, s[2])
    BY <1>1, SurvivorsAreMade
  <2> QED BY <2>1, SurvivorsAreTheirOwn
<1>4. ASSUME NEW f \in DOMAIN feeds, NEW g \in DOMAIN feeds,
             NEW s \in Survivors(f), NEW r \in Survivors(g), NEW part \in {"block", "shape"}
      PROVE  out.trips[s[2]][part] = out.trips[r[2]][part] <=>
               \/ s[1][part] = None /\ r[1][part] = None
               \/ f = g /\ s[1][part] # None /\ s[1][part] = r[1][part]
  <2>1. PICK i \in 1 .. Len(feeds[f].trips) : feeds[f].trips[i] = s[1] /\ Made(f, i, s[2])
    BY <1>1, SurvivorsAreMade
  <2>2. PICK j \in 1 .. Len(feeds[g].trips) : feeds[g].trips[j] = r[1] /\ Made(g, j, r[2])
    BY <1>1, SurvivorsAreMade
  <2> QED BY <2>1, <2>2, PartsAreItsOwn
<1> QED BY <1>2, <1>3, <1>4 DEF TripsAreTheirOwn, IsItsOwn

(***************************************************************************)
(* The stops and the walks between them.                                   *)
(***************************************************************************)
HeldStops == {s.stop : s \in Range(held.stops)}

(* The stops of the feeds read so far are the places of walks, or there is *)
(* a reason why not; and what the feed in hand publishes has been held.    *)
StopsAreHeld ==
  /\ HeldStops \subseteq BroughtBefore(feed + 1)
  /\ places \subseteq HeldStops
  /\ used \subseteq IF feed = 0 THEN {} ELSE StopIds(feeds[feed])
  /\ feed > 0 => \A i \in 1 .. At("stops") :
       feeds[feed].stops[i].stop \in Published =>
         feeds[feed].stops[i].stop \in HeldStops
  /\ \A s \in HeldStops : \/ s \in places \/ s \in DOMAIN parents
                          \/ TransferDistance = 0 \/ Located[s] = None
  /\ \A s \in places : TransferDistance > 0 /\ Located[s] # None
  /\ \A row \in Range(held.stops) : DOMAIN row = {"stop", "parent", "code"}

Joined(p, q) ==
  \E i \in 1 .. Len(out.transfers) :
    out.transfers[i].from = p /\ out.transfers[i].to = q

PlacesConnect ==
  \A p, q \in places :
    p # q /\ CloserThanATransfer(Located[p], Located[q]) => Joined(p, q) \/ Joined(q, p)

(* A transfer for no trips, of those written: the feeds that brought its   *)
(* stops, and when.                                                        *)
IsAccountedFor(row) ==
  /\ {row.from, row.to} \subseteq BroughtBefore(feed + 1)
  /\ <<row.from, row.to>> \in existing \/ {row.from, row.to} \subseteq HeldStops
  /\ \/ PlaceOf["transfers"] < PlaceOf[phase]
     \/ {row.from, row.to} \subseteq BroughtBefore(feed)
     \/ \E j \in 1 .. At("transfers") :
          /\ Source("transfers")[j].from = row.from
          /\ Source("transfers")[j].to = row.to
          /\ Source("transfers")[j].fromTrip = None

TransfersAreKnown ==
  /\ \A e \in existing :
       feed > 0 /\ {e[1], e[2]} \subseteq Published /\ Joined(e[1], e[2])
  /\ \A row \in Range(out.transfers) : row.fromTrip = None => IsAccountedFor(row)

OnceOrAgain ==
  \A i, j \in 1 .. Len(out.transfers) :
    /\ out.transfers[i].fromTrip = None /\ out.transfers[j].fromTrip = None
    /\ out.transfers[i].from = out.transfers[j].from
    /\ out.transfers[i].to = out.transfers[j].to
    => i = j \/ BroughtAgain(out.transfers[i].from, out.transfers[i].to)

WalksHold == StopsAreHeld /\ PlacesConnect /\ TransfersAreKnown /\ OnceOrAgain
-----------------------------------------------------------------------------
(***************************************************************************)
(* Two stops closer than TransferDistance are in one cell of the grid or   *)
(* in two that touch.                                                      *)
(***************************************************************************)
LEMMA CloserOnEachAxis ==
  ASSUME NEW d \in Int, NEW t \in Nat, d * d < t * t PROVE -t < d /\ d < t
<1>1. ASSUME t <= d PROVE FALSE
  <2>1. PICK k \in Nat : d = t + k
    <3>1. d - t \in Nat /\ d = t + (d - t)
      BY <1>1
    <3> QED BY <3>1
  <2>2. d * d = t * t + t * k + k * t + k * k
    BY <2>1
  <2>3. t * k \in Nat /\ k * t \in Nat /\ k * k \in Nat
    BY <2>1
  <2> QED BY <2>2, <2>3
<1>2. ASSUME d <= -t PROVE FALSE
  <2>1. PICK k \in Nat : d = -t - k
    <3>1. -t - d \in Nat /\ d = -t - (-t - d)
      BY <1>2
    <3> QED BY <3>1
  <2>2. d * d = t * t + t * k + k * t + k * k
    BY <2>1
  <2>3. t * k \in Nat /\ k * t \in Nat /\ k * k \in Nat
    BY <2>1
  <2> QED BY <2>2, <2>3
<1> QED BY <1>1, <1>2

LEMMA CellHolds ==
  ASSUME NEW x \in Int, NEW t \in Nat \ {0}
  PROVE  x \div t \in Int /\ t * (x \div t) <= x /\ x < t * (x \div t) + t
OBVIOUS

LEMMA OneCellApart ==
  ASSUME NEW x \in Int, NEW y \in Int, NEW t \in Nat \ {0}, x - y < t
  PROVE  (x \div t) - (y \div t) <= 1
<1>1. PICK a \in Int : a = x \div t /\ t * a <= x
  BY CellHolds
<1>2. PICK b \in Int : b = y \div t /\ y < t * b + t
  BY CellHolds
<1>3. ASSUME a - b >= 2 PROVE FALSE
  <2>1. PICK k \in Nat : a = b + 2 + k
    <3>1. a - b - 2 \in Nat /\ a = b + 2 + (a - b - 2)
      BY <1>3
    <3> QED BY <3>1
  <2>2. t * a = t * b + t + t + t * k /\ t * k \in Nat
    BY <2>1
  <2>3. t * a \in Int /\ t * b \in Int
    OBVIOUS
  <2> QED BY <1>1, <1>2, <2>2, <2>3
<1> QED BY <1>1, <1>2, <1>3

LEMMA CloserIsNear ==
  ASSUME TransferDistance > 0, NEW p \in Int \X Int, NEW q \in Int \X Int,
         CloserThanATransfer(p, q)
  PROVE  InTheNineCells(p, q)
<1> DEFINE t == TransferDistance
<1>1. t \in Nat \ {0}
  BY DistanceAssumption
<1> HIDE DEF t
<1>2. PICK dx \in Int, dy \in Int : dx = p[1] - q[1] /\ dy = p[2] - q[2]
  OBVIOUS
<1>3. dx * dx + dy * dy < t * t
  BY <1>2 DEF CloserThanATransfer, t
<1>4. dx * dx \in Nat /\ dy * dy \in Nat /\ t * t \in Nat
  BY <1>1
<1>5. dx * dx < t * t /\ dy * dy < t * t
  BY <1>3, <1>4
<1>6. -t < dx /\ dx < t /\ -t < dy /\ dy < t
  BY <1>1, <1>5, CloserOnEachAxis
<1>7. /\ p[1] - q[1] < t /\ q[1] - p[1] < t /\ p[2] - q[2] < t /\ q[2] - p[2] < t
      /\ p[1] \in Int /\ p[2] \in Int /\ q[1] \in Int /\ q[2] \in Int
  BY <1>1, <1>2, <1>6
<1>8. /\ (p[1] \div t) - (q[1] \div t) <= 1 /\ (q[1] \div t) - (p[1] \div t) <= 1
      /\ (p[2] \div t) - (q[2] \div t) <= 1 /\ (q[2] \div t) - (p[2] \div t) <= 1
  BY <1>1, <1>7, OneCellApart
<1>9. /\ p[1] \div t \in Int /\ p[2] \div t \in Int
      /\ q[1] \div t \in Int /\ q[2] \div t \in Int
  BY <1>1, <1>7, CellHolds
<1>10. \A a, b \in Int : a - b <= 1 /\ b - a <= 1 => a - b \in {-1, 0, 1}
  OBVIOUS
<1>11. /\ (p[1] \div t) - (q[1] \div t) \in {-1, 0, 1}
       /\ (p[2] \div t) - (q[2] \div t) \in {-1, 0, 1}
  BY <1>8, <1>9, <1>10
<1>12. /\ CellOf(p)[1] = p[1] \div t /\ CellOf(p)[2] = p[2] \div t
       /\ CellOf(q)[1] = q[1] \div t /\ CellOf(q)[2] = q[2] \div t
  BY DEF CellOf, t
<1> QED BY <1>11, <1>12 DEF InTheNineCells

LEMMA CloserEitherWay ==
  ASSUME NEW p \in Int \X Int, NEW q \in Int \X Int, CloserThanATransfer(p, q)
  PROVE  CloserThanATransfer(q, p)
<1>1. PICK dx \in Int, dy \in Int : dx = p[1] - q[1] /\ dy = p[2] - q[2]
  OBVIOUS
<1>2. q[1] - p[1] = -dx /\ q[2] - p[2] = -dy
  BY <1>1
<1>3. (-dx) * (-dx) = dx * dx /\ (-dy) * (-dy) = dy * dy
  OBVIOUS
<1>4. dx * dx + dy * dy < TransferDistance * TransferDistance
  BY <1>1 DEF CloserThanATransfer
<1> QED BY <1>2, <1>3, <1>4 DEF CloserThanATransfer
-----------------------------------------------------------------------------
(* What the feeds brought, and what the one in hand publishes.             *)
LEMMA BroughtIs ==
  ASSUME feed \in Nat
  PROVE  /\ \A f \in 1 .. feed : StopIds(feeds[f]) \subseteq BroughtBefore(feed + 1)
         /\ BroughtBefore(feed) \subseteq BroughtBefore(feed + 1)
         /\ \A x \in BroughtBefore(feed + 1) : \E f \in 1 .. feed : x \in StopIds(feeds[f])
<1>1. (feed + 1) - 1 = feed /\ 1 .. feed - 1 \subseteq 1 .. feed
  OBVIOUS
<1> QED BY <1>1 DEF BroughtBefore

LEMMA BroughtAreLocated ==
  ASSUME Orderly, NEW x \in BroughtBefore(feed + 1)
  PROVE  x \in DOMAIN Located
<1>1. feeds \in Inputs /\ feed \in 0 .. Len(feeds) /\ Len(feeds) \in Nat
  BY FeedsGiven DEF Orderly, Typed
<1>2. PICK f \in 1 .. feed : x \in StopIds(feeds[f])
  BY <1>1, BroughtIs
<1>3. IsAFeed(feeds[f])
  <2>1. f \in 1 .. Len(feeds)
    BY <1>1
  <2> QED BY <1>1, <2>1, FeedsGiven
<1> QED BY <1>2, <1>3 DEF StopIds, IsAFeed

LEMMA ParentsAreGiven ==
  ASSUME NEW given, IsAFeed(given)
  PROVE  \A s \in DOMAIN ParentsIn(given.stops) :
           ParentsIn(given.stops)[s] \in StopIds(given)
<1> DEFINE rows == given.stops
           children == {i \in DOMAIN rows : rows[i].parent # None}
<1>1. /\ IsSeq(rows)
      /\ \A s \in Range(rows) : s.parent \in StopIds(given) \cup {None}
  BY DEF IsAFeed, FeedFiles, IsSeq
<1>2. Len(rows) \in Nat /\ DOMAIN rows = 1 .. Len(rows)
  BY <1>1, SequenceHas
<1>3. ASSUME NEW i \in children PROVE rows[i].parent \in StopIds(given)
  <2>1. rows[i] \in Range(rows) /\ rows[i].parent # None
    BY DEF Range
  <2> HIDE DEF rows
  <2> QED BY <1>1, <2>1
<1> HIDE DEF rows
<1>4. ASSUME NEW s \in {rows[i].stop : i \in children}
      PROVE  Max({i \in children : rows[i].stop = s}) \in children
  <2> DEFINE its == {i \in children : rows[i].stop = s}
  <2>1. its \in SUBSET (0 .. Len(rows)) /\ its # {}
    BY <1>2
  <2>2. Max(its) \in its
    <3> HIDE DEF its
    <3> QED BY <1>2, <2>1, MaxIsGreatest
  <2> QED BY <2>2
<1>5. /\ DOMAIN ParentsIn(rows) = {rows[i].stop : i \in children}
      /\ \A s \in {rows[i].stop : i \in children} :
           ParentsIn(rows)[s] = rows[Max({i \in children : rows[i].stop = s})].parent
  BY DEF ParentsIn
<1>6. \A s \in DOMAIN ParentsIn(rows) : ParentsIn(rows)[s] \in StopIds(given)
  <2> HIDE DEF children
  <2> QED BY <1>3, <1>4, <1>5
<1> QED BY <1>6 DEF rows

LEMMA PublishedAreGiven ==
  ASSUME Orderly, feed > 0, used \subseteq StopIds(feeds[feed])
  PROVE  Published \subseteq StopIds(feeds[feed])
<1>1. IsAFeed(feeds[feed])
  BY FeedsGiven, GivenOnes DEF Orderly
<1> QED BY <1>1, ParentsAreGiven DEF Published, ParentStops

LEMMA PublishedGrows ==
  ASSUME UNCHANGED <<feeds, feed>>, used \subseteq used'
  PROVE  Published \subseteq Published'
<1>1. ParentStops' = ParentStops
  BY DEF ParentStops
<1> QED BY <1>1 DEF Published

LEMMA WalksHoldAtFirst == ASSUME Init PROVE WalksHold
<1>1. /\ feed = 0 /\ used = {} /\ places = {} /\ existing = {}
      /\ held.stops = <<>> /\ out.transfers = <<>>
  BY DEF Init
<1>2. Range(held.stops) = {} /\ Range(out.transfers) = {} /\ Len(out.transfers) = 0
  BY <1>1 DEF Range
<1>3. StopsAreHeld
  BY <1>1, <1>2 DEF StopsAreHeld, HeldStops
<1>4. PlacesConnect
  BY <1>1 DEF PlacesConnect
<1>5. TransfersAreKnown
  BY <1>1, <1>2 DEF TransfersAreKnown
<1>6. OnceOrAgain
  BY <1>2 DEF OnceOrAgain
<1> QED BY <1>3, <1>4, <1>5, <1>6 DEF WalksHold

LEMMA JoinedStays ==
  ASSUME OutGrows, NEW p, NEW q, Joined(p, q) PROVE Joined(p, q)'
<1>1. PICK i \in 1 .. Len(out.transfers) :
        out.transfers[i].from = p /\ out.transfers[i].to = q
  BY DEF Joined
<1>2. /\ Len(out["transfers"]) \in Nat /\ Len(out'["transfers"]) \in Nat
      /\ Len(out["transfers"]) <= Len(out'["transfers"])
      /\ \A k \in 1 .. Len(out["transfers"]) : out'["transfers"][k] = out["transfers"][k]
  BY DEF OutGrows, FilesWritten, FeedFiles
<1>3. i \in 1 .. Len(out'.transfers) /\ out'.transfers[i] = out.transfers[i]
  BY <1>1, <1>2
<1> QED BY <1>1, <1>3 DEF Joined

(* What accounts for a transfer still does, as stops are held and files    *)
(* are done with.                                                          *)
LEMMA AccountsStay ==
  ASSUME UNCHANGED <<feeds, feed>>, existing \subseteq existing',
         HeldStops \subseteq HeldStops',
         PlaceOf[phase] \in Nat, PlaceOf[phase'] \in Nat, PlaceOf[phase] <= PlaceOf[phase'],
         At("transfers") \in Int, At("transfers")' \in Int, At("transfers") <= At("transfers")',
         Source("transfers")' = Source("transfers"),
         NEW row, IsAccountedFor(row)
  PROVE  IsAccountedFor(row)'
<1>1. /\ BroughtBefore(feed + 1)' = BroughtBefore(feed + 1)
      /\ BroughtBefore(feed)' = BroughtBefore(feed)
  BY DEF BroughtBefore
<1>2. PlaceOf["transfers"] \in Nat
  BY DEF PlaceOf
<1>3. PlaceOf["transfers"] < PlaceOf[phase] => PlaceOf["transfers"] < PlaceOf[phase']
  BY <1>2
<1>4. \A j \in 1 .. At("transfers") : j \in 1 .. At("transfers")'
  OBVIOUS
<1>5. /\ {row.from, row.to} \subseteq BroughtBefore(feed + 1)'
      /\ <<row.from, row.to>> \in existing' \/ {row.from, row.to} \subseteq HeldStops'
  BY <1>1 DEF IsAccountedFor
<1>6. \/ PlaceOf["transfers"] < PlaceOf[phase']
      \/ {row.from, row.to} \subseteq BroughtBefore(feed)'
      \/ \E j \in 1 .. At("transfers")' :
           /\ Source("transfers")'[j].from = row.from
           /\ Source("transfers")'[j].to = row.to
           /\ Source("transfers")'[j].fromTrip = None
  BY <1>1, <1>3, <1>4 DEF IsAccountedFor
<1> QED BY <1>5, <1>6 DEF IsAccountedFor

(* The steps that leave the stops and the walks as they are. *)
SameWalks ==
  /\ UNCHANGED <<feeds, feed, used, places, existing>>
  /\ held'.stops = held.stops /\ out'.transfers = out.transfers
  /\ DOMAIN parents \subseteq DOMAIN parents'
  /\ At("stops")' = At("stops") /\ At("transfers")' = At("transfers")
  /\ Source("transfers")' = Source("transfers")
  /\ PlaceOf[phase] <= PlaceOf[phase']

LEMMA FeedIsANumber == ASSUME Orderly PROVE feed \in Nat
<1>1. feeds \in Inputs /\ feed \in 0 .. Len(feeds)
  BY DEF Orderly, Typed
<1>2. Len(feeds) \in Nat
  BY <1>1, FeedsGiven
<1> QED BY <1>1, <1>2

(* How far the feed in hand has got, of the files that matter here. *)
LEMMA PlacesInHand ==
  ASSUME Orderly, feed > 0
  PROVE  /\ PlaceOf[phase] \in Nat
         /\ At("transfers") \in 0 .. Len(Source("transfers"))
         /\ At("stops") \in 0 .. Len(feeds[feed].stops)
<1>1. "transfers" \in FeedFiles \ {"members"} /\ "stops" \in FeedFiles \ {"members"}
  BY DEF FeedFiles
<1>2. PlaceOf[phase] \in Nat
  BY FileNames DEF Orderly, Typed
<1>3. Source("stops") = feeds[feed]["stops"]
  BY SourceIs
<1> QED BY <1>1, <1>2, <1>3, AtIs

LEMMA WalksAreLeft ==
  ASSUME Orderly, Orderly', WalksHold, SameWalks
  PROVE  WalksHold'
<1>1. /\ feeds' = feeds /\ feed' = feed /\ used' = used /\ places' = places
      /\ existing' = existing /\ held'.stops = held.stops /\ out'.transfers = out.transfers
  BY DEF SameWalks
<1>2. HeldStops' = HeldStops
  BY <1>1 DEF HeldStops
<1>3. Published' = Published
  BY <1>1 DEF Published, ParentStops
<1>4. BroughtBefore(feed + 1)' = BroughtBefore(feed + 1)
  BY <1>1 DEF BroughtBefore
<1>5. \A p, q : Joined(p, q)' <=> Joined(p, q)
  BY <1>1 DEF Joined
<1>6. StopsAreHeld'
  BY <1>1, <1>2, <1>3, <1>4 DEF WalksHold, StopsAreHeld, SameWalks
<1>7. PlacesConnect'
  BY <1>1, <1>5 DEF WalksHold, PlacesConnect
<1>8. ASSUME NEW row, IsAccountedFor(row) PROVE IsAccountedFor(row)'
  <2>1. feed > 0
    <3>1. feed \in Nat
      BY FeedIsANumber
    <3>2. feed # 0
      BY <1>8 DEF IsAccountedFor, BroughtBefore
    <3> QED BY <3>1, <3>2
  <2>2. PlaceOf[phase] \in Nat /\ PlaceOf[phase'] \in Nat /\ At("transfers") \in Nat
    BY <2>1, PlacesInHand, FileNames DEF Orderly, Typed
  <2> QED BY <1>1, <1>2, <1>8, <2>2, AccountsStay DEF SameWalks
<1>9. TransfersAreKnown'
  BY <1>1, <1>3, <1>5, <1>8 DEF WalksHold, TransfersAreKnown
<1>10. OnceOrAgain'
  BY <1>1 DEF WalksHold, OnceOrAgain, BroughtAgain, BroughtBefore
<1> QED BY <1>6, <1>7, <1>9, <1>10 DEF WalksHold

(* The next feed is begun: what it and the ones before brought is held.    *)
LEMMA ReadKeepsWalks == ASSUME Orderly, TripsHold, WalksHold, Read PROVE WalksHold'
<1>1. /\ feed' = feed + 1 /\ feeds' = feeds /\ phase = "read" /\ phase' = "routes"
      /\ used' = {} /\ existing' = {} /\ UNCHANGED <<held, places, parents, out>>
      /\ feed < Len(feeds)
  BY DEF Read, memory
<1>2. feed \in Nat /\ Orderly'
  <2>1. feed \in Nat
    BY FeedsGiven DEF Orderly, Typed
  <2> QED BY <2>1, ReadHolds
<1>3. HeldStops' = HeldStops
  BY <1>1 DEF HeldStops
<1>4. BroughtBefore(feed)' = BroughtBefore(feed + 1)
  BY <1>1 DEF BroughtBefore
<1>5. BroughtBefore(feed + 1) \subseteq BroughtBefore(feed + 1)'
  <2>1. 1 .. (feed + 1) - 1 \subseteq 1 .. (feed' + 1) - 1
    BY <1>1, <1>2
  <2> QED BY <1>1, <2>1 DEF BroughtBefore
<1>6. At("stops")' = 0
  BY ReadMakesNone DEF ReadsNone, FeedFiles
<1>7. StopsAreHeld'
  <2>1. 1 .. At("stops")' = {}
    BY <1>6
  <2> QED BY <1>1, <1>3, <1>5, <2>1 DEF WalksHold, StopsAreHeld
<1>8. PlacesConnect'
  BY <1>1 DEF WalksHold, PlacesConnect, Joined
<1>9. OnceOrAgain'
  <2>1. \A p, q : BroughtAgain(p, q)' <=> BroughtAgain(p, q)
    BY <1>1 DEF BroughtAgain, BroughtBefore
  <2> QED BY <1>1, <2>1 DEF WalksHold, OnceOrAgain
<1>10. ASSUME feed > 0 PROVE Published \subseteq HeldStops
  <2>1. "stops" \in FeedFiles \ {"members"} /\ PlaceOf["stops"] < PlaceOf[phase]
    BY <1>1 DEF FeedFiles, PlaceOf
  <2>2. At("stops") = Len(feeds[feed].stops)
    BY <1>10, <2>1, AtIs, SourceIs
  <2>3. Published \subseteq StopIds(feeds[feed])
    BY <1>10, PublishedAreGiven DEF WalksHold, StopsAreHeld
  <2>4. DOMAIN feeds[feed].stops = 1 .. Len(feeds[feed].stops)
    BY <1>10, <2>1, GivenOnes, FilesGiven DEF Orderly
  <2>5. \A x \in StopIds(feeds[feed]) :
          \E i \in 1 .. Len(feeds[feed].stops) : feeds[feed].stops[i].stop = x
    BY <2>4 DEF StopIds, Range
  <2> QED BY <1>10, <2>2, <2>3, <2>5 DEF WalksHold, StopsAreHeld
<1>11. ASSUME NEW row \in Range(out.transfers), row.fromTrip = None
       PROVE  IsAccountedFor(row)'
  <2>1. IsAccountedFor(row)
    BY <1>11 DEF WalksHold, TransfersAreKnown
  <2>2. {row.from, row.to} \subseteq HeldStops
    <3>1. SUFFICES ASSUME <<row.from, row.to>> \in existing
                   PROVE  {row.from, row.to} \subseteq HeldStops
      BY <2>1 DEF IsAccountedFor
    <3>2. PICK e \in existing : e[1] = row.from /\ e[2] = row.to
      BY <3>1
    <3>3. feed > 0 /\ {e[1], e[2]} \subseteq Published
      BY <3>2 DEF WalksHold, TransfersAreKnown
    <3> QED BY <1>10, <3>2, <3>3
  <2>3. {row.from, row.to} \subseteq BroughtBefore(feed + 1)
    BY <2>1 DEF IsAccountedFor
  <2> QED BY <1>3, <1>4, <1>5, <2>2, <2>3 DEF IsAccountedFor
<1>12. TransfersAreKnown'
  BY <1>1, <1>11 DEF TransfersAreKnown
<1> QED BY <1>7, <1>8, <1>9, <1>12 DEF WalksHold

LEMMA StopsStay ==
  ASSUME StopsAreHeld, UNCHANGED <<feeds, feed, used, places>>,
         held'.stops = held.stops, DOMAIN parents \subseteq DOMAIN parents',
         At("stops")' = At("stops")
  PROVE  StopsAreHeld' /\ HeldStops' = HeldStops /\ Published' = Published
<1>1. HeldStops' = HeldStops
  BY DEF HeldStops
<1>2. Published' = Published
  BY DEF Published, ParentStops
<1>3. BroughtBefore(feed + 1)' = BroughtBefore(feed + 1)
  BY DEF BroughtBefore
<1> QED BY <1>1, <1>2, <1>3 DEF StopsAreHeld

LEMMA PlacesStay ==
  ASSUME PlacesConnect, OutGrows, places' = places PROVE PlacesConnect'
<1>1. \A p, q : Joined(p, q) => Joined(p, q)'
  BY JoinedStays
<1> QED BY <1>1 DEF PlacesConnect

LEMMA BroughtAgainStays ==
  ASSUME feeds' = feeds PROVE \A p, q : BroughtAgain(p, q)' <=> BroughtAgain(p, q)
BY DEF BroughtAgain, BroughtBefore

(* A call of the feed in hand is at a stop of the feed. *)
LEMMA ReadCallKeepsWalks == ASSUME Orderly, WalksHold, ReadCall PROVE WalksHold'
<1>1. /\ UNCHANGED <<feeds, feed, phase, held, places, existing, parents, out>>
      /\ phase = "calls"
      /\ used' = used \/ used' = used \cup {First("calls").stop}
  BY DEF ReadCall, Row, memory
<1>2. Orderly' /\ ARowFurther("calls")
  BY ReadCallHolds
<1>3. /\ feed \in 1 .. Len(feeds) /\ feed > 0 /\ IsAFeed(feeds[feed])
      /\ First("calls") = feeds[feed]["calls"][At("calls") + 1]
      /\ At("calls") + 1 \in DOMAIN feeds[feed].calls
  <2>1. feed \in 1 .. Len(feeds) /\ feeds \in Inputs /\ Len(feeds) \in Nat
    BY <1>2, FeedsGiven DEF Orderly, Typed, ARowFurther
  <2>2. "calls" \in FeedFiles
    BY DEF FeedFiles
  <2>3. Source("calls") = feeds[feed]["calls"]
    BY SourceIs
  <2> QED BY <1>2, <2>1, <2>2, <2>3, FeedsGiven, FilesGiven DEF ARowFurther
<1>4. First("calls").stop \in StopIds(feeds[feed])
  BY <1>3 DEF IsAFeed, Range
<1>5. At("stops") = 0 /\ At("stops")' = 0 /\ At("transfers")' = At("transfers")
      /\ Source("transfers")' = Source("transfers")
  <2>1. PlaceOf[phase] < PlaceOf["stops"] /\ "stops" \in FeedFiles \ {"members"}
    BY <1>1 DEF PlaceOf, FeedFiles
  <2>2. At("stops") = 0
    BY <1>3, <2>1, AtIs
  <2> QED BY <1>2, <2>2 DEF ARowFurther, FeedFiles
<1>6. HeldStops' = HeldStops
  BY <1>1 DEF HeldStops
<1>7. BroughtBefore(feed + 1)' = BroughtBefore(feed + 1)
  BY <1>1 DEF BroughtBefore
<1>8. StopsAreHeld'
  <2>1. used' \subseteq StopIds(feeds[feed])
    BY <1>1, <1>3, <1>4 DEF WalksHold, StopsAreHeld
  <2>2. 1 .. At("stops")' = {}
    BY <1>5
  <2> QED BY <1>1, <1>3, <1>6, <1>7, <2>1, <2>2 DEF WalksHold, StopsAreHeld
<1>9. Published \subseteq Published'
  BY <1>1, PublishedGrows
<1>10. PlacesConnect' /\ \A p, q : Joined(p, q)' <=> Joined(p, q)
  BY <1>1 DEF WalksHold, PlacesConnect, Joined
<1>11. ASSUME NEW row, IsAccountedFor(row) PROVE IsAccountedFor(row)'
  <2>1. PlaceOf[phase] \in Nat /\ At("transfers") \in Nat
    BY <1>3, PlacesInHand
  <2> QED BY <1>1, <1>5, <1>6, <1>11, <2>1, AccountsStay
<1>12. TransfersAreKnown'
  BY <1>1, <1>9, <1>10, <1>11 DEF WalksHold, TransfersAreKnown
<1>13. OnceOrAgain'
  BY <1>1, BroughtAgainStays DEF WalksHold, OnceOrAgain
<1> QED BY <1>8, <1>10, <1>12, <1>13 DEF WalksHold

(***************************************************************************)
(* A transfer of the feed in hand is written, or left out.                 *)
(***************************************************************************)
LeavesTransfer == UNCHANGED <<out, existing>>

(* The row written for a transfer, of one for no trips. *)
TakesTransfer(t, row) ==
  /\ WriteRow("transfers", row)
  /\ row.from = t.from /\ row.to = t.to /\ (row.fromTrip = None <=> t.fromTrip = None)
  /\ {t.from, t.to} \subseteq Published
  /\ existing' = existing \cup {<<t.from, t.to>>}

LEMMA WriteTransferIs ==
  ASSUME WriteTransfer
  PROVE  /\ UNCHANGED <<feeds, feed, phase, used, held, places, parents>>
         /\ phase = "transfers"
         /\ LeavesTransfer \/ \E row : TakesTransfer(First("transfers"), row)
<1> DEFINE t == First("transfers")
           coupling == t.fromTrip # None
           from == Get(maps.trips, t.fromTrip)
           to == Get(maps.trips, t.toTrip)
           row == [from |-> t.from, to |-> t.to,
                   fromTrip |-> IF coupling THEN from ELSE None,
                   toTrip |-> IF coupling THEN to ELSE None, of |-> t.of]
<1>1. UNCHANGED <<feeds, feed, phase, used, held, places, parents>> /\ phase = "transfers"
  BY DEF WriteTransfer, Row, memory
<1>2. CASE /\ {t.from, t.to} \subseteq Published
           /\ coupling => from # None /\ to # None
  <2>1. WriteRow("transfers", row) /\ existing' = existing \cup {<<t.from, t.to>>}
    BY <1>2 DEF WriteTransfer
  <2>2. row.from = t.from /\ row.to = t.to /\ (row.fromTrip = None <=> t.fromTrip = None)
    BY <1>2
  <2> HIDE DEF row
  <2>3. TakesTransfer(t, row)
    BY <1>2, <2>1, <2>2 DEF TakesTransfer
  <2> QED BY <1>1, <2>3
<1>3. CASE ~(/\ {t.from, t.to} \subseteq Published
             /\ coupling => from # None /\ to # None)
  BY <1>1, <1>3 DEF WriteTransfer, LeavesTransfer
<1> QED BY <1>2, <1>3

(* The transfers of the feed in hand, each for its stops and trips alone.  *)
LEMMA TransfersInHand ==
  ASSUME Orderly, feed > 0
  PROVE  \A j, k \in 1 .. Len(Source("transfers")) :
           /\ Source("transfers")[j].fromTrip = None
           /\ Source("transfers")[k].fromTrip = None
           /\ Source("transfers")[j].from = Source("transfers")[k].from
           /\ Source("transfers")[j].to = Source("transfers")[k].to
           => j = k
<1> DEFINE rows == feeds[feed].transfers
           kept == ShortestTransfers(rows)
<1>1. /\ IsAFeed(feeds[feed]) /\ IsSeq(rows) /\ DOMAIN rows = 1 .. Len(rows)
  <2>1. feeds \in Inputs /\ feed \in 1 .. Len(feeds) /\ "transfers" \in FeedFiles
    BY GivenOnes DEF Orderly, FeedFiles
  <2> QED BY <2>1, FeedsGiven, FilesGiven
<1>2. \A i \in 1 .. Len(rows) :
        rows[i].time \in Nat /\ (rows[i].fromTrip = None <=> rows[i].toTrip = None)
  <2>1. \A t \in Range(rows) : t.time \in Nat /\ (t.fromTrip = None <=> t.toTrip = None)
    BY <1>1 DEF IsAFeed
  <2> HIDE DEF rows
  <2> QED BY <1>1, <2>1 DEF Range
<1>3. /\ \A k \in 1 .. Len(kept) : \E i \in 1 .. Len(rows) : kept[k] = rows[i]
      /\ \A k, l \in 1 .. Len(kept) : SameTransfer(kept[k], kept[l]) => k = l
  <2> HIDE DEF rows
  <2> QED BY <1>1, <1>2, ShortestAreSome
<1>4. Source("transfers") = kept
  BY DEF Source
<1> HIDE DEF kept, rows
<1>5. \A k \in 1 .. Len(kept) : kept[k].fromTrip = None <=> kept[k].toTrip = None
  BY <1>2, <1>3
<1> QED BY <1>3, <1>4, <1>5 DEF SameTransfer

LEMMA WriteTransferKeepsWalks == ASSUME Orderly, WalksHold, WriteTransfer PROVE WalksHold'
<1>1. /\ feeds' = feeds /\ feed' = feed /\ phase' = phase /\ used' = used
      /\ held' = held /\ places' = places /\ parents' = parents
      /\ phase = "transfers"
      /\ LeavesTransfer \/ \E row : TakesTransfer(First("transfers"), row)
  BY WriteTransferIs
<1>2. Orderly' /\ ARowFurther("transfers") /\ OutGrows
  BY WriteTransferHolds
<1>3. /\ feed \in 1 .. Len(feeds) /\ feed > 0 /\ feed \in Nat
      /\ At("transfers") \in Nat /\ At("transfers")' = At("transfers") + 1
      /\ At("transfers") + 1 \in 1 .. Len(Source("transfers"))
      /\ First("transfers") = Source("transfers")[At("transfers") + 1]
      /\ At("stops")' = At("stops") /\ Source("transfers")' = Source("transfers")
  BY <1>2, FeedIsANumber DEF ARowFurther, FeedFiles
<1>4. StopsAreHeld' /\ HeldStops' = HeldStops /\ Published' = Published
  BY <1>1, <1>3, StopsStay DEF WalksHold
<1>5. PlacesConnect'
  BY <1>1, <1>2, PlacesStay DEF WalksHold
<1>6. ASSUME NEW row, IsAccountedFor(row), existing \subseteq existing'
      PROVE  IsAccountedFor(row)'
  <2>1. PlaceOf[phase] \in Nat
    BY <1>3, PlacesInHand
  <2> QED BY <1>1, <1>3, <1>4, <1>6, <2>1, AccountsStay
<1>7. CASE LeavesTransfer
  <2>1. out' = out /\ existing' = existing
    BY <1>7 DEF LeavesTransfer
  <2>2. \A p, q : Joined(p, q)' <=> Joined(p, q)
    BY <2>1 DEF Joined
  <2>3. TransfersAreKnown'
    BY <1>1, <1>4, <1>6, <2>1, <2>2 DEF WalksHold, TransfersAreKnown
  <2>4. OnceOrAgain'
    BY <1>1, <2>1, BroughtAgainStays DEF WalksHold, OnceOrAgain
  <2> QED BY <1>4, <1>5, <2>3, <2>4 DEF WalksHold
<1>8. CASE \E row : TakesTransfer(First("transfers"), row)
  <2> DEFINE n == Len(out.transfers)
  <2>1. PICK t : t = First("transfers")
    OBVIOUS
  <2>2. PICK row : TakesTransfer(t, row)
    BY <1>8, <2>1
  <2>3. /\ WriteRow("transfers", row) /\ row.from = t.from /\ row.to = t.to
        /\ row.fromTrip = None <=> t.fromTrip = None
        /\ {t.from, t.to} \subseteq Published
        /\ existing' = existing \cup {<<t.from, t.to>>}
    BY <2>2 DEF TakesTransfer
  <2>4. /\ Len(out'.transfers) = n + 1 /\ n \in Nat
        /\ \A i \in 1 .. n : out'.transfers[i] = out.transfers[i]
        /\ out'.transfers[n + 1] = row
        /\ Range(out'.transfers) = Range(out.transfers) \cup {row}
        /\ DOMAIN out.transfers = 1 .. n
    <3>1. OutIsTyped /\ "transfers" \in FilesWritten
      BY TypedIsTyped DEF Orderly, FilesWritten, FeedFiles
    <3>2. Wrote("transfers", row)
      BY <2>3, <3>1, RowIsWritten
    <3>3. IsSeq(out.transfers)
      BY <3>1 DEF OutIsTyped
    <3> QED BY <3>2, <3>3, SequenceHas DEF Wrote, Appended
  <2>5. {t.from, t.to} \subseteq StopIds(feeds[feed])
    BY <1>3, <2>3, PublishedAreGiven DEF WalksHold, StopsAreHeld
  <2>6. TransfersAreKnown'
    <3>1. Joined(t.from, t.to)'
      BY <2>3, <2>4 DEF Joined
    <3>2. \A e \in existing' :
            feed' > 0 /\ {e[1], e[2]} \subseteq Published' /\ Joined(e[1], e[2])'
      <4> TAKE e \in existing'
      <4>1. CASE e \in existing
        BY <1>1, <1>2, <1>4, <4>1, JoinedStays DEF WalksHold, TransfersAreKnown
      <4>2. CASE e = <<t.from, t.to>>
        <5>1. e[1] = t.from /\ e[2] = t.to
          BY <4>2
        <5> QED BY <1>1, <1>3, <1>4, <2>3, <3>1, <5>1
      <4> QED BY <2>3, <4>1, <4>2
    <3>3. ASSUME row.fromTrip = None PROVE IsAccountedFor(row)'
      <4>1. {row.from, row.to} \subseteq BroughtBefore(feed + 1)'
        <5>1. BroughtBefore(feed + 1)' = BroughtBefore(feed + 1)
          BY <1>1 DEF BroughtBefore
        <5>2. feed \in 1 .. feed
          BY <1>3
        <5> QED BY <1>3, <2>3, <2>5, <5>1, <5>2, BroughtIs
      <4>2. <<row.from, row.to>> \in existing'
        BY <2>3
      <4>3. \E j \in 1 .. At("transfers")' :
              /\ Source("transfers")'[j].from = row.from
              /\ Source("transfers")'[j].to = row.to
              /\ Source("transfers")'[j].fromTrip = None
        <5>1. At("transfers") + 1 \in 1 .. At("transfers")'
          BY <1>3
        <5>2. t = Source("transfers")'[At("transfers") + 1]
          BY <1>3, <2>1
        <5> QED BY <2>3, <3>3, <5>1, <5>2
      <4> QED BY <4>1, <4>2, <4>3 DEF IsAccountedFor
    <3>4. \A other \in Range(out'.transfers) :
            other.fromTrip = None => IsAccountedFor(other)'
      <4> TAKE other \in Range(out'.transfers)
      <4>1. CASE other \in Range(out.transfers)
        BY <1>6, <2>3, <4>1 DEF WalksHold, TransfersAreKnown
      <4>2. CASE other = row
        BY <3>3, <4>2
      <4> QED BY <2>4, <4>1, <4>2
    <3> QED BY <3>2, <3>4 DEF TransfersAreKnown
  <2>7. ASSUME NEW i \in 1 .. n, out.transfers[i].fromTrip = None, row.fromTrip = None,
               out.transfers[i].from = row.from, out.transfers[i].to = row.to
        PROVE  BroughtAgain(row.from, row.to)
    <3>1. PICK other \in Range(out.transfers) : other = out.transfers[i]
      BY <2>4 DEF Range
    <3>2. IsAccountedFor(other)
      BY <2>7, <3>1 DEF WalksHold, TransfersAreKnown
    <3>3. ~(PlaceOf["transfers"] < PlaceOf[phase])
      BY <1>1 DEF PlaceOf
    <3>4. ASSUME NEW j \in 1 .. At("transfers"),
                 Source("transfers")[j].from = row.from, Source("transfers")[j].to = row.to,
                 Source("transfers")[j].fromTrip = None
          PROVE  FALSE
      <4>1. j \in 1 .. Len(Source("transfers")) /\ j # At("transfers") + 1
        <5>1. Len(Source("transfers")) \in Nat
          BY <1>3, PlacesInHand
        <5> QED BY <1>3, <5>1
      <4>2. /\ Source("transfers")[At("transfers") + 1].from = row.from
            /\ Source("transfers")[At("transfers") + 1].to = row.to
            /\ Source("transfers")[At("transfers") + 1].fromTrip = None
        BY <1>3, <2>1, <2>3, <2>7
      <4> QED BY <1>3, <3>4, <4>1, <4>2, TransfersInHand
    <3>5. {row.from, row.to} \subseteq BroughtBefore(feed)
      BY <2>7, <3>1, <3>2, <3>3, <3>4 DEF IsAccountedFor
    <3>6. feed \in DOMAIN feeds
      BY <1>3, FeedsGiven DEF Orderly, Typed
    <3> QED BY <2>3, <2>5, <3>5, <3>6 DEF BroughtAgain
  <2>8. OnceOrAgain'
    <3> SUFFICES ASSUME NEW i \in 1 .. n + 1, NEW j \in 1 .. n + 1,
                        out'.transfers[i].fromTrip = None, out'.transfers[j].fromTrip = None,
                        out'.transfers[i].from = out'.transfers[j].from,
                        out'.transfers[i].to = out'.transfers[j].to,
                        i # j
                 PROVE  BroughtAgain(out'.transfers[i].from, out'.transfers[i].to)
      BY <1>1, <2>4, BroughtAgainStays DEF OnceOrAgain
    <3>1. CASE i \in 1 .. n /\ j \in 1 .. n
      BY <2>4, <3>1 DEF WalksHold, OnceOrAgain
    <3>2. CASE i \in 1 .. n /\ j = n + 1
      BY <2>4, <2>7, <3>2
    <3>3. CASE j \in 1 .. n /\ i = n + 1
      BY <2>4, <2>7, <3>3
    <3> QED BY <2>4, <3>1, <3>2, <3>3
  <2> QED BY <1>4, <1>5, <2>6, <2>8 DEF WalksHold
<1> QED BY <1>1, <1>7, <1>8

(***************************************************************************)
(* A stop of the feed in hand is passed by or held, and walks are written. *)
(***************************************************************************)
(* The walks written for a place, there and back. *)
WroteWalks(s, walks) ==
  LET n == Len(out.transfers)
      m == Len(walks)
  IN  /\ n \in Nat /\ m \in Nat
      /\ \A q \in WalksFrom(s) : \E k \in 1 .. m : walks[k] = q
      /\ \A k \in 1 .. m : walks[k] \in WalksFrom(s)
      /\ \A k, l \in 1 .. m : walks[k] = walks[l] => k = l
      /\ Len(out'.transfers) = n + m + m
      /\ \A i \in 1 .. n : out'.transfers[i] = out.transfers[i]
      /\ \A k \in 1 .. m : /\ out'.transfers[n + k] = Walk(s, walks[k])
                           /\ out'.transfers[n + m + k] = Walk(walks[k], s)

LEMMA WalksAreWritten ==
  ASSUME Orderly, NEW s, out' = [out EXCEPT !.transfers =
                                @ \o WalksWritten(SetToSeq(WalksFrom(s)), s)]
  PROVE  \E walks : WroteWalks(s, walks)
<1>1. PICK walks : walks = SetToSeq(WalksFrom(s))
  OBVIOUS
<1>2. /\ IsSeq(walks) /\ Range(walks) = WalksFrom(s)
      /\ \A k, l \in 1 .. Len(walks) : walks[k] = walks[l] => k = l
  BY <1>1, WalksAreListed, SetInOrder DEF Orderly
<1>3. PICK rows : rows = WalksWritten(walks, s)
  OBVIOUS
<1>4. /\ IsSeq(rows) /\ Len(walks) \in Nat /\ Len(rows) = Len(walks) + Len(walks)
      /\ \A k \in 1 .. Len(walks) : rows[k] = Walk(s, walks[k])
                                    /\ rows[Len(walks) + k] = Walk(walks[k], s)
  BY <1>2, <1>3, WalksWrittenHas
<1>5. OutIsTyped /\ "transfers" \in FilesWritten
  BY TypedIsTyped DEF Orderly, FilesWritten, FeedFiles
<1>6. Concatenated(out'["transfers"], out["transfers"], rows)
  <2>1. out' = [out EXCEPT !["transfers"] = @ \o rows]
    BY <1>1, <1>3
  <2> QED BY <1>4, <1>5, <2>1, RowsAreWritten DEF WroteAll
<1>7. Len(out["transfers"]) \in Nat
  BY <1>5, SequenceHas DEF OutIsTyped
<1>8. /\ Len(out'.transfers) = Len(out.transfers) + Len(rows)
      /\ \A i \in 1 .. Len(out.transfers) : out'.transfers[i] = out.transfers[i]
      /\ \A k \in 1 .. Len(rows) : out'.transfers[Len(out.transfers) + k] = rows[k]
  BY <1>6 DEF Concatenated
<1>9. ASSUME NEW k \in 1 .. Len(walks)
      PROVE  /\ out'.transfers[Len(out.transfers) + k] = Walk(s, walks[k])
             /\ out'.transfers[Len(out.transfers) + Len(walks) + k] = Walk(walks[k], s)
  <2>1. k \in 1 .. Len(rows) /\ Len(walks) + k \in 1 .. Len(rows)
    BY <1>4
  <2>2. Len(out.transfers) + Len(walks) + k = Len(out.transfers) + (Len(walks) + k)
    BY <1>4, <1>7
  <2> QED BY <1>4, <1>8, <2>1, <2>2
<1>10. /\ \A q \in WalksFrom(s) : \E k \in 1 .. Len(walks) : walks[k] = q
       /\ \A k \in 1 .. Len(walks) : walks[k] \in WalksFrom(s)
  BY <1>2, SequenceHas
<1>11. Len(out'.transfers) = Len(out.transfers) + Len(walks) + Len(walks)
  <2>1. \A a, b \in Nat : a + (b + b) = a + b + b
    OBVIOUS
  <2>2. Len(out'.transfers) = Len(out.transfers) + (Len(walks) + Len(walks))
    BY <1>4, <1>8
  <2> QED BY <1>4, <1>7, <2>1, <2>2
<1>12. WroteWalks(s, walks)
  BY <1>2, <1>4, <1>7, <1>8, <1>9, <1>10, <1>11 DEF WroteWalks
<1> QED BY <1>12

(* The places of the transfers there are after the walks. *)
LEMMA OldOrWalk ==
  ASSUME NEW s, NEW walks, WroteWalks(s, walks), NEW i \in 1 .. Len(out'.transfers)
  PROVE  \/ i \in 1 .. Len(out.transfers)
         \/ \E k \in 1 .. Len(walks) :
              i = Len(out.transfers) + k /\ out'.transfers[i] = Walk(s, walks[k])
         \/ \E k \in 1 .. Len(walks) : /\ i = Len(out.transfers) + Len(walks) + k
                                       /\ out'.transfers[i] = Walk(walks[k], s)
<1> DEFINE n == Len(out.transfers)
           m == Len(walks)
<1>1. n \in Nat /\ m \in Nat /\ i \in 1 .. n + m + m
  BY DEF WroteWalks
<1>2. CASE i - n \in 1 .. m
  <2>1. i = n + (i - n)
    <3> HIDE DEF n, m
    <3> QED BY <1>1
  <2>2. out'.transfers[n + (i - n)] = Walk(s, walks[i - n])
    BY <1>2 DEF WroteWalks
  <2> QED BY <1>2, <2>1, <2>2
<1>3. CASE i - n - m \in 1 .. m
  <2>1. i = n + m + (i - n - m)
    <3> HIDE DEF n, m
    <3> QED BY <1>1
  <2>2. out'.transfers[n + m + (i - n - m)] = Walk(walks[i - n - m], s)
    BY <1>3 DEF WroteWalks
  <2> QED BY <1>3, <2>1, <2>2
<1>4. \A a, b \in Nat : \A j \in 1 .. a + b + b :
        j \in 1 .. a \/ j - a \in 1 .. b \/ j - a - b \in 1 .. b
  OBVIOUS
<1> QED BY <1>1, <1>2, <1>3, <1>4

(* The row in hand is a stop of its feed. *)
LEMMA StopInHand ==
  ASSUME Orderly, ARowFurther("stops")
  PROVE  /\ feed > 0 /\ feed \in Nat
         /\ First("stops") = feeds[feed].stops[At("stops") + 1]
         /\ First("stops").stop \in StopIds(feeds[feed])
         /\ First("stops").stop \in BroughtBefore(feed + 1)
         /\ First("stops").stop \in DOMAIN Located
         /\ DOMAIN First("stops") = {"stop", "parent", "code"}
         /\ At("stops") \in Nat /\ At("stops")' = At("stops") + 1
         /\ At("transfers")' = At("transfers")
         /\ Source("transfers")' = Source("transfers")
<1>1. /\ feed \in 1 .. Len(feeds) /\ feeds \in Inputs /\ Len(feeds) \in Nat
      /\ First("stops") = Source("stops")[At("stops") + 1]
      /\ At("stops") + 1 \in 1 .. Len(Source("stops"))
      /\ At("stops") \in Nat /\ At("stops")' = At("stops") + 1
      /\ At("transfers")' = At("transfers")
      /\ Source("transfers")' = Source("transfers")
  BY FeedsGiven DEF Orderly, Typed, ARowFurther, FeedFiles
<1>2. Source("stops") = feeds[feed]["stops"]
  BY SourceIs
<1>3. IsAFeed(feeds[feed]) /\ DOMAIN feeds[feed]["stops"] = 1 .. Len(feeds[feed]["stops"])
  <2>1. "stops" \in FeedFiles
    BY DEF FeedFiles
  <2> QED BY <1>1, <2>1, FeedsGiven, FilesGiven
<1>4. First("stops") \in Range(feeds[feed].stops)
  BY <1>1, <1>2, <1>3 DEF Range
<1>5. /\ First("stops").stop \in StopIds(feeds[feed])
      /\ First("stops").stop \in DOMAIN Located
      /\ DOMAIN First("stops") = {"stop", "parent", "code"}
  BY <1>3, <1>4 DEF StopIds, IsAFeed
<1>6. feed > 0 /\ feed \in Nat /\ feed \in 1 .. feed
  BY <1>1
<1>7. First("stops").stop \in BroughtBefore(feed + 1)
  BY <1>5, <1>6, BroughtIs
<1> QED BY <1>1, <1>2, <1>5, <1>6, <1>7

(* The stop held is one of the stops held from then on. *)
LEMMA StopIsHeld ==
  ASSUME Orderly, HoldsStop
  PROVE  /\ HeldStops' = HeldStops \cup {First("stops").stop}
         /\ Range(held'.stops) = Range(held.stops) \cup {First("stops")}
<1>1. PICK row : row = First("stops")
  OBVIOUS
<1>2. held'.stops = Append(held.stops, row) /\ IsSeq(held.stops)
  BY <1>1 DEF HoldsStop, Orderly, Typed
<1>3. Range(held'.stops) = Range(held.stops) \cup {row}
  BY <1>2, AppendHas DEF Appended
<1> QED BY <1>1, <1>3 DEF HeldStops

(* What is published is held, and what is held is a place if it can be.    *)
LEMMA WriteStopHoldsIt == ASSUME Orderly, WalksHold, WriteStop PROVE StopsAreHeld'
<1>1. /\ UNCHANGED <<feeds, feed, phase, used, existing, parents>>
      /\ PassesStop \/ (HoldsStop /\ (WritesNoWalk \/ WritesWalks))
  BY WriteStopIs DEF Orderly, WriteStop
<1>2. Orderly' /\ ARowFurther("stops")
  BY WriteStopHolds
<1>3. PICK row : row = First("stops")
  OBVIOUS
<1>4. /\ feed > 0 /\ feed \in Nat /\ row = feeds[feed].stops[At("stops") + 1]
      /\ row.stop \in BroughtBefore(feed + 1)
      /\ DOMAIN row = {"stop", "parent", "code"}
      /\ At("stops") \in Nat /\ At("stops")' = At("stops") + 1
  BY <1>2, <1>3, StopInHand
<1>5. Published' = Published /\ BroughtBefore(feed + 1)' = BroughtBefore(feed + 1)
  BY <1>1 DEF Published, ParentStops, BroughtBefore
<1>6. \A i \in 1 .. At("stops")' : i \in 1 .. At("stops") \/ i = At("stops") + 1
  BY <1>4
<1>7. CASE PassesStop
  <2>1. row.stop \notin Published /\ held' = held /\ places' = places
    BY <1>3, <1>7 DEF PassesStop
  <2>2. HeldStops' = HeldStops
    BY <2>1 DEF HeldStops
  <2>3. \A i \in 1 .. At("stops")' : feeds[feed].stops[i].stop \in Published =>
          feeds[feed].stops[i].stop \in HeldStops
    BY <1>4, <1>6, <2>1 DEF WalksHold, StopsAreHeld
  <2> QED BY <1>1, <1>5, <2>1, <2>2, <2>3 DEF WalksHold, StopsAreHeld
<1>8. CASE HoldsStop
  <2>1. /\ HeldStops' = HeldStops \cup {row.stop}
        /\ Range(held'.stops) = Range(held.stops) \cup {row}
    BY <1>3, <1>8, StopIsHeld
  <2>2. \/ ~IsAPlace(row.stop) /\ places' = places
        \/ IsAPlace(row.stop) /\ places' = places \cup {row.stop}
    BY <1>1, <1>3, <1>8 DEF PassesStop, HoldsStop, WritesNoWalk, WritesWalks
  <2>3. \A i \in 1 .. At("stops")' : feeds[feed].stops[i].stop \in Published =>
          feeds[feed].stops[i].stop \in HeldStops'
    BY <1>4, <1>6, <2>1 DEF WalksHold, StopsAreHeld
  <2>4. \A s \in HeldStops' : \/ s \in places' \/ s \in DOMAIN parents'
                              \/ TransferDistance = 0 \/ Located[s] = None
    <3>1. IsAPlace(row.stop) \/ \/ row.stop \in places' \/ row.stop \in DOMAIN parents
                                \/ TransferDistance = 0 \/ Located[row.stop] = None
      BY <2>2, DistanceAssumption DEF IsAPlace
    <3>2. ASSUME NEW s \in HeldStops
          PROVE  \/ s \in places' \/ s \in DOMAIN parents'
                 \/ TransferDistance = 0 \/ Located[s] = None
      BY <1>1, <2>2 DEF WalksHold, StopsAreHeld
    <3> QED BY <1>1, <2>1, <2>2, <3>1, <3>2
  <2>5. \A s \in places' : TransferDistance > 0 /\ Located[s] # None
    BY <2>2 DEF WalksHold, StopsAreHeld, IsAPlace
  <2>6. \A other \in Range(held'.stops) : DOMAIN other = {"stop", "parent", "code"}
    BY <1>4, <2>1 DEF WalksHold, StopsAreHeld
  <2>7. HeldStops' \subseteq BroughtBefore(feed + 1)' /\ places' \subseteq HeldStops'
    BY <1>4, <1>5, <2>1, <2>2 DEF WalksHold, StopsAreHeld
  <2>8. used' \subseteq IF feed' = 0 THEN {} ELSE StopIds(feeds'[feed'])
    BY <1>1 DEF WalksHold, StopsAreHeld
  <2> QED BY <1>1, <1>5, <2>3, <2>4, <2>5, <2>6, <2>7, <2>8 DEF StopsAreHeld
<1> QED BY <1>1, <1>7, <1>8

(* A place that walks are looked for from, as against those seen before.   *)
LEMMA PlaceIsNew ==
  ASSUME WalksHold, NEW s, IsAPlace(s)
  PROVE  s \notin HeldStops /\ s \notin places /\ Located[s] # None /\ TransferDistance > 0
BY DEF WalksHold, StopsAreHeld, IsAPlace

(* A place and one near it are joined, by a transfer that was there or by  *)
(* a walk.                                                                 *)
LEMMA NearPlacesAreJoined ==
  ASSUME Orderly, WalksHold, OutGrows, NEW s \in DOMAIN Located, IsAPlace(s),
         NEW walks, WroteWalks(s, walks), NEW q \in places,
         CloserThanATransfer(Located[s], Located[q])
  PROVE  Joined(s, q)' \/ Joined(q, s)'
<1>1. Located[s] \in Int \X Int /\ Located[q] \in Int \X Int /\ TransferDistance > 0
  <2>1. q \in DOMAIN Located /\ Located[q] # None
    BY BroughtAreLocated DEF WalksHold, StopsAreHeld
  <2> QED BY <2>1, LocatedAssumption DEF IsAPlace
<1>2. InTheNineCells(Located[s], Located[q])
  BY <1>1, CloserIsNear
<1>3. CASE <<s, q>> \in existing
  <2>1. Joined(s, q)
    BY <1>3 DEF WalksHold, TransfersAreKnown
  <2> QED BY <2>1, JoinedStays
<1>4. CASE <<q, s>> \in existing
  <2>1. Joined(q, s)
    BY <1>4 DEF WalksHold, TransfersAreKnown
  <2> QED BY <2>1, JoinedStays
<1>5. CASE <<s, q>> \notin existing /\ <<q, s>> \notin existing
  <2>1. q \in WalksFrom(s)
    BY <1>2, <1>5 DEF WalksFrom
  <2>2. PICK k \in 1 .. Len(walks) : walks[k] = q
    BY <2>1 DEF WroteWalks
  <2>3. out'.transfers[Len(out.transfers) + k] = Walk(s, q)
    BY <2>2 DEF WroteWalks
  <2>4. Len(out.transfers) + k \in 1 .. Len(out'.transfers)
    <3>1. /\ Len(out.transfers) \in Nat /\ Len(walks) \in Nat
          /\ Len(out'.transfers) = Len(out.transfers) + Len(walks) + Len(walks)
      BY DEF WroteWalks
    <3>2. \A a, b \in Nat : \A j \in 1 .. b : a + j \in 1 .. a + b + b
      OBVIOUS
    <3> QED BY <2>2, <3>1, <3>2
  <2>5. Joined(s, q)'
    BY <2>3, <2>4 DEF Joined, Walk
  <2> QED BY <2>5
<1> QED BY <1>3, <1>4, <1>5

LEMMA WalksKeepPlaces ==
  ASSUME Orderly, WalksHold, OutGrows, NEW s \in DOMAIN Located, IsAPlace(s),
         places' = places \cup {s}, NEW walks, WroteWalks(s, walks)
  PROVE  PlacesConnect'
<1> SUFFICES ASSUME NEW p \in places \cup {s}, NEW q \in places \cup {s}, p # q,
                    CloserThanATransfer(Located[p], Located[q])
             PROVE  Joined(p, q)' \/ Joined(q, p)'
  BY DEF PlacesConnect
<1>1. CASE p \in places /\ q \in places
  <2>1. Joined(p, q) \/ Joined(q, p)
    BY <1>1 DEF WalksHold, PlacesConnect
  <2> QED BY <2>1, JoinedStays
<1>2. CASE p = s /\ q \in places
  BY <1>2, NearPlacesAreJoined
<1>3. CASE q = s /\ p \in places
  <2>1. p \in DOMAIN Located /\ Located[p] # None /\ Located[s] # None
    BY <1>3, BroughtAreLocated DEF WalksHold, StopsAreHeld, IsAPlace
  <2>2. Located[p] \in Int \X Int /\ Located[s] \in Int \X Int
    BY <2>1, LocatedAssumption
  <2>3. CloserThanATransfer(Located[s], Located[p])
    BY <1>3, <2>2, CloserEitherWay
  <2> QED BY <1>3, <2>3, NearPlacesAreJoined
<1> QED BY <1>1, <1>2, <1>3

(* No walk is there as a transfer already: one of its stops is new, or the *)
(* feed in hand has said so.                                               *)
LEMMA WalksAreNew ==
  ASSUME WalksHold, NEW s, IsAPlace(s), NEW q \in WalksFrom(s),
         NEW row \in Range(out.transfers), row.fromTrip = None,
         \/ row.from = s /\ row.to = q
         \/ row.from = q /\ row.to = s
  PROVE  FALSE
<1>1. IsAccountedFor(row)
  BY DEF WalksHold, TransfersAreKnown
<1>2. <<s, q>> \notin existing /\ <<q, s>> \notin existing
  BY DEF WalksFrom
<1>3. {row.from, row.to} \subseteq HeldStops
  BY <1>1, <1>2 DEF IsAccountedFor
<1> QED BY <1>3, PlaceIsNew

LEMMA WalksAreOnce ==
  ASSUME Orderly, WalksHold, feeds' = feeds, NEW s, IsAPlace(s),
         NEW walks, WroteWalks(s, walks)
  PROVE  OnceOrAgain'
<1> DEFINE n == Len(out.transfers)
           m == Len(walks)
           after == out'.transfers
<1>1. /\ n \in Nat /\ m \in Nat /\ Len(after) = n + m + m
      /\ \A i \in 1 .. n : after[i] = out.transfers[i]
      /\ \A k \in 1 .. m : walks[k] \in WalksFrom(s)
      /\ \A k, l \in 1 .. m : walks[k] = walks[l] => k = l
  BY DEF WroteWalks
<1>2. s \notin places /\ \A k \in 1 .. m : walks[k] # s
  <2>1. s \notin places /\ WalksFrom(s) \subseteq places
    BY PlaceIsNew DEF WalksFrom
  <2> QED BY <1>1, <2>1
<1>3. ASSUME NEW i \in 1 .. n, NEW k \in 1 .. m, out.transfers[i].fromTrip = None,
             \/ out.transfers[i].from = s /\ out.transfers[i].to = walks[k]
             \/ out.transfers[i].from = walks[k] /\ out.transfers[i].to = s
      PROVE  FALSE
  <2>1. IsSeq(out.transfers)
    BY DEF Orderly, Typed, FilesWritten, FeedFiles
  <2>2. out.transfers[i] \in Range(out.transfers)
    BY <2>1, SequenceHas
  <2>3. walks[k] \in WalksFrom(s)
    BY <1>1
  <2> QED BY <1>3, <2>2, <2>3, WalksAreNew
<1>4. SUFFICES ASSUME NEW i \in 1 .. Len(after), NEW j \in 1 .. Len(after),
                      after[i].fromTrip = None, after[j].fromTrip = None,
                      after[i].from = after[j].from, after[i].to = after[j].to
               PROVE  i = j \/ BroughtAgain(after[i].from, after[i].to)
  BY BroughtAgainStays DEF OnceOrAgain
<1>5. ASSUME NEW k PROVE /\ Walk(s, walks[k]).from = s /\ Walk(s, walks[k]).to = walks[k]
                         /\ Walk(walks[k], s).from = walks[k] /\ Walk(walks[k], s).to = s
  BY DEF Walk
<1>6. ASSUME NEW x \in 1 .. Len(after)
      PROVE  \/ x \in 1 .. n
             \/ \E k \in 1 .. m : x = n + k /\ after[x].from = s /\ after[x].to = walks[k]
             \/ \E k \in 1 .. m : x = n + m + k /\ after[x].from = walks[k] /\ after[x].to = s
  <2>1. \/ x \in 1 .. n
        \/ \E k \in 1 .. m : x = n + k /\ after[x] = Walk(s, walks[k])
        \/ \E k \in 1 .. m : x = n + m + k /\ after[x] = Walk(walks[k], s)
    BY OldOrWalk
  <2> HIDE DEF n, m, after
  <2> QED BY <1>5, <2>1
<1> HIDE DEF n, m, after
<1>7. CASE i \in 1 .. n /\ j \in 1 .. n
  BY <1>1, <1>4, <1>7 DEF WalksHold, OnceOrAgain, n
<1>8. CASE i \in 1 .. n /\ j \notin 1 .. n
  BY <1>1, <1>3, <1>4, <1>6, <1>8
<1>9. CASE i \notin 1 .. n /\ j \in 1 .. n
  BY <1>1, <1>3, <1>4, <1>6, <1>9
<1>10. CASE i \notin 1 .. n /\ j \notin 1 .. n
  <2>1. CASE \E k \in 1 .. m : i = n + k /\ after[i].from = s /\ after[i].to = walks[k]
    <3>1. PICK k \in 1 .. m : i = n + k /\ after[i].from = s /\ after[i].to = walks[k]
      BY <2>1
    <3>2. PICK l \in 1 .. m : \/ j = n + l /\ after[j].from = s /\ after[j].to = walks[l]
                              \/ after[j].from = walks[l]
      BY <1>6, <1>10
    <3> QED BY <1>1, <1>2, <1>4, <3>1, <3>2
  <2>2. CASE \E k \in 1 .. m : i = n + m + k /\ after[i].from = walks[k] /\ after[i].to = s
    <3>1. PICK k \in 1 .. m : i = n + m + k /\ after[i].from = walks[k] /\ after[i].to = s
      BY <2>2
    <3>2. PICK l \in 1 .. m : \/ after[j].from = s
                              \/ j = n + m + l /\ after[j].from = walks[l]
      BY <1>6, <1>10
    <3> QED BY <1>1, <1>2, <1>4, <3>1, <3>2
  <2> QED BY <1>6, <1>10, <2>1, <2>2
<1> QED BY <1>7, <1>8, <1>9, <1>10

LEMMA WriteStopKeepsWalks == ASSUME Orderly, WalksHold, WriteStop PROVE WalksHold'
<1>1. /\ feeds' = feeds /\ feed' = feed /\ phase' = phase /\ existing' = existing
      /\ UNCHANGED <<used, parents>>
      /\ phase = "stops"
      /\ PassesStop \/ (HoldsStop /\ (WritesNoWalk \/ WritesWalks))
  BY WriteStopIs DEF Orderly, WriteStop, Row
<1>2. Orderly' /\ ARowFurther("stops") /\ OutGrows
  BY WriteStopHolds
<1>3. PICK s : s = First("stops").stop
  OBVIOUS
<1>4. /\ feed > 0 /\ feed \in Nat /\ s \in BroughtBefore(feed + 1) /\ s \in DOMAIN Located
      /\ At("transfers")' = At("transfers") /\ Source("transfers")' = Source("transfers")
  BY <1>2, <1>3, StopInHand
<1>5. StopsAreHeld'
  BY WriteStopHoldsIt
<1>6. Published' = Published /\ BroughtBefore(feed + 1)' = BroughtBefore(feed + 1)
  BY <1>1 DEF Published, ParentStops, BroughtBefore
<1>7. HeldStops \subseteq HeldStops'
  BY <1>1, StopIsHeld DEF PassesStop, HeldStops
<1>8. \A row : IsAccountedFor(row) => IsAccountedFor(row)'
  <2>1. PlaceOf[phase] \in Nat /\ At("transfers") \in Nat
    BY <1>4, PlacesInHand
  <2> QED BY <1>1, <1>4, <1>7, <2>1, AccountsStay
<1>9. \A e \in existing' : feed' > 0 /\ {e[1], e[2]} \subseteq Published' /\ Joined(e[1], e[2])'
  BY <1>1, <1>2, <1>6, JoinedStays DEF WalksHold, TransfersAreKnown
<1>10. CASE UNCHANGED <<places, out>>
  <2>1. PlacesConnect'
    BY <1>2, <1>10, PlacesStay DEF WalksHold
  <2>2. TransfersAreKnown'
    BY <1>8, <1>9, <1>10 DEF WalksHold, TransfersAreKnown
  <2>3. OnceOrAgain'
    BY <1>1, <1>10, BroughtAgainStays DEF WalksHold, OnceOrAgain
  <2> QED BY <1>5, <2>1, <2>2, <2>3 DEF WalksHold
<1>11. CASE HoldsStop /\ WritesWalks
  <2>1. /\ IsAPlace(s) /\ places' = places \cup {s}
        /\ out' = [out EXCEPT !.transfers =
                     @ \o WalksWritten(SetToSeq(WalksFrom(s)), s)]
    BY <1>3, <1>11 DEF WritesWalks
  <2>2. PICK walks : WroteWalks(s, walks)
    BY <2>1, WalksAreWritten
  <2>3. PlacesConnect'
    BY <1>2, <1>4, <2>1, <2>2, WalksKeepPlaces
  <2>4. OnceOrAgain'
    BY <1>1, <2>1, <2>2, WalksAreOnce
  <2>5. ASSUME NEW q \in WalksFrom(s), NEW row,
               \/ row = Walk(s, q)
               \/ row = Walk(q, s)
        PROVE  IsAccountedFor(row)'
    <3>1. q \in places
      BY DEF WalksFrom
    <3>2. q \in HeldStops /\ q \in BroughtBefore(feed + 1)
      BY <3>1 DEF WalksHold, StopsAreHeld
    <3>3. {s, q} \subseteq HeldStops' /\ {s, q} \subseteq BroughtBefore(feed + 1)'
      BY <1>3, <1>4, <1>6, <1>7, <1>11, <3>2, StopIsHeld
    <3>4. {row.from, row.to} = {s, q}
      BY <2>5 DEF Walk
    <3>5. PlaceOf["transfers"] < PlaceOf[phase']
      BY <1>1 DEF PlaceOf
    <3> QED BY <3>3, <3>4, <3>5 DEF IsAccountedFor
  <2>6. ASSUME NEW row \in Range(out'.transfers), row.fromTrip = None
        PROVE  IsAccountedFor(row)'
    <3>1. IsSeq(out'.transfers) /\ IsSeq(out.transfers)
      BY <1>2 DEF Orderly, Typed, FilesWritten, FeedFiles
    <3>2. PICK i \in 1 .. Len(out'.transfers) : out'.transfers[i] = row
      BY <3>1, SequenceHas
    <3>3. CASE i \in 1 .. Len(out.transfers)
      <4>1. row = out.transfers[i]
        BY <2>2, <3>2, <3>3 DEF WroteWalks
      <4>2. row \in Range(out.transfers)
        BY <3>1, <3>3, <4>1, SequenceHas
      <4> QED BY <1>8, <2>6, <4>2 DEF WalksHold, TransfersAreKnown
    <3>4. CASE \E k \in 1 .. Len(walks) : row = Walk(s, walks[k]) \/ row = Walk(walks[k], s)
      <4>1. PICK k \in 1 .. Len(walks) : row = Walk(s, walks[k]) \/ row = Walk(walks[k], s)
        BY <3>4
      <4>2. walks[k] \in WalksFrom(s)
        BY <2>2 DEF WroteWalks
      <4> QED BY <2>5, <4>1, <4>2
    <3> QED BY <2>2, <3>2, <3>3, <3>4, OldOrWalk
  <2>7. TransfersAreKnown'
    BY <1>9, <2>6 DEF TransfersAreKnown
  <2> QED BY <1>5, <2>3, <2>4, <2>7 DEF WalksHold
<1> QED BY <1>1, <1>10, <1>11 DEF PassesStop, WritesNoWalk

LEMMA StepKeepsWalks ==
  ASSUME Orderly, TripsHold, WalksHold, [Next]_vars, Orderly' PROVE WalksHold'
<1>1. CASE Read
  BY <1>1, ReadKeepsWalks
<1>2. CASE ReadCall
  BY <1>2, ReadCallKeepsWalks
<1>3. CASE WriteTransfer
  BY <1>3, WriteTransferKeepsWalks
<1>4. CASE WriteStop
  BY <1>4, WriteStopKeepsWalks
<1>5. ASSUME NEW file \in {"routes", "services", "trips", "points", "frequencies", "areas"},
             ARowFurther(file), UNCHANGED <<feeds, feed, phase, used, places, existing, parents>>,
             held' = held, out'.transfers = out.transfers
      PROVE  WalksHold'
  <2>1. /\ At("stops")' = At("stops") /\ At("transfers")' = At("transfers")
        /\ Source("transfers")' = Source("transfers")
    BY <1>5 DEF ARowFurther, FeedFiles
  <2>2. PlaceOf[phase] <= PlaceOf[phase']
    BY <1>5, FileNames DEF Orderly, Typed
  <2> QED BY <1>5, <2>1, <2>2, WalksAreLeft DEF SameWalks
<1>6. ASSUME NEW file \in {"routes", "services", "trips", "points", "frequencies", "areas"},
             out' = out \/ \E row : WriteRow(file, row)
      PROVE  out'.transfers = out.transfers
  BY <1>6 DEF WriteRow, Orderly, Typed, FeedFiles
<1>7. CASE WriteRoute
  BY <1>5, <1>6, <1>7, WriteRouteHolds DEF WriteRoute, memory
<1>8. CASE WriteService
  BY <1>5, <1>6, <1>8, WriteServiceHolds DEF WriteService, memory
<1>9. CASE WriteTrip
  <2>1. out' = out \/ \E row : WriteRow("trips", row)
    BY <1>9 DEF WriteTrip
  <2> QED BY <1>5, <1>6, <1>9, <2>1, WriteTripHolds DEF WriteTrip
<1>10. CASE WritePoint
  BY <1>5, <1>6, <1>10, WritePointHolds DEF WritePoint, memory
<1>11. CASE WriteFrequency
  BY <1>5, <1>6, <1>11, WriteFrequencyHolds DEF WriteFrequency, memory
<1>12. CASE WriteArea
  BY <1>5, <1>6, <1>12, WriteAreaHolds DEF WriteArea, memory
<1>13. ASSUME SameRows, UNCHANGED <<used, places, existing>>, held'.stops = held.stops,
              out'.transfers = out.transfers, DOMAIN parents \subseteq DOMAIN parents',
              PlaceOf[phase] <= PlaceOf[phase']
       PROVE  WalksHold'
  <2>1. /\ At("stops")' = At("stops") /\ At("transfers")' = At("transfers")
        /\ Source("transfers")' = Source("transfers")
        /\ feeds' = feeds /\ feed' = feed
    BY <1>13 DEF SameRows, FeedFiles
  <2> QED BY <1>13, <2>1, WalksAreLeft DEF SameWalks
<1>14. PlaceOf[phase] \in Nat /\ PlaceOf[phase'] \in Nat
  BY FileNames DEF Orderly, Typed
<1>15. CASE FlushCalls
  <2>1. WroteAll("calls", batch)
    BY <1>15, FlushCallsHolds
  <2>2. out'.transfers = out.transfers
    BY <2>1 DEF WroteAll, FeedFiles
  <2>3. SameRows
    BY <1>15 DEF FlushCalls, SameRows, At, Source
  <2> QED BY <1>13, <1>14, <1>15, <2>2, <2>3 DEF FlushCalls, memory
<1>16. CASE BeginTransfers
  <2>1. DOMAIN parents \subseteq DOMAIN parents'
    BY <1>16 DEF BeginTransfers, Assign
  <2>2. PlaceOf[phase] <= PlaceOf[phase']
    BY <1>16 DEF BeginTransfers, PlaceOf
  <2> QED BY <1>13, <1>16, <2>1, <2>2, BeginTransfersHolds DEF BeginTransfers
<1>17. CASE HoldMembers
  <2>1. PlaceOf[phase] <= PlaceOf[phase']
    BY <1>17 DEF HoldMembers, PlaceOf
  <2> QED BY <1>13, <1>17, <2>1, HoldMembersHolds DEF HoldMembers
<1>18. CASE NextFile
  <2>1. PlaceOf[phase] <= PlaceOf[phase']
    BY <1>14, <1>18, NextFileHolds
  <2> QED BY <1>13, <1>18, <2>1, NextFileHolds DEF NextFile, memory
<1>19. CASE End
  <2>1. PlaceOf[phase] <= PlaceOf[phase']
    BY <1>19 DEF End, PlaceOf
  <2>2. out'.transfers = out.transfers
    BY <1>19, EndHolds DEF FilesWritten, FeedFiles
  <2> QED BY <1>13, <1>19, <2>1, <2>2, EndHolds DEF End, memory
<1>20. CASE UNCHANGED vars
  <2>1. SameRows /\ PlaceOf[phase] <= PlaceOf[phase']
    BY <1>14, <1>20 DEF vars, hand, SameRows, At, Source
  <2> QED BY <1>13, <1>20, <2>1 DEF vars, hand, memory
<1> QED
  BY <1>1, <1>2, <1>3, <1>4, <1>7, <1>8, <1>9, <1>10, <1>11, <1>12,
     <1>15, <1>16, <1>17, <1>18, <1>19, <1>20 DEF Next

(***************************************************************************)
(* The stops written at the end are some of those held.                    *)
(***************************************************************************)
StopsWereHeld == Ended => \A row \in Range(out.stops) : row.stop \in HeldStops

LEMMA OncePerStop ==
  ASSUME NEW rows, NEW n \in Nat, DOMAIN rows = 1 .. n
  PROVE  \A row \in Range(Once(rows, LAMBDA r : r.stop)) :
           \E i \in 1 .. n : row = rows[i]
<1> DEFINE IsFirst(i) == \A j \in 1 .. i - 1 : rows[j].stop # rows[i].stop
           kept == {i \in DOMAIN rows : IsFirst(i)}
           Chosen(k) == CHOOSE i \in kept : Cardinality({j \in kept : j <= i}) = k
           once == Once(rows, LAMBDA r : r.stop)
<1>1. once = [k \in 1 .. Cardinality(kept) |-> rows[Chosen(k)]]
  BY DEF Once
<1>2. kept \in SUBSET (1 .. n)
  OBVIOUS
<1> HIDE DEF kept
<1>3. \A i \in kept : Cardinality({j \in kept : j <= i}) = Rank(kept, i)
  <2> TAKE i \in kept
  <2>1. \A j \in kept : j <= i <=> j \in 1 .. i
    BY <1>2
  <2>2. \A j \in 1 .. i : j \in kept => j <= i
    BY <1>2
  <2>3. {j \in kept : j <= i} = {j \in 1 .. i : j \in kept}
    BY <2>1, <2>2, Zenon
  <2> QED BY <2>3 DEF Rank
<1>4. ASSUME NEW k \in 1 .. Cardinality(kept) PROVE Chosen(k) \in 1 .. n
  <2>1. PICK i \in kept : Rank(kept, i) = k
    BY <1>2, RanksAreTaken, ZenonT(20)
  <2>2. Chosen(k) \in kept
    BY <1>3, <2>1
  <2> QED BY <1>2, <2>2
<1> HIDE DEF Chosen, once
<1>5. \A row \in Range(once) : \E i \in 1 .. n : row = rows[i]
  BY <1>1, <1>4 DEF Range
<1> QED BY <1>5 DEF once

LEMMA EndWritesHeld == ASSUME Orderly, WalksHold, End PROVE StopsWereHeld'
<1> DEFINE rows == [i \in DOMAIN held.stops |-> Coded(held.stops[i])]
<1>1. out'.stops = Once(rows, LAMBDA r : r.stop) /\ held' = held
  BY DEF End, Orderly, Typed, FeedFiles, memory
<1>2. IsSeq(held.stops)
  BY DEF Orderly, Typed
<1>3. Len(held.stops) \in Nat /\ DOMAIN held.stops = 1 .. Len(held.stops)
  BY <1>2, SequenceHas
<1>4. ASSUME NEW i \in 1 .. Len(held.stops) PROVE rows[i].stop \in HeldStops
  <2>1. PICK row \in Range(held.stops) : row = held.stops[i]
    BY <1>2, SequenceHas
  <2>2. DOMAIN row = {"stop", "parent", "code"}
    BY DEF WalksHold, StopsAreHeld
  <2>3. Coded(row).stop = row.stop
    BY <2>2 DEF Coded
  <2>4. rows[i] = Coded(row)
    BY <1>3, <2>1
  <2> HIDE DEF rows
  <2> QED BY <2>3, <2>4 DEF HeldStops
<1>5. DOMAIN rows = 1 .. Len(held.stops)
  BY <1>3
<1> HIDE DEF rows
<1>6. \A row \in Range(out'.stops) : \E i \in 1 .. Len(held.stops) : row = rows[i]
  <2>1. \A row \in Range(Once(rows, LAMBDA r : r.stop)) :
          \E i \in 1 .. Len(held.stops) : row = rows[i]
    BY <1>3, <1>5, OncePerStop
  <2> QED BY <1>1, <2>1
<1>7. HeldStops' = HeldStops
  BY <1>1 DEF HeldStops
<1> QED BY <1>4, <1>6, <1>7 DEF StopsWereHeld

LEMMA StepKeepsTheEnd == ASSUME Orderly, WalksHold, StopsWereHeld, [Next]_vars PROVE StopsWereHeld'
<1> SUFFICES ASSUME phase' = "ended" PROVE StopsWereHeld'
  BY DEF StopsWereHeld, Ended
<1>1. CASE End
  BY <1>1, EndWritesHeld
<1>2. CASE UNCHANGED vars
  BY <1>2 DEF vars, hand, memory, StopsWereHeld, Ended, HeldStops
<1>3. CASE Next /\ ~End
  <2>1. \/ UNCHANGED phase /\ phase \in FeedFiles
        \/ phase' \in FeedFiles \cup {"read"}
    BY <1>3 DEF Next, Read, WriteRoute, WriteService, WriteTrip, ReadCall, FlushCalls,
                WritePoint, WriteFrequency, BeginTransfers, WriteTransfer, WriteStop,
                WriteArea, HoldMembers, NextFile, Through, Row, FeedFiles
  <2> QED BY <2>1 DEF FeedFiles
<1> QED BY <1>1, <1>2, <1>3
-----------------------------------------------------------------------------
IInv == TripsAndRows /\ WalksHold /\ StopsWereHeld

LEMMA IInvAtFirst == ASSUME Init PROVE IInv
<1>1. StopsWereHeld
  BY DEF Init, StopsWereHeld, Ended
<1> QED BY <1>1, OrderlyAtFirst, TripsHoldAtFirst, RowsHoldAtFirst, WalksHoldAtFirst DEF IInv, TripsAndRows

LEMMA StepKeepsIInv == ASSUME IInv, [Next]_vars PROVE IInv'
<1>1. /\ Orderly /\ TripsHold /\ RowsHold /\ WalksHold /\ StopsWereHeld
  BY DEF IInv, TripsAndRows
<1>2. Orderly' /\ TripsHold'
  BY <1>1, StepKeepsTrips
<1>3. RowsHold'
  BY <1>1, StepKeepsRows
<1>4. WalksHold'
  BY <1>1, <1>2, StepKeepsWalks
<1>5. StopsWereHeld'
  BY <1>1, StepKeepsTheEnd
<1> QED BY <1>2, <1>3, <1>4, <1>5 DEF IInv, TripsAndRows

(***************************************************************************)
(* The maps, lists and counters of GTFSOutput, TripsMerger,                *)
(* StopsAndTransfersMerger and the file mergers agree with one another and *)
(* with the feeds read so far, after every row written.                    *)
(***************************************************************************)
THEOREM InductiveInvariant == Spec => []IInv
<1>1. Init => IInv
  BY IInvAtFirst
<1>2. IInv /\ [Next]_vars => IInv'
  BY StepKeepsIInv
<1> QED BY <1>1, <1>2, PTL DEF Spec
-----------------------------------------------------------------------------
LEMMA WalksInTheEnd == ASSUME IInv PROVE WalksBetweenPlaces
<1> SUFFICES ASSUME Ended PROVE WalksBetweenPlaces
  BY DEF WalksBetweenPlaces
<1>1. Orderly /\ WalksHold /\ StopsWereHeld
  BY DEF IInv, TripsAndRows
<1>2. Len(out.transfers) \in Nat /\ DOMAIN out.transfers = 1 .. Len(out.transfers)
  BY <1>1, AtTheEnd DEF FilesWritten, FeedFiles
<1>3. \A p, q : Joined(p, q) => ConnectsPlaces(p, q) # {}
  BY <1>2 DEF Joined, ConnectsPlaces
<1>4. ASSUME NEW p \in {s.stop : s \in Range(out.stops)} \ DOMAIN parents,
             NEW q \in {s.stop : s \in Range(out.stops)} \ DOMAIN parents,
             TransferDistance > 0, p # q, Located[p] # None, Located[q] # None,
             CloserThanATransfer(Located[p], Located[q])
      PROVE  ConnectsPlaces(p, q) \cup ConnectsPlaces(q, p) # {}
  <2>1. p \in HeldStops /\ q \in HeldStops
    BY <1>1 DEF StopsWereHeld
  <2>2. p \in places /\ q \in places
    BY <1>1, <1>4, <2>1, DistanceAssumption DEF WalksHold, StopsAreHeld
  <2>3. Joined(p, q) \/ Joined(q, p)
    BY <1>1, <1>4, <2>2 DEF WalksHold, PlacesConnect
  <2> QED BY <1>3, <2>3
<1>5. ASSUME NEW p \in DOMAIN Located, NEW q \in DOMAIN Located, ~BroughtAgain(p, q)
      PROVE  Cardinality({i \in ConnectsPlaces(p, q) :
                            out.transfers[i].fromTrip = None}) < 2
  <2> DEFINE there == {i \in ConnectsPlaces(p, q) : out.transfers[i].fromTrip = None}
  <2>1. \A i, j \in there : i = j
    <3>1. \A i \in there : /\ i \in 1 .. Len(out.transfers)
                           /\ out.transfers[i].fromTrip = None
                           /\ out.transfers[i].from = p /\ out.transfers[i].to = q
      BY <1>2 DEF ConnectsPlaces
    <3> HIDE DEF there
    <3> QED BY <1>1, <1>5, <3>1 DEF WalksHold, OnceOrAgain
  <2> HIDE DEF there
  <2>2. there = {} \/ \E i : there = {i}
    <3>1. ASSUME there # {} PROVE \E i : there = {i}
      <4>1. PICK i : i \in there
        BY <3>1
      <4>2. there = {i}
        BY <2>1, <4>1
      <4> QED BY <4>2
    <3> QED BY <3>1
  <2>3. Cardinality(there) < 2
    BY <2>2, FS_EmptySet, FS_Singleton, SMTT(20)
  <2> QED BY <2>3 DEF there
<1> QED BY <1>4, <1>5 DEF WalksBetweenPlaces

LEMMA TypesHold == ASSUME IInv PROVE TypeOK
<1>1. Orderly /\ TripsHold /\ RowsHold /\ WalksHold
  BY DEF IInv, TripsAndRows
<1>2. /\ feed \in 0 .. Len(feeds) /\ feed \in Nat
      /\ phase \in {"read", "routes", "services", "trips", "calls", "points",
                    "frequencies", "transfers", "stops", "areas", "members", "ended"}
  BY <1>1, FeedIsANumber DEF Orderly, Typed, PlaceOf
<1>3. \A file \in FilesWritten : DOMAIN out[file] = 1 .. Len(out[file])
  BY <1>1, SequenceHas DEF Orderly, Typed
<1>4. /\ DOMAIN out.routes = 1 .. Len(out.routes)
      /\ DOMAIN out.services = 1 .. Len(out.services)
      /\ DOMAIN out.trips = 1 .. Len(out.trips)
  BY <1>3 DEF FilesWritten, FeedFiles
<1>5. /\ Range(maps["routes"]) \subseteq DOMAIN out["routes"]
      /\ Range(maps["services"]) \subseteq DOMAIN out["services"]
  BY <1>1, <1>4 DEF TripsHold, RoutesMapped, ServicesMapped, Range
<1>6. Range(maps["trips"]) \subseteq DOMAIN out["trips"]
  <2>1. \A id \in DOMAIN maps.trips : maps.trips[id] \in 1 .. Len(out.trips)
    BY <1>1 DEF TripsHold, TripsMapped, Made
  <2> QED BY <1>4, <2>1 DEF Range
<1>7. ASSUME NEW part, NEW map, NEW count, PartsMapped(part, map, count)
      PROVE  /\ Range(map) \subseteq 1 .. count
             /\ \A n \in 1 .. Len(out.trips) : out.trips[n][part] \in Maybe(1 .. count)
  <2>1. ASSUME NEW f, NEW i, NEW n, Made(f, i, n)
        PROVE  /\ out.trips[n][part] = None <=> feeds[f].trips[i][part] = None
               /\ out.trips[n][part] # None => out.trips[n][part] \in 1 .. count
    <3>1. f \in 1 .. feed /\ i \in Nat /\ n \in Nat
      BY <2>1 DEF Made
    <3> QED BY <1>7, <2>1, <3>1 DEF PartsMapped
  <2>2. ASSUME NEW id \in DOMAIN map PROVE map[id] \in 1 .. count
    <3>1. PICK i \in Nat, n \in Nat : /\ id # None /\ Made(feed, i, n)
                                      /\ feeds[feed].trips[i][part] = id
                                      /\ out.trips[n][part] = map[id]
      BY <1>7 DEF PartsMapped
    <3> QED BY <2>1, <3>1
  <2>3. ASSUME NEW n \in 1 .. Len(out.trips) PROVE out.trips[n][part] \in Maybe(1 .. count)
    <3>1. PICK f, i : Made(f, i, n)
      BY <1>1 DEF TripsHold, TripsAreTrips
    <3> QED BY <2>1, <3>1 DEF Maybe
  <2> QED BY <2>2, <2>3 DEF Range
<1>8. /\ Range(maps.blocks) \subseteq 1 .. blocks /\ Range(maps.shapes) \subseteq 1 .. shapes
      /\ \A n \in 1 .. Len(out.trips) : /\ out.trips[n]["block"] \in Maybe(1 .. blocks)
                                        /\ out.trips[n]["shape"] \in Maybe(1 .. shapes)
  BY <1>1, <1>7 DEF TripsHold, BlocksMapped, ShapesMapped
<1>9. \A t \in Range(out.trips) :
        /\ t.route \in DOMAIN out.routes /\ t.service \in DOMAIN out.services
        /\ t.block \in Maybe(1 .. blocks) /\ t.shape \in Maybe(1 .. shapes)
  <2> SUFFICES ASSUME NEW n \in 1 .. Len(out.trips)
               PROVE  /\ out.trips[n].route \in DOMAIN out.routes
                      /\ out.trips[n].service \in DOMAIN out.services
                      /\ out.trips[n].block \in Maybe(1 .. blocks)
                      /\ out.trips[n].shape \in Maybe(1 .. shapes)
    BY <1>4 DEF Range
  <2> QED BY <1>1, <1>4, <1>8 DEF TripsHold, TripsAreTrips
<1>10. ASSUME NEW file \in {"calls", "frequencies"}, NEW c \in RowsOf(file)
       PROVE  c.trip \in DOMAIN out.trips
  <2>1. RowsAreKept(file, RowsOf(file))
    BY <1>1 DEF RowsHold, RowsKept, FilesOfTrips
  <2>2. PICK f, i, n : Made(f, i, n) /\ Names(file, c, n)
    BY <2>1 DEF RowsAreKept
  <2> QED BY <1>4, <2>2 DEF Made, Names
<1>11. \A c \in Range(batch) \cup Range(out.calls) \cup Range(out.frequencies) :
         c.trip \in DOMAIN out.trips
  BY <1>10 DEF RowsOf
<1>12. ASSUME NEW row \in Range(out.transfers), NEW end \in {"fromTrip", "toTrip"}
       PROVE  row[end] \in Maybe(DOMAIN out.trips)
  <2>1. row[end] # None => IsCoupling(end, row)
    BY <1>1 DEF RowsHold, CouplingsAreKept
  <2> QED BY <1>4, <2>1 DEF IsCoupling, Made, Maybe
<1>13. \A t \in Range(out.transfers) : {t.fromTrip, t.toTrip} \subseteq Maybe(DOMAIN out.trips)
  BY <1>12
<1>14. ASSUME NEW p \in Range(out.points) PROVE p.shape \in 1 .. shapes
  <2>1. RowsAreKept("points", Range(out.points))
    BY <1>1 DEF RowsHold, RowsKept, FilesOfTrips, RowsOf
  <2>2. PICK f, i, n, j : Made(f, i, n) /\ IsOf("points", f, i, j) /\ Names("points", p, n)
    BY <2>1 DEF RowsAreKept
  <2>3. p.shape = out.trips[n]["shape"] /\ feeds[f].trips[i]["shape"] # None
    BY <2>2 DEF IsOf, Names
  <2>4. f \in 1 .. feed /\ i \in Nat /\ n \in Nat
    BY <2>2 DEF Made
  <2>5. PartsMapped("shape", maps.shapes, shapes)
    BY <1>1 DEF TripsHold, ShapesMapped
  <2>6. /\ out.trips[n]["shape"] = None <=> feeds[f].trips[i]["shape"] = None
        /\ out.trips[n]["shape"] # None => out.trips[n]["shape"] \in 1 .. shapes
    BY <2>2, <2>4, <2>5 DEF PartsMapped
  <2> QED BY <2>3, <2>6
<1>15. places \subseteq {s.stop : s \in Range(held.stops)}
  BY <1>1 DEF WalksHold, StopsAreHeld, HeldStops
<1>16. used \subseteq DOMAIN Located
  <2>1. CASE feed = 0
    BY <1>1, <2>1 DEF WalksHold, StopsAreHeld
  <2>2. CASE feed # 0
    <3>1. feed > 0 /\ feed \in 1 .. feed /\ used \subseteq StopIds(feeds[feed])
      BY <1>1, <1>2, <2>2 DEF WalksHold, StopsAreHeld
    <3> QED BY <1>1, <1>2, <3>1, BroughtIs, BroughtAreLocated
  <2> QED BY <2>1, <2>2
<1> QED
  BY <1>2, <1>5, <1>6, <1>8, <1>9, <1>11, <1>13, <1>14, <1>15, <1>16 DEF TypeOK

(***************************************************************************)
(* Nothing the merge writes or remembers is of another kind than the code  *)
(* gives it: a number in a map is that of a row written or of one to come, *)
(* a block and a shape are among those counted, and the files stay lists.  *)
(***************************************************************************)
THEOREM TypeCorrectness == Spec => []TypeOK
<1>1. IInv => TypeOK
  BY TypesHold
<1> QED BY <1>1, InductiveInvariant, PTL

(***************************************************************************)
(* GTFSOutput and TripsMerger number trips, shapes and blocks anew in      *)
(* every feed: a trip of the merged feed is of one trip of one feed, with  *)
(* all the calls, frequencies and points that were its own and nobody      *)
(* else's, and no coupling but its own, though all the feeds use the same  *)
(* ids; two are of one block or shape just when they were in one feed.     *)
(***************************************************************************)
THEOREM TripsStayApart == Spec => []TripsAreTheirOwn
<1>1. IInv => TripsAreTheirOwn
  BY TripsAreTheirOwnInTheEnd DEF IInv
<1> QED BY <1>1, InductiveInvariant, PTL

(***************************************************************************)
(* CalendarMerger, FeedIndex and TripsMerger together: from the filter's   *)
(* date on, a trip of the merged feed runs on the days it ran on in its    *)
(* own, whichever feed's calendar stands for its service; and one with     *)
(* such a day left is missing only when its route was to be removed.       *)
(***************************************************************************)
THEOREM TripsRunOnTheirDays == Spec => []DaysAreKept
<1>1. IInv => DaysAreKept
  BY DaysAreKeptInTheEnd DEF IInv
<1> QED BY <1>1, InductiveInvariant, PTL

(***************************************************************************)
(* StopsAndTransfersMerger.addNearbyStops: two places published that are   *)
(* closer than a transfer are connected at the end, whichever feeds they   *)
(* came from and in whatever order the grid gave them; and unless a feed   *)
(* brings both of two stops again, no transfer for no trips is between     *)
(* them twice.                                                             *)
(***************************************************************************)
THEOREM PlacesAreConnectedOnce == Spec => []WalksBetweenPlaces
<1>1. IInv => WalksBetweenPlaces
  BY WalksInTheEnd
<1> QED BY <1>1, InductiveInvariant, PTL

=============================================================================
