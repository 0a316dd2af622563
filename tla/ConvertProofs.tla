------------------------ MODULE ConvertProofs ------------------------
(***************************************************************************)
(* Proofs about the conversion of transxchange2gtfs, for any files, any    *)
(* buffer size and any bank holidays. What a profile's calendar runs on    *)
(* comes first; then lists, for the queues and the rows; then the          *)
(* inductive invariant in five parts, and the theorems.                    *)
(***************************************************************************)
EXTENDS Convert, DeliverFeed, FiniteSetTheorems, WellFoundedInduction, TLAPS

LEMMA LeastExists ==
  ASSUME NEW S \in SUBSET Nat, S # {}
  PROVE  \E x \in S : \A y \in S : x <= y
<1>1. PICK x \in S : \A y \in S : ~(<<y, x>> \in OpToRel(<, Nat))
  BY NatLessThanWellFounded, WFMin
<1>2. \A y \in S : ~(y < x)
  BY <1>1 DEF OpToRel
<1> QED BY <1>2

ACalendar ==
  [days : SUBSET Nat, start : Int, end : Int, excludes : SUBSET Int,
   includes : SUBSET Int]

RegularlyRuns(calendar) ==
  RegularDays(calendar, calendar.start .. calendar.end) \ calendar.excludes

LEMMA RegularlyRunsOn ==
  ASSUME NEW calendar, NEW d
  PROVE  d \in RegularlyRuns(calendar)
           <=> /\ d \in (calendar.start .. calendar.end)
               /\ (d % DaysInAWeek) \in calendar.days
               /\ ~(d \in calendar.excludes)
BY Zenon DEF RegularlyRuns, RegularDays

(***************************************************************************)
(* getCalendar: a break shorter than the limit, in a calendar that has not *)
(* run out, takes from it the days of the break and no others, be it at    *)
(* the start, at the end or in between.                                    *)
(***************************************************************************)
THEOREM ABreakTakesItsDays ==
  ASSUME NEW profile, NEW calendar \in ACalendar, NEW break \in [start : Int, end : Int],
         profile.days = calendar.days,
         calendar.start <= break.start, break.start <= break.end,
         break.end <= calendar.end, break.end < FarFuture,
         break.end - break.start < LongBreak
  PROVE  RegularlyRuns(WithoutBreak(profile, calendar, break)) =
           RegularlyRuns(calendar) \ (break.start .. break.end)
<1> DEFINE after == WithoutBreak(profile, calendar, break)
<1>0. /\ calendar.start \in Int /\ calendar.end \in Int
      /\ break.start \in Int /\ break.end \in Int
      /\ FarFuture \in Nat /\ LongBreak \in Nat
  BY JourneyCalendarAssumption DEF ACalendar
<1>1. CASE break.start <= calendar.start
  <2>1. after = [calendar EXCEPT !.start = break.end + 1]
    BY <1>1 DEF WithoutBreak
  <2>2. /\ after.start = break.end + 1 /\ after.end = calendar.end
        /\ after.days = calendar.days /\ after.excludes = calendar.excludes
    BY <2>1 DEF ACalendar
  <2>3. after.start .. after.end =
          (calendar.start .. calendar.end) \ (break.start .. break.end)
    BY <1>0, <1>1, <2>2
  <2>4. RegularlyRuns(after) = RegularlyRuns(calendar) \ (break.start .. break.end)
    <3> HIDE DEF after
    <3>1. ASSUME NEW d
          PROVE  d \in RegularlyRuns(after)
                   <=> d \in RegularlyRuns(calendar) \ (break.start .. break.end)
      <4>1. d \in (after.start .. after.end)
              <=> /\ d \in (calendar.start .. calendar.end)
                  /\ ~(d \in (break.start .. break.end))
        BY <2>3, Zenon
      <4>2. d \in RegularlyRuns(after)
              <=> /\ d \in (after.start .. after.end)
                  /\ (d % DaysInAWeek) \in calendar.days
                  /\ ~(d \in calendar.excludes)
        BY <2>2, RegularlyRunsOn, Zenon
      <4> QED BY <4>1, <4>2, RegularlyRunsOn, Zenon
    <3> QED BY <3>1
  <2> QED BY <2>4
<1>2. CASE ~(break.start <= calendar.start) /\ break.end >= calendar.end
  <2>1. after = [calendar EXCEPT !.end = break.start - 1]
    BY <1>2 DEF WithoutBreak
  <2>2. /\ after.start = calendar.start /\ after.end = break.start - 1
        /\ after.days = calendar.days /\ after.excludes = calendar.excludes
    BY <2>1 DEF ACalendar
  <2>3. after.start .. after.end =
          (calendar.start .. calendar.end) \ (break.start .. break.end)
    BY <1>0, <1>2, <2>2
  <2>4. RegularlyRuns(after) = RegularlyRuns(calendar) \ (break.start .. break.end)
    <3> HIDE DEF after
    <3>1. ASSUME NEW d
          PROVE  d \in RegularlyRuns(after)
                   <=> d \in RegularlyRuns(calendar) \ (break.start .. break.end)
      <4>1. d \in (after.start .. after.end)
              <=> /\ d \in (calendar.start .. calendar.end)
                  /\ ~(d \in (break.start .. break.end))
        BY <2>3, Zenon
      <4>2. d \in RegularlyRuns(after)
              <=> /\ d \in (after.start .. after.end)
                  /\ (d % DaysInAWeek) \in calendar.days
                  /\ ~(d \in calendar.excludes)
        BY <2>2, RegularlyRunsOn, Zenon
      <4> QED BY <4>1, <4>2, RegularlyRunsOn, Zenon
    <3> QED BY <3>1
  <2> QED BY <2>4
<1>3. CASE ~(break.start <= calendar.start) /\ ~(break.end >= calendar.end)
  <2>1. after = [calendar EXCEPT !.excludes =
                   @ \cup RegularDays(profile, break.start .. break.end)]
    BY <1>0, <1>3 DEF WithoutBreak
  <2>2. /\ after.start = calendar.start /\ after.end = calendar.end
        /\ after.days = calendar.days
        /\ after.excludes = calendar.excludes \cup
                              RegularDays(profile, break.start .. break.end)
    BY <2>1 DEF ACalendar
  <2>4. RegularlyRuns(after) = RegularlyRuns(calendar) \ (break.start .. break.end)
    <3> HIDE DEF after
    <3>1. ASSUME NEW d
          PROVE  d \in RegularlyRuns(after)
                   <=> d \in RegularlyRuns(calendar) \ (break.start .. break.end)
      <4>1. d \in RegularDays(profile, break.start .. break.end)
              <=> /\ d \in (break.start .. break.end)
                  /\ (d % DaysInAWeek) \in calendar.days
        BY Zenon DEF RegularDays
      <4>2. d \in RegularlyRuns(after)
              <=> /\ d \in (calendar.start .. calendar.end)
                  /\ (d % DaysInAWeek) \in calendar.days
                  /\ ~(d \in calendar.excludes)
                  /\ ~(d \in RegularDays(profile, break.start .. break.end))
        <5>1. d \in RegularlyRuns(after)
                <=> /\ d \in (after.start .. after.end)
                    /\ (d % DaysInAWeek) \in after.days
                    /\ ~(d \in after.excludes)
          BY RegularlyRunsOn, Zenon
        <5> QED BY <5>1, <2>2, Zenon
      <4> QED BY <4>1, <4>2, RegularlyRunsOn, Zenon
    <3> QED BY <3>1
  <2> QED BY <2>4
<1> QED BY <1>1, <1>2, <1>3

(***************************************************************************)
(* getCalendar: a break that has ended before the calendar starts makes it *)
(* start the day after the break, so that the days in between run which    *)
(* nobody asked for.                                                       *)
(***************************************************************************)
THEOREM ABreakBeforeAddsDays ==
  ASSUME NEW profile, NEW calendar \in ACalendar, NEW break \in [start : Int, end : Int],
         break.start <= break.end, break.end < calendar.start,
         calendar.start <= calendar.end
  PROVE  RegularDays(calendar, (break.end + 1) .. (calendar.start - 1)) \ calendar.excludes
           \subseteq RegularlyRuns(WithoutBreak(profile, calendar, break))
<1> DEFINE after == WithoutBreak(profile, calendar, break)
<1>0. /\ calendar.start \in Int /\ calendar.end \in Int
      /\ break.start \in Int /\ break.end \in Int
  BY DEF ACalendar
<1>1. after = [calendar EXCEPT !.start = break.end + 1]
  BY <1>0 DEF WithoutBreak
<1>2. /\ after.start = break.end + 1 /\ after.end = calendar.end
      /\ after.days = calendar.days /\ after.excludes = calendar.excludes
  BY <1>1 DEF ACalendar
<1>3. ((break.end + 1) .. (calendar.start - 1)) \subseteq (after.start .. after.end)
  BY <1>0, <1>2
<1>4. RegularDays(calendar, (break.end + 1) .. (calendar.start - 1)) \ calendar.excludes
        \subseteq RegularlyRuns(after)
  <2> HIDE DEF after
  <2>1. ASSUME NEW d,
               d \in RegularDays(calendar, (break.end + 1) .. (calendar.start - 1)),
               ~(d \in calendar.excludes)
        PROVE  d \in RegularlyRuns(after)
    <3>1. /\ d \in ((break.end + 1) .. (calendar.start - 1))
          /\ (d % DaysInAWeek) \in calendar.days
      BY <2>1, Zenon DEF RegularDays
    <3>2. d \in (after.start .. after.end)
      BY <1>3, <3>1, Zenon
    <3>3. (d % DaysInAWeek) \in after.days /\ ~(d \in after.excludes)
      BY <1>2, <2>1, <3>1, Zenon
    <3> QED BY <3>2, <3>3, RegularlyRunsOn, Zenon
  <2> QED BY <2>1
<1> QED BY <1>4

(***************************************************************************)
(* getCalendar takes the breaks one after the other.                       *)
(***************************************************************************)
NoBreakYet(profile, period) ==
  [days |-> profile.days, start |-> period.start, end |-> period.end,
   excludes |-> {}, includes |-> {}]

BreakByBreak(profile, period, after, n) ==
  /\ after[0] = NoBreakYet(profile, period)
  /\ \A i \in 1 .. n : after[i] = WithoutBreak(profile, after[i - 1], profile.breaks[i])

LEMMA BreaksAreTaken ==
  ASSUME NEW profile, NEW period, Len(profile.breaks) \in Nat
  PROVE  \E after : /\ BreakByBreak(profile, period, after, Len(profile.breaks))
                    /\ AfterBreaks(profile, period) = after[Len(profile.breaks)]
<1> DEFINE Body(f, n) ==
             [i \in 0 .. n |-> IF i = 0 THEN NoBreakYet(profile, period)
                               ELSE WithoutBreak(profile, f[i - 1], profile.breaks[i])]
           Fails == {n \in Nat : \A f : f # Body(f, n)}
           number == Len(profile.breaks)
<1>1. Fails = {}
  <2> SUFFICES ASSUME Fails # {} PROVE FALSE
    OBVIOUS
  <2>1. PICK n \in Fails : \A y \in Fails : n <= y
    <3>1. Fails \in SUBSET Nat
      OBVIOUS
    <3> HIDE DEF Fails
    <3> QED BY <3>1, LeastExists
  <2>2. n # 0
    <3> DEFINE g == [i \in 0 .. 0 |-> NoBreakYet(profile, period)]
    <3>1. g = Body(g, 0)
      OBVIOUS
    <3> QED BY <3>1
  <2>3. PICK f : f = Body(f, n - 1)
    <3>1. n - 1 \in Nat /\ ~(n <= n - 1)
      BY <2>2
    <3>2. n - 1 \notin Fails
      BY <2>1, <3>1
    <3> QED BY <3>1, <3>2
  <2> DEFINE g == [i \in 0 .. n |->
                     IF i = n THEN WithoutBreak(profile, f[n - 1], profile.breaks[n]) ELSE f[i]]
  <2>4. ASSUME NEW i \in 0 .. n
        PROVE  g[i] = IF i = 0 THEN NoBreakYet(profile, period)
                      ELSE WithoutBreak(profile, g[i - 1], profile.breaks[i])
    <3>1. CASE i = n
      <4>1. g[i] = WithoutBreak(profile, f[n - 1], profile.breaks[n]) /\ g[i - 1] = f[n - 1]
        BY <2>2, <3>1
      <4> HIDE DEF g
      <4> QED BY <2>2, <3>1, <4>1
    <3>2. CASE i # n
      <4>1. g[i] = f[i] /\ i \in 0 .. n - 1
        BY <3>2
      <4>2. f[i] = IF i = 0 THEN NoBreakYet(profile, period)
                   ELSE WithoutBreak(profile, f[i - 1], profile.breaks[i])
        BY <2>3, <4>1
      <4>3. i # 0 => g[i - 1] = f[i - 1]
        BY <3>2
      <4> HIDE DEF g
      <4> QED BY <4>1, <4>2, <4>3
    <3> QED BY <3>1, <3>2
  <2>5. g = Body(g, n)
    <3>1. DOMAIN g = 0 .. n /\ g = [i \in 0 .. n |-> g[i]]
      OBVIOUS
    <3> HIDE DEF g
    <3> QED BY <2>4, <3>1
  <2> HIDE DEF g, Body
  <2> QED BY <2>5
<1>2. PICK f : f = Body(f, number)
  <2> HIDE DEF Body
  <2> QED BY <1>1
<1> DEFINE after == CHOOSE g : g = Body(g, number)
<1>3. after = Body(after, number)
  <2> HIDE DEF Body
  <2> QED BY <1>2
<1>4. AfterBreaks(profile, period) = after[number]
  BY DEF AfterBreaks, NoBreakYet
<1> HIDE DEF after
<1>5. BreakByBreak(profile, period, after, number)
  BY <1>3 DEF BreakByBreak
<1> QED BY <1>4, <1>5

BreaksUpto(profile, n) ==
  UNION {profile.breaks[j].start .. profile.breaks[j].end : j \in 1 .. n}

(* What is left of the period by the first breaks of a profile.            *)
LeftBy(profile, period, calendar, n) ==
  /\ calendar \in ACalendar
  /\ calendar.days = profile.days /\ calendar.includes = {}
  /\ period.start <= calendar.start /\ calendar.end <= period.end
  /\ (period.start .. period.end) \ BreaksUpto(profile, n)
       \subseteq calendar.start .. calendar.end
  /\ calendar.excludes \subseteq BreaksUpto(profile, n)
  /\ RegularlyRuns(calendar) =
       RegularDays(profile, period.start .. period.end) \ BreaksUpto(profile, n)

LEMMA NoBreakLeavesAll ==
  ASSUME NEW profile, IsAProfile(profile), NEW period \in [start : Int, end : Int]
  PROVE  LeftBy(profile, period, NoBreakYet(profile, period), 0)
<1> DEFINE calendar == NoBreakYet(profile, period)
<1>1. BreaksUpto(profile, 0) = {}
  BY DEF BreaksUpto
<1>2. /\ calendar.days = profile.days /\ calendar.includes = {} /\ calendar.excludes = {}
      /\ calendar.start = period.start /\ calendar.end = period.end
      /\ calendar \in ACalendar
  BY DEF NoBreakYet, ACalendar, IsAProfile
<1> HIDE DEF calendar
<1>3. RegularlyRuns(calendar) = RegularDays(profile, period.start .. period.end)
  BY <1>2 DEF RegularlyRuns, RegularDays
<1> QED BY <1>1, <1>2, <1>3 DEF LeftBy, calendar

LEMMA MemberOfSeq == ASSUME NEW S, NEW s \in Seq(S), NEW i \in 1 .. Len(s) PROVE s[i] \in S
OBVIOUS

LEMMA BreaksHaveDates ==
  ASSUME NEW profile, IsAProfile(profile), NEW i \in 1 .. Len(profile.breaks)
  PROVE  /\ profile.breaks[i] \in [start : Int, end : Int]
         /\ profile.breaks[i].start \in Int /\ profile.breaks[i].end \in Int
<1>1. profile.breaks[i] \in [start : Int, end : Int]
  BY MemberOfSeq, Zenon DEF IsAProfile
<1>2. \A b \in [start : Int, end : Int] : b.start \in Int /\ b.end \in Int
  OBVIOUS
<1> QED BY <1>1, <1>2

LEMMA OneMoreBreak ==
  ASSUME NEW profile, IsAProfile(profile), NEW period \in [start : Int, end : Int],
         IsPlain(profile, period),
         NEW n \in 1 .. Len(profile.breaks), NEW calendar,
         LeftBy(profile, period, calendar, n - 1)
  PROVE  LeftBy(profile, period, WithoutBreak(profile, calendar, profile.breaks[n]), n)
<1> DEFINE break == profile.breaks[n]
           after == WithoutBreak(profile, calendar, break)
           days == break.start .. break.end
<1>1. /\ profile.breaks \in Seq([start : Int, end : Int]) /\ profile.days \subseteq Nat
      /\ DOMAIN profile.breaks = 1 .. Len(profile.breaks) /\ Len(profile.breaks) \in Nat
  BY DEF IsAProfile
<1>2. break \in [start : Int, end : Int] /\ break.start \in Int /\ break.end \in Int
  BY BreaksHaveDates
<1>3. /\ period.start <= break.start /\ break.start <= break.end
      /\ break.end <= period.end /\ break.end < FarFuture
      /\ break.end - break.start < LongBreak
      /\ \A j \in 1 .. n - 1 : \/ profile.breaks[j].end < break.start
                               \/ break.end < profile.breaks[j].start
  BY <1>1 DEF IsPlain
<1>4. /\ calendar \in ACalendar /\ calendar.start \in Int /\ calendar.end \in Int
      /\ calendar.days = profile.days /\ calendar.includes = {}
      /\ period.start <= calendar.start /\ calendar.end <= period.end
      /\ (period.start .. period.end) \ BreaksUpto(profile, n - 1)
           \subseteq calendar.start .. calendar.end
      /\ calendar.excludes \subseteq BreaksUpto(profile, n - 1)
      /\ RegularlyRuns(calendar) =
           RegularDays(profile, period.start .. period.end) \ BreaksUpto(profile, n - 1)
  BY DEF LeftBy, ACalendar
<1>5. BreaksUpto(profile, n) = BreaksUpto(profile, n - 1) \cup days
  <2>1. 1 .. n = (1 .. n - 1) \cup {n}
    OBVIOUS
  <2> QED BY <2>1 DEF BreaksUpto
<1> HIDE DEF break
<1>6. \A d \in days : d \notin BreaksUpto(profile, n - 1)
  <2> TAKE d \in days
  <2>1. ASSUME NEW j \in 1 .. n - 1, d \in profile.breaks[j].start .. profile.breaks[j].end
        PROVE  FALSE
    <3>1. j \in 1 .. Len(profile.breaks)
      BY <1>1
    <3>2. profile.breaks[j].start \in Int /\ profile.breaks[j].end \in Int
      BY <3>1, BreaksHaveDates
    <3>3. d \in break.start .. break.end
      OBVIOUS
    <3>4. profile.breaks[j].end < break.start \/ break.end < profile.breaks[j].start
      BY <1>3
    <3> QED BY ONLY <1>2, <2>1, <3>2, <3>3, <3>4
  <2> QED BY <2>1 DEF BreaksUpto
<1>7. calendar.start <= break.start /\ break.end <= calendar.end
  <2>1. break.start \in days /\ break.end \in days
    BY <1>2, <1>3
  <2>2. break.start \in period.start .. period.end /\ break.end \in period.start .. period.end
    BY <1>2, <1>3
  <2>3. break.start \in calendar.start .. calendar.end /\ break.end \in calendar.start .. calendar.end
    BY <1>4, <1>6, <2>1, <2>2
  <2> QED BY <2>3
<1>8. RegularlyRuns(after) = RegularlyRuns(calendar) \ days
  BY <1>2, <1>3, <1>4, <1>7, ABreakTakesItsDays
<1>9. /\ after \in ACalendar
      /\ after.days = profile.days /\ after.includes = {}
      /\ period.start <= after.start /\ after.end <= period.end
      /\ (calendar.start .. calendar.end) \ days \subseteq after.start .. after.end
      /\ after.excludes \subseteq calendar.excludes \cup days
  <2>0. FarFuture \in Nat /\ LongBreak \in Nat
    BY JourneyCalendarAssumption
  <2>1. CASE break.start <= calendar.start
    <3>1. after = [calendar EXCEPT !.start = break.end + 1]
      BY <2>1 DEF WithoutBreak
    <3> HIDE DEF after
    <3>2. /\ after \in ACalendar /\ after.days = calendar.days /\ after.start = break.end + 1
          /\ after.end = calendar.end /\ after.includes = calendar.includes
          /\ after.excludes = calendar.excludes
      BY <1>2, <1>4, <3>1 DEF ACalendar
    <3>3. (calendar.start .. calendar.end) \ days \subseteq after.start .. after.end
      BY <1>2, <1>3, <1>4, <1>7, <2>1, <3>2
    <3> QED BY <1>2, <1>3, <1>4, <3>2, <3>3
  <2>2. CASE ~(break.start <= calendar.start) /\ break.end >= calendar.end
    <3>1. after = [calendar EXCEPT !.end = break.start - 1]
      BY <2>2 DEF WithoutBreak
    <3> HIDE DEF after
    <3>2. /\ after \in ACalendar /\ after.days = calendar.days /\ after.end = break.start - 1
          /\ after.start = calendar.start /\ after.includes = calendar.includes
          /\ after.excludes = calendar.excludes
      BY <1>2, <1>4, <3>1 DEF ACalendar
    <3>3. (calendar.start .. calendar.end) \ days \subseteq after.start .. after.end
      BY <1>2, <1>3, <1>4, <1>7, <2>2, <3>2
    <3> QED BY <1>2, <1>3, <1>4, <1>7, <3>2, <3>3
  <2>3. CASE ~(break.start <= calendar.start) /\ ~(break.end >= calendar.end)
    <3>1. after = [calendar EXCEPT !.excludes = @ \cup RegularDays(profile, days)]
      BY <1>2, <1>3, <1>4, <2>0, <2>3 DEF WithoutBreak
    <3>2. RegularDays(profile, days) \subseteq days /\ days \subseteq Int
      BY <1>2 DEF RegularDays
    <3> HIDE DEF after, days
    <3> QED BY <1>3, <1>4, <3>1, <3>2 DEF ACalendar
  <2> QED BY <2>1, <2>2, <2>3
<1> HIDE DEF after, days
<1>10. (period.start .. period.end) \ BreaksUpto(profile, n) \subseteq after.start .. after.end
  BY <1>4, <1>5, <1>9
<1>11. after.excludes \subseteq BreaksUpto(profile, n)
  BY <1>4, <1>5, <1>9
<1>12. RegularlyRuns(after) =
         RegularDays(profile, period.start .. period.end) \ BreaksUpto(profile, n)
  BY <1>4, <1>5, <1>8
<1>13. LeftBy(profile, period, after, n)
  BY <1>9, <1>10, <1>11, <1>12 DEF LeftBy
<1> QED BY <1>13 DEF after, break

LEMMA BreaksLeave ==
  ASSUME NEW profile, IsAProfile(profile), NEW period \in [start : Int, end : Int],
         IsPlain(profile, period)
  PROVE  LeftBy(profile, period, AfterBreaks(profile, period), Len(profile.breaks))
<1> DEFINE number == Len(profile.breaks)
<1>1. number \in Nat
  BY DEF IsAProfile
<1>2. PICK after : /\ BreakByBreak(profile, period, after, number)
                   /\ AfterBreaks(profile, period) = after[number]
  BY <1>1, BreaksAreTaken
<1> DEFINE Fails == {n \in 0 .. number : ~LeftBy(profile, period, after[n], n)}
<1> HIDE DEF number
<1>3. Fails = {}
  <2> SUFFICES ASSUME Fails # {} PROVE FALSE
    OBVIOUS
  <2>1. PICK n \in Fails : \A y \in Fails : n <= y
    <3>1. Fails \in SUBSET Nat
      BY <1>1
    <3> HIDE DEF Fails
    <3> QED BY <3>1, LeastExists
  <2>2. n # 0
    BY <1>2, NoBreakLeavesAll DEF BreakByBreak
  <2>3. n - 1 \in 0 .. number /\ n \in 1 .. number /\ n - 1 \notin Fails
    BY <1>1, <2>1, <2>2
  <2>4. LeftBy(profile, period, after[n - 1], n - 1)
    BY <2>3
  <2>5. after[n] = WithoutBreak(profile, after[n - 1], profile.breaks[n])
    BY <1>2, <2>3 DEF BreakByBreak
  <2>6. LeftBy(profile, period, after[n], n)
    BY <2>3, <2>4, <2>5, OneMoreBreak DEF number
  <2> QED BY <2>6
<1> QED BY <1>1, <1>2, <1>3 DEF number

(***************************************************************************)
(* getCalendar and the rows of CalendarStream and CalendarDatesStream: for *)
(* any number of breaks, in any order, that are short, apart and within    *)
(* the period, a journey runs on the regular days that are in no break and *)
(* no holiday off, and on its holidays on.                                 *)
(***************************************************************************)
THEOREM CalendarsRunAsAsked ==
  ASSUME NEW profile, IsAProfile(profile), NEW period \in [start : Int, end : Int],
         IsPlain(profile, period), NEW row,
         row.days = GetCalendar(profile, period).days,
         row.start = GetCalendar(profile, period).start,
         row.end = GetCalendar(profile, period).end
  PROVE  RunsAsAsked(profile, period, DaysRun(row, DateRows(GetCalendar(profile, period))))
<1> DEFINE calendar == AfterBreaks(profile, period)
           given == GetCalendar(profile, period)
           Off == UNION {BankHolidays[h] : h \in profile.holidaysOff}
           On == UNION {BankHolidays[h] : h \in profile.holidaysOn}
           dates == period.start .. period.end
           range == calendar.start .. calendar.end
           days == DaysRun(row, DateRows(given))
<1>1. LeftBy(profile, period, calendar, Len(profile.breaks))
  BY BreaksLeave
<1>2. BreaksUpto(profile, Len(profile.breaks)) = Breaks(profile)
  <2>1. DOMAIN profile.breaks = 1 .. Len(profile.breaks)
    BY DEF IsAProfile
  <2> QED BY <2>1 DEF BreaksUpto, Breaks
<1> HIDE DEF calendar
<1>3. /\ calendar \in ACalendar /\ calendar.days = profile.days
      /\ dates \ Breaks(profile) \subseteq range
      /\ calendar.excludes \subseteq Breaks(profile)
      /\ RegularlyRuns(calendar) = RegularDays(profile, dates) \ Breaks(profile)
  BY <1>1, <1>2 DEF LeftBy
<1>4. range \subseteq dates
  BY <1>1 DEF LeftBy, ACalendar
<1>5. given = [calendar EXCEPT !.excludes = @ \cup (Off \cap range), !.includes = On \cap range]
  BY Zenon DEF GetCalendar, HolidayDates, calendar
<1> HIDE DEF given
<1>6. /\ given.excludes = calendar.excludes \cup (Off \cap range)
      /\ given.includes = On \cap range
      /\ row.days = profile.days /\ row.start = calendar.start /\ row.end = calendar.end
  BY <1>3, <1>5 DEF ACalendar, given
<1>7. ASSUME NEW d
      PROVE  d \in days <=> /\ d \in RegularDays(profile, range) \/ d \in On \cap range
                           /\ d \notin calendar.excludes
                           /\ d \notin Off \cap range
  <2>1. RegularDays(row, row.start .. row.end) = RegularDays(profile, range)
    BY <1>6 DEF RegularDays
  <2> HIDE DEF range, On, Off
  <2> QED BY <1>6, <2>1 DEF DaysRun, DateRows
<1>8. ASSUME NEW d
      PROVE  /\ d \in RegularDays(profile, range) => d \in range /\ d \in RegularDays(profile, dates)
             /\ d \in RegularDays(profile, dates) /\ d \in range =>
                  d \in RegularDays(profile, range)
             /\ d \in RegularDays(profile, dates) => d \in dates
  BY <1>4 DEF RegularDays
<1>9. ASSUME NEW d
      PROVE  d \in RegularDays(profile, range) /\ d \notin calendar.excludes
               <=> d \in RegularDays(profile, dates) /\ d \notin Breaks(profile)
  <2>1. RegularlyRuns(calendar) = RegularDays(profile, range) \ calendar.excludes
    BY <1>3 DEF RegularlyRuns, RegularDays
  <2> QED BY <1>3, <2>1
<1> HIDE DEF days, On, Off, range, dates
<1>10. days \subseteq RegularDays(profile, dates) \cup (On \cap dates)
  BY <1>4, <1>7, <1>8
<1>11. days \cap Off = {}
  BY <1>7, <1>8
<1>12. days \cap RegularDays(profile, dates) \cap Breaks(profile) = {}
  BY <1>7, <1>8, <1>9
<1>13. ((RegularDays(profile, dates) \cup (On \cap dates)) \ Breaks(profile)) \ Off
         \subseteq days
  <2> SUFFICES ASSUME NEW d, d \in RegularDays(profile, dates) \/ d \in On \cap dates,
                      d \notin Breaks(profile), d \notin Off
               PROVE  d \in days
    OBVIOUS
  <2>1. d \in dates /\ d \in range /\ d \notin calendar.excludes
    BY <1>3, <1>8
  <2> QED BY <1>7, <1>8, <2>1
<1> QED BY <1>10, <1>11, <1>12, <1>13 DEF RunsAsAsked, days, given, On, Off, dates

-----------------------------------------------------------------------------
(***************************************************************************)
(* Lists. A list is a sequence of its own members: nothing is known of     *)
(* what the documents hold, so no other set is named.                      *)
(***************************************************************************)

LEMMA SequenceHas ==
  ASSUME NEW s, IsAList(s)
  PROVE  /\ Len(s) \in Nat /\ DOMAIN s = 1 .. Len(s)
         /\ \A i \in 1 .. Len(s) : s[i] \in Range(s)
         /\ \A x \in Range(s) : \E i \in 1 .. Len(s) : s[i] = x
<1>1. Len(s) \in Nat /\ DOMAIN s = 1 .. Len(s)
  BY DEF IsAList
<1> QED BY <1>1 DEF Range

LEMMA ListIsAList ==
  ASSUME NEW n \in Nat, NEW s, DOMAIN s = 1 .. n, s = [i \in 1 .. n |-> s[i]]
  PROVE  IsAList(s) /\ Len(s) = n
<1>1. \A i \in 1 .. n : s[i] \in Range(s)
  BY DEF Range
<1>2. s \in [1 .. n -> Range(s)]
  BY <1>1
<1> QED BY <1>2 DEF IsAList

LEMMA OfItsMembers == ASSUME NEW S, NEW s \in Seq(S) PROVE IsAList(s)
<1>1. Len(s) \in Nat /\ s \in [1 .. Len(s) -> S] /\ DOMAIN s = 1 .. Len(s)
  OBVIOUS
<1>2. s = [i \in 1 .. Len(s) |-> s[i]]
  BY <1>1
<1> QED BY <1>1, <1>2, ListIsAList

Appended(after, s, x) ==
  /\ IsAList(after)
  /\ Len(after) = Len(s) + 1
  /\ \A i \in 1 .. Len(s) : after[i] = s[i]
  /\ after[Len(s) + 1] = x
  /\ Range(after) = Range(s) \cup {x}

LEMMA AppendHas ==
  ASSUME NEW s, IsAList(s), NEW x
  PROVE  Appended(Append(s, x), s, x)
<1> DEFINE S == Range(s) \cup {x}
           after == Append(s, x)
<1>1. s \in Seq(S) /\ x \in S /\ Len(s) \in Nat
  BY DEF IsAList
<1>2. /\ after \in Seq(S) /\ Len(after) = Len(s) + 1
      /\ \A i \in 1 .. Len(s) : after[i] = s[i]
      /\ after[Len(s) + 1] = x
  BY <1>1
<1> HIDE DEF after
<1>3. DOMAIN after = 1 .. Len(s) + 1 /\ DOMAIN s = 1 .. Len(s)
  BY <1>1, <1>2
<1>4. Range(after) = S
  <2>1. ASSUME NEW y \in Range(after) PROVE y \in S
    <3>1. PICK i \in DOMAIN after : after[i] = y
      BY DEF Range
    <3> QED BY <1>2, <3>1
  <2>2. ASSUME NEW y \in S PROVE y \in Range(after)
    <3>1. CASE y = x
      BY <1>1, <1>2, <1>3, <3>1 DEF Range
    <3>2. CASE y \in Range(s)
      <4>1. PICK i \in DOMAIN s : s[i] = y
        BY <3>2 DEF Range
      <4> QED BY <1>1, <1>2, <1>3, <4>1 DEF Range
    <3> QED BY <3>1, <3>2
  <2> QED BY <2>1, <2>2
<1>5. IsAList(after)
  BY <1>2, <1>4 DEF IsAList
<1> QED BY <1>2, <1>4, <1>5 DEF Appended, after

LEMMA TailHas ==
  ASSUME NEW s, IsAList(s), s # <<>>
  PROVE  /\ IsAList(Tail(s)) /\ Len(s) \in Nat \ {0}
         /\ Len(Tail(s)) = Len(s) - 1
         /\ \A i \in 1 .. Len(s) - 1 : Tail(s)[i] = s[i + 1]
         /\ Head(s) = s[1]
<1>1. s \in Seq(Range(s)) /\ Len(s) \in Nat \ {0} /\ DOMAIN s = 1 .. Len(s)
  BY DEF IsAList
<1>2. /\ Len(Tail(s)) = Len(s) - 1
      /\ Tail(s) \in Seq(Range(s))
      /\ Head(s) = s[1]
  BY <1>1
<1>3. \A i \in 1 .. Len(s) - 1 : Tail(s)[i] = s[i + 1]
  BY <1>1
<1>4. IsAList(Tail(s))
  BY <1>2, OfItsMembers
<1> QED BY <1>1, <1>2, <1>3, <1>4

Concatenated(after, s, t) ==
  /\ IsAList(after)
  /\ Len(after) = Len(s) + Len(t)
  /\ \A i \in 1 .. Len(s) : after[i] = s[i]
  /\ \A i \in 1 .. Len(t) : after[Len(s) + i] = t[i]
  /\ Range(after) = Range(s) \cup Range(t)

LEMMA ConcatHas ==
  ASSUME NEW s, IsAList(s), NEW t, IsAList(t)
  PROVE  Concatenated(s \o t, s, t)
<1> DEFINE S == Range(s) \cup Range(t)
           after == s \o t
<1>1. /\ s \in Seq(S) /\ t \in Seq(S) /\ Len(s) \in Nat /\ Len(t) \in Nat
      /\ DOMAIN s = 1 .. Len(s) /\ DOMAIN t = 1 .. Len(t)
  BY DEF IsAList
<1>2. /\ after \in Seq(S) /\ Len(after) = Len(s) + Len(t)
      /\ \A i \in 1 .. Len(s) : after[i] = s[i]
  BY <1>1
<1>3. \A i \in 1 .. Len(t) : after[Len(s) + i] = t[i]
  BY <1>1
<1> HIDE DEF after
<1>4. DOMAIN after = 1 .. Len(s) + Len(t)
  BY <1>1, <1>2
<1>5. Range(after) = S
  <2>1. ASSUME NEW y \in Range(after) PROVE y \in S
    <3>1. PICK i \in DOMAIN after : after[i] = y
      BY DEF Range
    <3> QED BY <1>2, <3>1
  <2>2. ASSUME NEW y \in S PROVE y \in Range(after)
    <3>1. CASE y \in Range(t)
      <4>1. PICK i \in DOMAIN t : t[i] = y
        BY <3>1 DEF Range
      <4>2. Len(s) + i \in DOMAIN after /\ after[Len(s) + i] = y
        BY <1>1, <1>3, <1>4, <4>1
      <4> QED BY <4>2 DEF Range
    <3>2. CASE y \in Range(s)
      <4>1. PICK i \in DOMAIN s : s[i] = y
        BY <3>2 DEF Range
      <4> QED BY <1>1, <1>2, <1>4, <4>1 DEF Range
    <3> QED BY <3>1, <3>2
  <2> QED BY <2>1, <2>2
<1>6. IsAList(after)
  BY <1>2, <1>5 DEF IsAList
<1> QED BY <1>2, <1>3, <1>5, <1>6 DEF Concatenated, after

Three(s, t, u) == IsAList(s) /\ IsAList(t) /\ IsAList(u)

LEMMA ConcatTwice ==
  ASSUME NEW s, NEW t, NEW u, Three(s, t, u)
  PROVE  (s \o t) \o u = s \o (t \o u)
<1> USE DEF Three
<1> DEFINE left == (s \o t) \o u
           right == s \o (t \o u)
<1>1. Concatenated(s \o t, s, t) /\ Concatenated(t \o u, t, u)
  BY ConcatHas
<1>2. Concatenated(left, s \o t, u) /\ Concatenated(right, s, t \o u)
  BY <1>1, ConcatHas DEF Concatenated
<1>3. Len(s) \in Nat /\ Len(t) \in Nat /\ Len(u) \in Nat
  BY SequenceHas
<1>4. Len(left) = Len(s) + Len(t) + Len(u) /\ Len(right) = Len(left)
  BY <1>1, <1>2, <1>3 DEF Concatenated
<1>5. ASSUME NEW i \in 1 .. Len(left) PROVE left[i] = right[i]
  <2>1. CASE i \in 1 .. Len(s)
    <3>1. left[i] = (s \o t)[i] /\ (s \o t)[i] = s[i] /\ right[i] = s[i]
      BY <1>1, <1>2, <1>3, <2>1 DEF Concatenated
    <3> QED BY <3>1
  <2>2. CASE i - Len(s) \in 1 .. Len(t)
    <3> DEFINE k == i - Len(s)
    <3>1. k \in 1 .. Len(t) /\ i = Len(s) + k /\ i \in 1 .. Len(s \o t) /\ k \in 1 .. Len(t \o u)
      BY <1>1, <1>3, <2>2 DEF Concatenated
    <3> HIDE DEF k
    <3>2. left[i] = (s \o t)[i] /\ (s \o t)[i] = t[k]
      BY <1>1, <1>2, <3>1 DEF Concatenated
    <3>3. right[i] = (t \o u)[k] /\ (t \o u)[k] = t[k]
      BY <1>1, <1>2, <3>1 DEF Concatenated
    <3> QED BY <3>2, <3>3
  <2>3. CASE i - Len(s) - Len(t) \in 1 .. Len(u)
    <3> DEFINE k == i - Len(s) - Len(t)
    <3>1. /\ k \in 1 .. Len(u) /\ i = Len(s \o t) + k
          /\ Len(t) + k \in 1 .. Len(t \o u) /\ i = Len(s) + (Len(t) + k)
      BY <1>1, <1>3, <2>3 DEF Concatenated
    <3> HIDE DEF k
    <3>2. left[i] = u[k]
      BY <1>2, <3>1 DEF Concatenated
    <3>3. right[i] = (t \o u)[Len(t) + k] /\ (t \o u)[Len(t) + k] = u[k]
      BY <1>1, <1>2, <3>1 DEF Concatenated
    <3> QED BY <3>2, <3>3
  <2>4. \A l, m, n \in Nat : \A j \in 1 .. l + m + n :
          j \in 1 .. l \/ j - l \in 1 .. m \/ j - l - m \in 1 .. n
    OBVIOUS
  <2> QED BY <1>3, <1>4, <2>1, <2>2, <2>3, <2>4
<1> HIDE DEF left, right
<1>6. left \in Seq(Range(left) \cup Range(right)) /\ right \in Seq(Range(left) \cup Range(right))
  BY <1>2 DEF Concatenated, IsAList
<1>7. left = right
  BY <1>4, <1>5, <1>6
<1> QED BY <1>7 DEF left, right

(***************************************************************************)
(* The members of a set of places, by their rank.                          *)
(***************************************************************************)
Rank(U, i) == Cardinality({j \in 1 .. i : j \in U})

LEMMA RankIsCounted ==
  ASSUME NEW U, NEW i \in Nat
  PROVE  /\ Rank(U, i) \in Nat
         /\ Rank(U, 0) = 0
         /\ Rank(U, i + 1) = IF i + 1 \in U THEN Rank(U, i) + 1 ELSE Rank(U, i)
<1> DEFINE Upper(k) == {j \in 1 .. k : j \in U}
<1>1. IsFiniteSet(1 .. i)
  BY FS_Interval
<1>2. IsFiniteSet(Upper(i)) /\ Cardinality(Upper(i)) \in Nat
  BY <1>1, FS_Subset, FS_CardinalityType
<1>3. Upper(0) = {}
  OBVIOUS
<1>4. CASE i + 1 \in U
  <2>1. Upper(i + 1) = Upper(i) \cup {i + 1} /\ i + 1 \notin Upper(i)
    BY <1>4
  <2> HIDE DEF Upper
  <2>2. Cardinality(Upper(i + 1)) = Cardinality(Upper(i)) + 1
    BY <1>2, <2>1, FS_AddElement
  <2> QED BY <1>2, <1>3, <1>4, <2>2, FS_EmptySet DEF Rank, Upper
<1>5. CASE i + 1 \notin U
  <2>1. Upper(i + 1) = Upper(i)
    BY <1>5
  <2> HIDE DEF Upper
  <2> QED BY <1>2, <1>3, <1>5, <2>1, FS_EmptySet DEF Rank, Upper
<1> QED BY <1>4, <1>5

LEMMA RanksAreTaken ==
  ASSUME NEW n \in Nat, NEW U \in SUBSET (1 .. n)
  PROVE  /\ IsFiniteSet(U) /\ Cardinality(U) \in Nat
         /\ \A k \in 1 .. Cardinality(U) : \E i \in U : Rank(U, i) = k
         /\ \A i, j \in U : Rank(U, i) = Rank(U, j) => i = j
<1>1. IsFiniteSet(U) /\ Cardinality(U) \in Nat
  <2>1. IsFiniteSet(1 .. n)
    BY FS_Interval
  <2>2. IsFiniteSet(U)
    BY <2>1, FS_Subset
  <2> QED BY <2>2, FS_CardinalityType
<1>2. Rank(U, n) = Cardinality(U)
  <2>1. {j \in 1 .. n : j \in U} = U
    OBVIOUS
  <2> QED BY <2>1 DEF Rank
<1>3. ASSUME NEW k \in 1 .. Cardinality(U) PROVE \E i \in U : Rank(U, i) = k
  <2> DEFINE S == {i \in 0 .. n : k <= Rank(U, i)}
  <2>1. S \in SUBSET Nat /\ n \in S
    BY <1>1, <1>2
  <2>2. PICK i \in S : \A y \in S : i <= y
    BY <2>1, LeastExists
  <2>3. i # 0
    BY <2>2, RankIsCounted
  <2>4. i - 1 \in Nat /\ i - 1 \in 0 .. n /\ i - 1 \notin S
    BY <2>2, <2>3
  <2>5. /\ Rank(U, i - 1) \in Nat /\ ~(k <= Rank(U, i - 1)) /\ k <= Rank(U, i)
        /\ Rank(U, (i - 1) + 1) = IF (i - 1) + 1 \in U THEN Rank(U, i - 1) + 1
                                  ELSE Rank(U, i - 1)
    BY <2>2, <2>4, RankIsCounted
  <2>6. (i - 1) + 1 = i
    BY <2>4
  <2> HIDE DEF S
  <2>7. i \in U /\ Rank(U, i) = k
    BY <2>5, <2>6
  <2> QED BY <2>7
<1>4. ASSUME NEW i \in U, NEW j \in U, i < j, Rank(U, i) = Rank(U, j)
      PROVE  FALSE
  <2> DEFINE low == {x \in 1 .. i : x \in U}
             high == {x \in 1 .. j : x \in U}
  <2>1. low \in SUBSET high /\ j \in high /\ j \notin low
    BY <1>4
  <2>2. IsFiniteSet(high)
    BY FS_Interval, FS_Subset
  <2>3. Cardinality(low) = Cardinality(high)
    BY <1>4 DEF Rank
  <2> HIDE DEF low, high
  <2> QED BY <2>1, <2>2, <2>3, FS_Subset
<1>5. \A i, j \in U : i < j \/ j < i \/ i = j
  OBVIOUS
<1> QED BY <1>1, <1>3, <1>4, <1>5

LEMMA SetInOrder ==
  ASSUME NEW S, IsFiniteSet(S)
  PROVE  /\ IsAList(SetToSeq(S))
         /\ Range(SetToSeq(S)) = S
         /\ \A i, j \in 1 .. Len(SetToSeq(S)) : SetToSeq(S)[i] = SetToSeq(S)[j] => i = j
<1> DEFINE n == Cardinality(S)
           w == SetToSeq(S)
<1>1. n \in Nat /\ ExistsBijection(1 .. n, S)
  BY FS_CardinalityType
<1>2. PICK f \in [1 .. n -> S] : IsInjective(f)
  BY <1>1 DEF ExistsBijection, Bijection, Injection, IsInjective
<1>3. w \in [1 .. n -> S] /\ IsInjective(w)
  BY <1>2 DEF SetToSeq
<1> HIDE DEF w, n
<1>4. /\ DOMAIN w = 1 .. n /\ w = [i \in 1 .. n |-> w[i]]
      /\ \A i \in 1 .. n : w[i] \in S
  BY <1>3
<1>5. IsAList(w) /\ Len(w) = n
  BY <1>1, <1>4, ListIsAList
<1>6. w \in Surjection(1 .. n, S)
  <2>1. w \in Injection(1 .. n, S)
    BY <1>3, <1>4 DEF Injection, IsInjective
  <2>2. IsFiniteSet(1 .. n) /\ Cardinality(1 .. n) = n
    BY <1>1, FS_Interval
  <2> QED BY <2>1, <2>2, FS_Injection DEF n
<1>7. Range(w) = S
  BY <1>4, <1>6 DEF Range, Surjection
<1> QED BY <1>3, <1>4, <1>5, <1>7 DEF IsInjective, w

-----------------------------------------------------------------------------
(***************************************************************************)
(* A list of lists, one after the other. FlattenSeq is a recursive         *)
(* function; what it returns for one list more is proved by induction      *)
(* over sets of numbers, which needs no operator for a parameter.          *)
(***************************************************************************)

LEMMA SetInduction ==
  ASSUME NEW S \in SUBSET Nat, 0 \in S, \A n \in S : n + 1 \in S
  PROVE  \A n \in Nat : n \in S
<1> SUFFICES ASSUME Nat \ S # {} PROVE FALSE
  OBVIOUS
<1>1. PICK n \in Nat \ S : \A y \in Nat \ S : n <= y
  <2>1. Nat \ S \in SUBSET Nat
    OBVIOUS
  <2> QED BY <2>1, LeastExists
<1>2. n # 0 /\ n - 1 \in Nat /\ ~(n <= n - 1) /\ (n - 1) + 1 = n
  BY <1>1
<1>3. n - 1 \in S
  BY <1>1, <1>2
<1> QED BY <1>1, <1>2, <1>3

(***************************************************************************)
(* What FlattenSeq makes of a list of lists.                               *)
(***************************************************************************)
AreLists(parts) == IsAList(parts) /\ \A i \in 1 .. Len(parts) : IsAList(parts[i])

FirstOf(s, n) == [i \in 1 .. n |-> s[i]]

OneByOne(f, parts, n) ==
  f = [i \in 1 .. n |-> IF i = 1 THEN parts[i] ELSE f[i - 1] \o parts[i]]

LEMMA FirstOfHas ==
  ASSUME NEW s, IsAList(s), NEW n \in 0 .. Len(s)
  PROVE  /\ IsAList(FirstOf(s, n)) /\ Len(FirstOf(s, n)) = n
         /\ \A i \in 1 .. n : FirstOf(s, n)[i] = s[i]
         /\ FirstOf(s, Len(s)) = s
<1>1. Len(s) \in Nat /\ DOMAIN s = 1 .. Len(s)
  BY SequenceHas
<1>2. /\ DOMAIN FirstOf(s, n) = 1 .. n
      /\ \A i \in 1 .. n : FirstOf(s, n)[i] = s[i]
      /\ FirstOf(s, n) = [i \in 1 .. n |-> FirstOf(s, n)[i]]
  BY DEF FirstOf
<1>3. FirstOf(s, Len(s)) = s
  <2>1. s = [i \in 1 .. Len(s) |-> s[i]]
    BY <1>1 DEF IsAList
  <2> QED BY <2>1 DEF FirstOf
<1>4. n \in Nat
  BY <1>1
<1> QED BY <1>2, <1>3, <1>4, ListIsAList

LEMMA FirstPartsHave ==
  ASSUME NEW parts, AreLists(parts), NEW n \in 0 .. Len(parts)
  PROVE  AreLists(FirstOf(parts, n))
<1>1. Len(parts) \in Nat
  BY SequenceHas DEF AreLists
<1>2. \A i \in 1 .. n : i \in 1 .. Len(parts)
  BY <1>1
<1> QED BY <1>2, FirstOfHas DEF AreLists

LEMMA OneByOneExists ==
  ASSUME NEW parts, NEW n \in Nat
  PROVE  \E f : OneByOne(f, parts, n)
<1> DEFINE S == {m \in Nat : \E f : OneByOne(f, parts, m)}
<1>1. 0 \in S
  <2> DEFINE f == [i \in 1 .. 0 |-> 0]
  <2>1. f = [i \in 1 .. 0 |-> IF i = 1 THEN parts[i] ELSE f[i - 1] \o parts[i]]
    OBVIOUS
  <2> QED BY <2>1 DEF OneByOne
<1>2. ASSUME NEW m \in S PROVE m + 1 \in S
  <2>1. PICK f : OneByOne(f, parts, m)
    OBVIOUS
  <2> DEFINE last == IF m = 0 THEN parts[m + 1] ELSE f[m] \o parts[m + 1]
             g == [i \in 1 .. m + 1 |-> IF i = m + 1 THEN last ELSE f[i]]
  <2>2. m \in Nat /\ DOMAIN g = 1 .. m + 1 /\ g = [i \in 1 .. m + 1 |-> g[i]]
    OBVIOUS
  <2>3. ASSUME NEW i \in 1 .. m + 1
        PROVE  g[i] = IF i = 1 THEN parts[i] ELSE g[i - 1] \o parts[i]
    <3>1. CASE i = m + 1
      <4>1. g[i] = last /\ (i # 1 => g[i - 1] = f[i - 1])
        BY <2>2, <3>1
      <4>2. i = 1 <=> m = 0
        BY <2>2, <3>1
      <4> HIDE DEF g
      <4>3. i # 1 => i - 1 = m
        BY <2>2, <3>1
      <4> QED BY <3>1, <4>1, <4>2, <4>3
    <3>2. CASE i # m + 1
      <4>1. g[i] = f[i] /\ i \in 1 .. m
        BY <2>2, <3>2
      <4>2. f[i] = IF i = 1 THEN parts[i] ELSE f[i - 1] \o parts[i]
        BY <2>1, <4>1 DEF OneByOne
      <4>3. i # 1 => g[i - 1] = f[i - 1]
        BY <2>2, <4>1
      <4> HIDE DEF g
      <4> QED BY <4>1, <4>2, <4>3
    <3> QED BY <3>1, <3>2
  <2> HIDE DEF g
  <2>4. OneByOne(g, parts, m + 1)
    BY <2>2, <2>3 DEF OneByOne
  <2> QED BY <2>2, <2>4
<1>3. S \in SUBSET Nat
  OBVIOUS
<1>4. n \in S
  <2> HIDE DEF S
  <2> QED BY <1>1, <1>2, <1>3, SetInduction
<1> QED BY <1>4

Agree(s, t, n) == \A i \in 1 .. n : s[i] = t[i]

LEMMA OneByOneAgrees ==
  ASSUME NEW n \in Nat, NEW m \in Nat, n <= m, NEW parts, NEW more,
         Agree(parts, more, n),
         NEW f, OneByOne(f, parts, n), NEW g, OneByOne(g, more, m)
  PROVE  Agree(f, g, n)
<1> DEFINE S == {i \in Nat : i \in 1 .. n => f[i] = g[i]}
<1>1. 0 \in S
  OBVIOUS
<1>2. ASSUME NEW i \in S PROVE i + 1 \in S
  <2> SUFFICES ASSUME i + 1 \in 1 .. n PROVE f[i + 1] = g[i + 1]
    OBVIOUS
  <2>1. /\ f[i + 1] = IF i + 1 = 1 THEN parts[i + 1] ELSE f[(i + 1) - 1] \o parts[i + 1]
        /\ g[i + 1] = IF i + 1 = 1 THEN more[i + 1] ELSE g[(i + 1) - 1] \o more[i + 1]
    <3>1. i + 1 \in 1 .. m
      OBVIOUS
    <3>2. f[i + 1] = IF i + 1 = 1 THEN parts[i + 1] ELSE f[(i + 1) - 1] \o parts[i + 1]
      BY DEF OneByOne
    <3>3. g[i + 1] = IF i + 1 = 1 THEN more[i + 1] ELSE g[(i + 1) - 1] \o more[i + 1]
      BY <3>1 DEF OneByOne
    <3> QED BY <3>2, <3>3
  <2>2. i + 1 # 1 => f[i] = g[i]
    OBVIOUS
  <2>3. (i + 1) - 1 = i /\ parts[i + 1] = more[i + 1]
    BY DEF Agree
  <2> QED BY <2>1, <2>2, <2>3
<1>3. S \in SUBSET Nat
  OBVIOUS
<1>4. \A i \in Nat : i \in S
  <2> HIDE DEF S
  <2> QED BY <1>1, <1>2, <1>3, SetInduction
<1> QED BY <1>4 DEF Agree

LEMMA FlattenIs ==
  ASSUME NEW parts, IsAList(parts)
  PROVE  /\ Len(parts) = 0 => FlattenSeq(parts) = <<>>
         /\ Len(parts) # 0 => \E f : /\ OneByOne(f, parts, Len(parts))
                                     /\ FlattenSeq(parts) = f[Len(parts)]
<1> DEFINE n == Len(parts)
<1>1. n \in Nat /\ parts \in Seq(Range(parts))
  BY SequenceHas DEF IsAList
<1>2. CASE n = 0
  <2>1. FlattenSeq(parts) = parts
    BY <1>2 DEF FlattenSeq
  <2>2. parts = <<>>
    BY <1>1, <1>2
  <2> QED BY <1>2, <2>1, <2>2
<1>3. CASE n # 0
  <2> DEFINE f == CHOOSE g : g = [i \in 1 .. n |-> IF i = 1 THEN parts[i]
                                                   ELSE g[i - 1] \o parts[i]]
  <2>1. FlattenSeq(parts) = f[n]
    BY <1>3, Zenon DEF FlattenSeq
  <2>2. \E g : g = [i \in 1 .. n |-> IF i = 1 THEN parts[i] ELSE g[i - 1] \o parts[i]]
    BY <1>1, OneByOneExists DEF OneByOne
  <2>3. OneByOne(f, parts, n)
    BY <2>2 DEF OneByOne
  <2> HIDE DEF f
  <2> QED BY <1>3, <2>1, <2>3
<1> QED BY <1>2, <1>3

LEMMA NothingBefore ==
  ASSUME NEW s, IsAList(s) PROVE <<>> \o s = s /\ s \o <<>> = s
<1>1. s \in Seq(Range(s))
  BY DEF IsAList
<1> QED BY <1>1

LEMMA FlattenGrows ==
  ASSUME NEW parts, AreLists(parts), NEW more, AreLists(more),
         Len(more) = Len(parts) + 1,
         \A i \in 1 .. Len(parts) : more[i] = parts[i]
  PROVE  FlattenSeq(more) = FlattenSeq(parts) \o more[Len(more)]
<1> DEFINE n == Len(parts)
<1>1. n \in Nat /\ n + 1 = Len(more)
  BY SequenceHas DEF AreLists
<1>2. PICK g : OneByOne(g, more, Len(more)) /\ FlattenSeq(more) = g[Len(more)]
  BY <1>1, FlattenIs DEF AreLists
<1>3. g[n + 1] = IF n + 1 = 1 THEN more[n + 1] ELSE g[n] \o more[n + 1]
  <2>1. n + 1 \in 1 .. Len(more) /\ (n + 1) - 1 = n
    BY <1>1
  <2>2. g[n + 1] = IF n + 1 = 1 THEN more[n + 1] ELSE g[(n + 1) - 1] \o more[n + 1]
    BY <1>2, <2>1 DEF OneByOne
  <2> QED BY <2>1, <2>2
<1>4. CASE n = 0
  <2>1. FlattenSeq(parts) = <<>>
    BY <1>4, FlattenIs DEF AreLists
  <2>2. IsAList(more[n + 1])
    BY <1>1 DEF AreLists
  <2> QED BY <1>1, <1>2, <1>3, <1>4, <2>1, <2>2, NothingBefore
<1>5. CASE n # 0
  <2>1. PICK f : OneByOne(f, parts, n) /\ FlattenSeq(parts) = f[n]
    BY <1>5, FlattenIs DEF AreLists
  <2>2. f[n] = g[n]
    <3>1. n <= n + 1 /\ n + 1 \in Nat /\ n \in 1 .. n
      BY <1>1, <1>5
    <3>2. Agree(parts, more, n)
      BY DEF Agree
    <3>3. Len(more) \in Nat /\ n <= Len(more) /\ OneByOne(g, more, Len(more))
      BY <1>1, <1>2
    <3> HIDE DEF n
    <3>4. Agree(f, g, n)
      BY <1>1, <2>1, <3>2, <3>3, OneByOneAgrees
    <3> QED BY <3>1, <3>4 DEF Agree
  <2>3. n + 1 # 1
    BY <1>1, <1>5
  <2>4. g[n + 1] = g[n] \o more[n + 1]
    BY <1>3, <2>3
  <2>5. FlattenSeq(more) = g[n + 1] /\ FlattenSeq(parts) = g[n]
    BY <1>1, <1>2, <2>1, <2>2
  <2> HIDE DEF n
  <2>6. FlattenSeq(more) = FlattenSeq(parts) \o more[n + 1]
    BY <2>4, <2>5
  <2> QED BY <1>1, <2>6
<1> QED BY <1>4, <1>5

LEMMA FlattenFirst ==
  ASSUME NEW parts, AreLists(parts), NEW n \in 0 .. Len(parts) - 1
  PROVE  /\ FlattenSeq(FirstOf(parts, 0)) = <<>>
         /\ FlattenSeq(FirstOf(parts, n + 1)) =
              FlattenSeq(FirstOf(parts, n)) \o parts[n + 1]
<1>1. /\ Len(parts) \in Nat /\ n \in 0 .. Len(parts) /\ n + 1 \in 0 .. Len(parts)
      /\ 0 \in 0 .. Len(parts) /\ n + 1 \in 1 .. n + 1 /\ \A i \in 1 .. n : i \in 1 .. n + 1
  BY SequenceHas DEF AreLists
<1> DEFINE less == FirstOf(parts, n)
           more == FirstOf(parts, n + 1)
<1>2. /\ AreLists(less) /\ Len(less) = n /\ \A i \in 1 .. n : less[i] = parts[i]
      /\ AreLists(more) /\ Len(more) = n + 1 /\ \A i \in 1 .. n + 1 : more[i] = parts[i]
  BY <1>1, FirstOfHas, FirstPartsHave DEF AreLists
<1>3. FlattenSeq(FirstOf(parts, 0)) = <<>>
  <2>1. IsAList(FirstOf(parts, 0)) /\ Len(FirstOf(parts, 0)) = 0
    BY <1>1, FirstOfHas DEF AreLists
  <2> QED BY <2>1, FlattenIs
<1> HIDE DEF less, more
<1>4. FlattenSeq(more) = FlattenSeq(less) \o more[n + 1]
  BY <1>1, <1>2, FlattenGrows
<1> QED BY <1>1, <1>2, <1>3, <1>4 DEF less, more

LEMMA FlattenHas ==
  ASSUME NEW parts, AreLists(parts)
  PROVE  /\ IsAList(FlattenSeq(parts))
         /\ Range(FlattenSeq(parts)) = UNION {Range(parts[i]) : i \in 1 .. Len(parts)}
<1> DEFINE Flat(n) == FlattenSeq(FirstOf(parts, n))
           S == {n \in Nat : n \in 0 .. Len(parts) =>
                   /\ IsAList(Flat(n))
                   /\ Range(Flat(n)) = UNION {Range(parts[i]) : i \in 1 .. n}}
<1>1. Len(parts) \in Nat
  BY SequenceHas DEF AreLists
<1>2. 0 \in S
  <2>1. Flat(0) = <<>>
    <3>1. IsAList(FirstOf(parts, 0)) /\ Len(FirstOf(parts, 0)) = 0
      BY <1>1, FirstOfHas DEF AreLists
    <3> QED BY <3>1, FlattenIs
  <2>2. IsAList(<<>>) /\ Range(<<>>) = {}
    BY DEF IsAList, Range
  <2>3. UNION {Range(parts[i]) : i \in 1 .. 0} = {}
    OBVIOUS
  <2> HIDE DEF Flat
  <2> QED BY <2>1, <2>2, <2>3
<1>3. ASSUME NEW n \in S PROVE n + 1 \in S
  <2> SUFFICES ASSUME n + 1 \in 0 .. Len(parts)
               PROVE  /\ IsAList(Flat(n + 1))
                      /\ Range(Flat(n + 1)) = UNION {Range(parts[i]) : i \in 1 .. n + 1}
    OBVIOUS
  <2>1. n \in Nat /\ n \in 0 .. Len(parts) - 1 /\ n \in 0 .. Len(parts)
        /\ n + 1 \in 1 .. Len(parts)
    BY <1>1
  <2>2. IsAList(Flat(n)) /\ Range(Flat(n)) = UNION {Range(parts[i]) : i \in 1 .. n}
    BY <2>1
  <2>3. Flat(n + 1) = Flat(n) \o parts[n + 1]
    BY <2>1, FlattenFirst
  <2>4. IsAList(parts[n + 1])
    BY <2>1 DEF AreLists
  <2> HIDE DEF Flat
  <2>5. Concatenated(Flat(n + 1), Flat(n), parts[n + 1])
    BY <2>2, <2>3, <2>4, ConcatHas
  <2>6. UNION {Range(parts[i]) : i \in 1 .. n + 1} =
          (UNION {Range(parts[i]) : i \in 1 .. n}) \cup Range(parts[n + 1])
    <3>1. \A i : i \in 1 .. n + 1 <=> i \in 1 .. n \/ i = n + 1
      BY <2>1
    <3> QED BY <3>1
  <2> QED BY <2>2, <2>5, <2>6 DEF Concatenated
<1>4. S \in SUBSET Nat
  OBVIOUS
<1>5. Len(parts) \in S
  <2> HIDE DEF S
  <2> QED BY <1>1, <1>2, <1>3, <1>4, SetInduction
<1>6. FirstOf(parts, Len(parts)) = parts
  <2>1. 0 \in 0 .. Len(parts) /\ IsAList(parts)
    BY <1>1 DEF AreLists
  <2> QED BY <2>1, FirstOfHas
<1> QED BY <1>1, <1>5, <1>6

LEMMA ConcatInjective ==
  ASSUME NEW s, IsAList(s), IsInjective(s), NEW t, IsAList(t), IsInjective(t),
         Range(s) \cap Range(t) = {}
  PROVE  IsInjective(s \o t)
<1> DEFINE after == s \o t
<1>1. Concatenated(after, s, t) /\ Len(s) \in Nat /\ Len(t) \in Nat
  BY ConcatHas, SequenceHas
<1> HIDE DEF after
<1>2. DOMAIN after = 1 .. Len(s) + Len(t)
  BY <1>1, SequenceHas DEF Concatenated
<1>3. ASSUME NEW i \in DOMAIN after
      PROVE  \/ i \in 1 .. Len(s) /\ after[i] = s[i] /\ after[i] \in Range(s)
             \/ \E k \in 1 .. Len(t) : i = Len(s) + k /\ after[i] = t[k] /\ after[i] \in Range(t)
  <2>1. CASE i \in 1 .. Len(s)
    <3>1. after[i] = s[i] /\ s[i] \in Range(s)
      BY <1>1, <2>1, SequenceHas DEF Concatenated
    <3> QED BY <2>1, <3>1
  <2>2. CASE i \notin 1 .. Len(s)
    <3>1. i - Len(s) \in 1 .. Len(t) /\ i = Len(s) + (i - Len(s))
      BY <1>1, <1>2, <2>2
    <3> DEFINE k == i - Len(s)
    <3>2. k \in 1 .. Len(t) /\ i = Len(s) + k
      BY <3>1
    <3> HIDE DEF k
    <3>3. after[i] = t[k] /\ t[k] \in Range(t)
      BY <1>1, <3>2, SequenceHas DEF Concatenated
    <3> QED BY <3>2, <3>3
  <2> QED BY <2>1, <2>2
<1>4. /\ \A i, j \in 1 .. Len(s) : s[i] = s[j] => i = j
      /\ \A i, j \in 1 .. Len(t) : t[i] = t[j] => i = j
  BY SequenceHas DEF IsInjective
<1>5. ASSUME NEW i \in DOMAIN after, NEW j \in DOMAIN after, after[i] = after[j]
      PROVE  i = j
  <2>1. CASE after[i] \in Range(s)
    <3>1. after[i] \notin Range(t) /\ after[j] \notin Range(t)
      BY <1>5, <2>1
    <3>2. i \in 1 .. Len(s) /\ j \in 1 .. Len(s) /\ s[i] = s[j]
      BY <1>3, <1>5, <3>1
    <3> QED BY <1>4, <3>2
  <2>2. CASE after[i] \notin Range(s)
    <3>1. PICK k \in 1 .. Len(t) : i = Len(s) + k /\ after[i] = t[k]
      BY <1>3, <2>2
    <3>2. PICK l \in 1 .. Len(t) : j = Len(s) + l /\ after[j] = t[l]
      BY <1>3, <1>5, <2>2
    <3>3. k = l
      BY <1>4, <1>5, <3>1, <3>2
    <3> QED BY <3>1, <3>2, <3>3
  <2> QED BY <2>1, <2>2
<1> QED BY <1>5 DEF IsInjective, after

LEMMA FlattenInjective ==
  ASSUME NEW parts, AreLists(parts),
         \A i \in 1 .. Len(parts) : IsInjective(parts[i]),
         \A i, j \in 1 .. Len(parts) : i < j => Range(parts[i]) \cap Range(parts[j]) = {}
  PROVE  IsInjective(FlattenSeq(parts))
<1> DEFINE Flat(n) == FlattenSeq(FirstOf(parts, n))
           S == {n \in Nat : n \in 0 .. Len(parts) => IsInjective(Flat(n))}
<1>1. Len(parts) \in Nat
  BY SequenceHas DEF AreLists
<1>2. 0 \in S
  <2>1. Flat(0) = <<>>
    <3>1. IsAList(FirstOf(parts, 0)) /\ Len(FirstOf(parts, 0)) = 0
      BY <1>1, FirstOfHas DEF AreLists
    <3> QED BY <3>1, FlattenIs
  <2>2. IsInjective(<<>>)
    BY DEF IsInjective
  <2> HIDE DEF Flat
  <2> QED BY <2>1, <2>2
<1>3. ASSUME NEW n \in S PROVE n + 1 \in S
  <2> SUFFICES ASSUME n + 1 \in 0 .. Len(parts) PROVE IsInjective(Flat(n + 1))
    OBVIOUS
  <2>1. n \in Nat /\ n \in 0 .. Len(parts) - 1 /\ n \in 0 .. Len(parts)
        /\ n + 1 \in 1 .. Len(parts)
    BY <1>1
  <2>2. IsInjective(Flat(n))
    BY <2>1
  <2>3. Flat(n + 1) = Flat(n) \o parts[n + 1]
    BY <2>1, FlattenFirst
  <2>4. IsAList(parts[n + 1]) /\ IsInjective(parts[n + 1])
    BY <2>1 DEF AreLists
  <2>5. IsAList(Flat(n)) /\ \A x \in Range(Flat(n)) : \E i \in 1 .. n : x \in Range(parts[i])
    <3>1. AreLists(FirstOf(parts, n)) /\ Len(FirstOf(parts, n)) = n
          /\ \A i \in 1 .. n : FirstOf(parts, n)[i] = parts[i]
      BY <2>1, FirstPartsHave, FirstOfHas DEF AreLists
    <3>2. IsAList(Flat(n))
          /\ Range(Flat(n)) = UNION {Range(FirstOf(parts, n)[i]) : i \in 1 .. n}
      BY <3>1, FlattenHas
    <3> HIDE DEF Flat
    <3> QED BY <3>1, <3>2
  <2>6. Range(Flat(n)) \cap Range(parts[n + 1]) = {}
    <3>1. \A i \in 1 .. n : Range(parts[i]) \cap Range(parts[n + 1]) = {}
      <4> SUFFICES ASSUME NEW i \in 1 .. n
                   PROVE  Range(parts[i]) \cap Range(parts[n + 1]) = {}
        OBVIOUS
      <4>1. i \in 1 .. Len(parts) /\ i < n + 1
        BY <2>1
      <4> QED BY <2>1, <4>1
    <3> HIDE DEF Flat
    <3> QED BY <2>5, <3>1
  <2> HIDE DEF Flat
  <2>7. IsInjective(Flat(n) \o parts[n + 1])
    BY <2>2, <2>4, <2>5, <2>6, ConcatInjective, Zenon
  <2> QED BY <2>3, <2>7
<1>4. S \in SUBSET Nat
  OBVIOUS
<1>5. Len(parts) \in S
  <2> HIDE DEF S
  <2> QED BY <1>1, <1>2, <1>3, <1>4, SetInduction
<1>6. FirstOf(parts, Len(parts)) = parts
  <2>1. 0 \in 0 .. Len(parts) /\ IsAList(parts)
    BY <1>1 DEF AreLists
  <2> QED BY <2>1, FirstOfHas
<1> QED BY <1>1, <1>5, <1>6

-----------------------------------------------------------------------------
(***************************************************************************)
(* The members of a list that are in a set, in order.                      *)
(***************************************************************************)

OneOf(x, S) == IF x \in S THEN <<x>> ELSE <<>>

LEMMA OneOfIs ==
  ASSUME NEW x, NEW S
  PROVE  IsAList(OneOf(x, S)) /\ Range(OneOf(x, S)) = {x} \cap S
<1>1. CASE x \in S
  <2>1. OneOf(x, S) = <<x>> /\ <<x>> \in Seq({x}) /\ DOMAIN <<x>> = {1} /\ <<x>>[1] = x
    BY <1>1 DEF OneOf
  <2>2. Range(<<x>>) = {x}
    BY <2>1 DEF Range
  <2> QED BY <1>1, <2>1, <2>2 DEF IsAList
<1>2. CASE x \notin S
  <2>1. OneOf(x, S) = <<>> /\ DOMAIN <<>> = {}
    BY <1>2 DEF OneOf
  <2>2. Range(<<>>) = {}
    BY <2>1 DEF Range
  <2> QED BY <1>2, <2>1, <2>2 DEF IsAList
<1> QED BY <1>1, <1>2

Kept(s, S) == [i \in DOMAIN s |-> OneOf(s[i], S)]

LEMMA ThoseAreKept == ASSUME NEW s, NEW S PROVE Those(s, S) = FlattenSeq(Kept(s, S))
BY Zenon DEF Those, Kept, OneOf

LEMMA KeptAreLists ==
  ASSUME NEW s, IsAList(s), NEW S
  PROVE  /\ AreLists(Kept(s, S)) /\ Len(Kept(s, S)) = Len(s)
         /\ \A i \in 1 .. Len(s) : Kept(s, S)[i] = OneOf(s[i], S)
<1>1. Len(s) \in Nat /\ DOMAIN s = 1 .. Len(s)
  BY SequenceHas
<1>2. /\ DOMAIN Kept(s, S) = 1 .. Len(s)
      /\ \A i \in 1 .. Len(s) : Kept(s, S)[i] = OneOf(s[i], S)
      /\ Kept(s, S) = [i \in 1 .. Len(s) |-> Kept(s, S)[i]]
  BY <1>1 DEF Kept
<1>3. IsAList(Kept(s, S)) /\ Len(Kept(s, S)) = Len(s)
  BY <1>1, <1>2, ListIsAList
<1> QED BY <1>2, <1>3, OneOfIs DEF AreLists

LEMMA ThoseHas ==
  ASSUME NEW s, IsAList(s), NEW S
  PROVE  IsAList(Those(s, S)) /\ Range(Those(s, S)) = Range(s) \cap S
<1>1. /\ AreLists(Kept(s, S)) /\ Len(Kept(s, S)) = Len(s)
      /\ \A i \in 1 .. Len(s) : Kept(s, S)[i] = OneOf(s[i], S)
  BY KeptAreLists
<1>2. /\ IsAList(Those(s, S))
      /\ Range(Those(s, S)) = UNION {Range(Kept(s, S)[i]) : i \in 1 .. Len(s)}
  BY <1>1, FlattenHas, ThoseAreKept
<1>3. \A i \in 1 .. Len(s) : Range(Kept(s, S)[i]) = {s[i]} \cap S
  BY <1>1, OneOfIs
<1>4. /\ \A i \in 1 .. Len(s) : s[i] \in Range(s)
      /\ \A x \in Range(s) : \E i \in 1 .. Len(s) : s[i] = x
  BY SequenceHas
<1>5. ASSUME NEW x PROVE x \in Range(Those(s, S)) <=> x \in Range(s) /\ x \in S
  <2>1. x \in Range(Those(s, S)) <=> \E i \in 1 .. Len(s) : x \in Range(Kept(s, S)[i])
    BY <1>2
  <2> QED BY <1>3, <1>4, <2>1
<1> QED BY <1>2, <1>5

LEMMA ThoseOfNone == ASSUME NEW S PROVE Those(<<>>, S) = <<>>
<1>1. IsAList(<<>>)
  BY DEF IsAList
<1>2. AreLists(Kept(<<>>, S)) /\ Len(Kept(<<>>, S)) = 0
  BY <1>1, KeptAreLists
<1> QED BY <1>2, ThoseAreKept, FlattenIs DEF AreLists

LEMMA ThoseSame ==
  ASSUME NEW s, IsAList(s), NEW S, NEW T, \A x \in Range(s) : x \in S <=> x \in T
  PROVE  Those(s, S) = Those(s, T)
<1>1. \A i \in DOMAIN s : s[i] \in Range(s)
  BY DEF Range
<1>2. \A i \in DOMAIN s : OneOf(s[i], S) = OneOf(s[i], T)
  BY <1>1 DEF OneOf
<1>3. Kept(s, S) = Kept(s, T)
  BY <1>2 DEF Kept
<1> QED BY <1>3, ThoseAreKept

LEMMA ThoseAppended ==
  ASSUME NEW s, IsAList(s), NEW more, NEW x, Appended(more, s, x), NEW S
  PROVE  Those(more, S) = Those(s, S) \o OneOf(x, S)
<1>1. /\ AreLists(Kept(s, S)) /\ Len(Kept(s, S)) = Len(s)
      /\ \A i \in 1 .. Len(s) : Kept(s, S)[i] = OneOf(s[i], S)
  BY KeptAreLists
<1>2. IsAList(more) /\ Len(more) = Len(s) + 1
  BY DEF Appended
<1>3. /\ AreLists(Kept(more, S)) /\ Len(Kept(more, S)) = Len(more)
      /\ \A i \in 1 .. Len(more) : Kept(more, S)[i] = OneOf(more[i], S)
  BY <1>2, KeptAreLists
<1>4. Len(s) \in Nat
  BY SequenceHas
<1>5. \A i \in 1 .. Len(s) : Kept(more, S)[i] = Kept(s, S)[i]
  <2> SUFFICES ASSUME NEW i \in 1 .. Len(s) PROVE Kept(more, S)[i] = Kept(s, S)[i]
    OBVIOUS
  <2>1. more[i] = s[i] /\ i \in 1 .. Len(more)
    BY <1>2, <1>4 DEF Appended
  <2> QED BY <1>1, <1>3, <2>1
<1>6. Kept(more, S)[Len(more)] = OneOf(x, S)
  <2>1. more[Len(more)] = x /\ Len(more) \in 1 .. Len(more)
    BY <1>2, <1>4 DEF Appended
  <2> QED BY <1>3, <2>1
<1>7. FlattenSeq(Kept(more, S)) = FlattenSeq(Kept(s, S)) \o Kept(more, S)[Len(more)]
  <2>1. Len(Kept(more, S)) = Len(Kept(s, S)) + 1
    BY <1>1, <1>2, <1>3
  <2>2. \A i \in 1 .. Len(Kept(s, S)) : Kept(more, S)[i] = Kept(s, S)[i]
    BY <1>1, <1>5
  <2>3. FlattenSeq(Kept(more, S)) = FlattenSeq(Kept(s, S)) \o Kept(more, S)[Len(Kept(more, S))]
    BY <1>1, <1>3, <2>1, <2>2, FlattenGrows
  <2> QED BY <1>3, <2>3
<1> QED BY <1>6, <1>7, ThoseAreKept

LEMMA ThoseOfOne == ASSUME NEW x, NEW S PROVE Those(<<x>>, S) = OneOf(x, S)
<1>1. IsAList(<<>>) /\ Append(<<>>, x) = <<x>>
  BY DEF IsAList
<1>2. Appended(<<x>>, <<>>, x)
  BY <1>1, AppendHas
<1>3. Those(<<x>>, S) = Those(<<>>, S) \o OneOf(x, S)
  BY <1>1, <1>2, ThoseAppended
<1>4. IsAList(OneOf(x, S)) /\ Those(<<>>, S) = <<>>
  BY OneOfIs, ThoseOfNone
<1>5. <<>> \o OneOf(x, S) = OneOf(x, S)
  BY <1>4, NothingBefore
<1> QED BY <1>3, <1>4, <1>5

LEMMA SameListsAre ==
  ASSUME NEW s, IsAList(s), NEW t, IsAList(t), Len(s) = Len(t),
         \A i \in 1 .. Len(s) : s[i] = t[i]
  PROVE  s = t
<1>1. s \in Seq(Range(s) \cup Range(t)) /\ t \in Seq(Range(s) \cup Range(t))
  BY DEF IsAList
<1> QED BY <1>1

LEMMA ConcatOneMore ==
  ASSUME NEW s, IsAList(s), NEW t, IsAList(t), NEW n \in 0 .. Len(t) - 1
  PROVE  Appended(s \o FirstOf(t, n + 1), s \o FirstOf(t, n), t[n + 1])
<1> DEFINE less == FirstOf(t, n)
           more == FirstOf(t, n + 1)
           x == t[n + 1]
<1>1. /\ Len(t) \in Nat /\ Len(s) \in Nat /\ n \in Nat
      /\ n \in 0 .. Len(t) /\ n + 1 \in 0 .. Len(t)
  BY SequenceHas
<1>2. /\ IsAList(less) /\ Len(less) = n /\ \A i \in 1 .. n : less[i] = t[i]
      /\ IsAList(more) /\ Len(more) = n + 1 /\ \A i \in 1 .. n + 1 : more[i] = t[i]
  BY <1>1, FirstOfHas
<1> HIDE DEF less, more
<1>3. Appended(Append(s \o less, x), s \o less, x) /\ Concatenated(s \o less, s, less)
      /\ Concatenated(s \o more, s, more)
  <2>1. Concatenated(s \o less, s, less) /\ Concatenated(s \o more, s, more)
    BY <1>2, ConcatHas
  <2>2. IsAList(s \o less)
    BY <2>1 DEF Concatenated
  <2> QED BY <2>1, <2>2, AppendHas
<1> DEFINE left == Append(s \o less, x)
           right == s \o more
<1>4. Len(left) = Len(s) + n + 1 /\ Len(right) = Len(s) + n + 1
      /\ IsAList(left) /\ IsAList(right) /\ Len(s \o less) = Len(s) + n
  BY <1>1, <1>2, <1>3 DEF Appended, Concatenated
<1>5. ASSUME NEW i \in 1 .. Len(left) PROVE left[i] = right[i]
  <2> HIDE DEF left, right
  <2>1. CASE i \in 1 .. Len(s)
    <3>1. i \in 1 .. Len(s \o less)
      BY <1>1, <1>4, <2>1
    <3>2. left[i] = (s \o less)[i] /\ (s \o less)[i] = s[i] /\ right[i] = s[i]
      BY <1>3, <2>1, <3>1 DEF Appended, Concatenated, left, right
    <3> QED BY <3>2
  <2>2. CASE i - Len(s) \in 1 .. n
    <3> DEFINE k == i - Len(s)
    <3>1. k \in 1 .. n /\ k \in 1 .. n + 1 /\ i = Len(s) + k /\ i \in 1 .. Len(s \o less)
      BY <1>1, <1>4, <2>2
    <3> HIDE DEF k
    <3>2. left[i] = (s \o less)[i] /\ (s \o less)[Len(s) + k] = less[k]
          /\ right[Len(s) + k] = more[k]
      BY <1>2, <1>3, <3>1 DEF Appended, Concatenated, left, right
    <3> QED BY <1>2, <3>1, <3>2
  <2>3. CASE i = Len(s) + n + 1
    <3>1. n + 1 \in 1 .. n + 1 /\ i = Len(s) + (n + 1) /\ i = Len(s \o less) + 1
      BY <1>1, <1>4, <2>3
    <3>2. left[Len(s \o less) + 1] = x /\ right[Len(s) + (n + 1)] = more[n + 1]
      BY <1>2, <1>3, <3>1 DEF Appended, Concatenated, left, right
    <3> QED BY <1>2, <3>1, <3>2
  <2>4. i \in 1 .. Len(s) \/ i - Len(s) \in 1 .. n \/ i = Len(s) + n + 1
    <3> HIDE DEF left
    <3> QED BY <1>1, <1>4
  <2> QED BY <2>1, <2>2, <2>3, <2>4
<1>6. left = right
  <2> HIDE DEF left, right
  <2> QED BY <1>4, <1>5, SameListsAre
<1> QED BY <1>3, <1>6 DEF less, more

LEMMA ThoseConcat ==
  ASSUME NEW s, IsAList(s), NEW t, IsAList(t), NEW S
  PROVE  Those(s \o t, S) = Those(s, S) \o Those(t, S)
<1> DEFINE first(n) == FirstOf(t, n)
           N == {n \in Nat : n \in 0 .. Len(t) =>
                   Those(s \o first(n), S) = Those(s, S) \o Those(first(n), S)}
<1>1. Len(t) \in Nat /\ 0 \in 0 .. Len(t) /\ IsAList(Those(s, S))
  BY SequenceHas, ThoseHas
<1>2. 0 \in N
  <2>1. first(0) = <<>>
    <3>1. IsAList(first(0)) /\ Len(first(0)) = 0
      BY <1>1, FirstOfHas
    <3> HIDE DEF first
    <3> QED BY <3>1 DEF IsAList
  <2> HIDE DEF first
  <2>2. Those(first(0), S) = <<>>
    BY <2>1, ThoseOfNone
  <2>3. s \o <<>> = s
    BY NothingBefore
  <2>4. Those(s, S) \o <<>> = Those(s, S)
    BY <1>1, NothingBefore
  <2> QED BY <2>1, <2>2, <2>3, <2>4
<1>3. ASSUME NEW n \in N PROVE n + 1 \in N
  <2> SUFFICES ASSUME n + 1 \in 0 .. Len(t)
               PROVE  Those(s \o first(n + 1), S) = Those(s, S) \o Those(first(n + 1), S)
    OBVIOUS
  <2> DEFINE x == t[n + 1]
             here == Those(first(n), S)
  <2>1. n \in Nat /\ n \in 0 .. Len(t) - 1 /\ n \in 0 .. Len(t)
    BY <1>1
  <2>2. Those(s \o first(n), S) = Those(s, S) \o here
    BY <2>1
  <2>3. IsAList(first(n)) /\ IsAList(s \o first(n)) /\ IsAList(here)
    <3>1. IsAList(first(n))
      BY <2>1, FirstOfHas
    <3>2. Concatenated(s \o first(n), s, first(n))
      BY <3>1, ConcatHas
    <3> QED BY <3>1, <3>2, ThoseHas DEF Concatenated
  <2>4. Those(s \o first(n + 1), S) = Those(s \o first(n), S) \o OneOf(x, S)
    <3>1. Appended(s \o first(n + 1), s \o first(n), x)
      BY <2>1, ConcatOneMore
    <3> HIDE DEF first
    <3> QED BY <2>3, <3>1, ThoseAppended
  <2>5. Those(first(n + 1), S) = here \o OneOf(x, S)
    <3>1. IsAList(<<>>)
      BY DEF IsAList
    <3>2. Appended(<<>> \o first(n + 1), <<>> \o first(n), x)
      BY <2>1, <3>1, ConcatOneMore
    <3>3. IsAList(first(n + 1))
      BY FirstOfHas
    <3> HIDE DEF first
    <3>4. Appended(first(n + 1), first(n), x)
      BY <2>3, <3>2, <3>3, NothingBefore
    <3> QED BY <2>3, <3>4, ThoseAppended
  <2> HIDE DEF first, here, x
  <2>6. IsAList(OneOf(x, S))
    BY OneOfIs
  <2>7. (Those(s, S) \o here) \o OneOf(x, S) = Those(s, S) \o (here \o OneOf(x, S))
    <3>1. Three(Those(s, S), here, OneOf(x, S))
      BY <1>1, <2>3, <2>6 DEF Three
    <3> QED BY <3>1, ConcatTwice
  <2> QED BY <2>2, <2>4, <2>5, <2>7
<1>4. N \in SUBSET Nat
  OBVIOUS
<1>5. Len(t) \in N
  <2> HIDE DEF N
  <2> QED BY <1>1, <1>2, <1>3, <1>4, SetInduction
<1>6. first(Len(t)) = t
  BY <1>1, FirstOfHas
<1> QED BY <1>1, <1>5, <1>6

LEMMA ThoseOfOthers ==
  ASSUME NEW s, IsAList(s), NEW S, Range(s) \cap S = {}
  PROVE  Those(s, S) = <<>>
<1>1. IsAList(Those(s, S)) /\ Range(Those(s, S)) = {}
  BY ThoseHas
<1>2. Those(s, S) \in Seq({})
  BY <1>1 DEF IsAList
<1> QED BY <1>2

LEMMA ThoseAll ==
  ASSUME NEW s, IsAList(s), NEW S, Range(s) \subseteq S
  PROVE  Those(s, S) = s
<1> DEFINE first(n) == FirstOf(s, n)
           N == {n \in Nat : n \in 0 .. Len(s) => Those(first(n), S) = first(n)}
<1>1. Len(s) \in Nat /\ 0 \in 0 .. Len(s) /\ IsAList(<<>>)
  BY SequenceHas DEF IsAList
<1>2. 0 \in N
  <2>1. first(0) = <<>>
    <3>1. IsAList(first(0)) /\ Len(first(0)) = 0
      BY <1>1, FirstOfHas
    <3> HIDE DEF first
    <3> QED BY <3>1 DEF IsAList
  <2> HIDE DEF first
  <2> QED BY <2>1, ThoseOfNone
<1>3. ASSUME NEW n \in N PROVE n + 1 \in N
  <2> SUFFICES ASSUME n + 1 \in 0 .. Len(s) PROVE Those(first(n + 1), S) = first(n + 1)
    OBVIOUS
  <2> DEFINE x == s[n + 1]
  <2>1. n \in Nat /\ n \in 0 .. Len(s) - 1 /\ n \in 0 .. Len(s) /\ n + 1 \in 1 .. Len(s)
    BY <1>1
  <2>2. Those(first(n), S) = first(n) /\ x \in S
    BY <2>1, SequenceHas
  <2>3. IsAList(first(n)) /\ IsAList(first(n + 1))
    BY <2>1, FirstOfHas
  <2>4. Appended(first(n + 1), first(n), x)
    <3>1. Appended(<<>> \o first(n + 1), <<>> \o first(n), x)
      BY <1>1, <2>1, ConcatOneMore
    <3> HIDE DEF first
    <3> QED BY <2>3, <3>1, NothingBefore
  <2> HIDE DEF first, x
  <2>5. Those(first(n + 1), S) = first(n) \o <<x>>
    BY <2>2, <2>3, <2>4, ThoseAppended DEF OneOf
  <2>6. Append(first(n), x) = first(n) \o <<x>>
    <3>1. first(n) \in Seq(Range(first(n)) \cup {x})
      BY <2>3 DEF IsAList
    <3> QED BY <3>1
  <2>7. first(n + 1) = Append(first(n), x)
    <3>1. Appended(Append(first(n), x), first(n), x)
      BY <2>3, AppendHas
    <3>2. \A i \in 1 .. Len(first(n + 1)) : first(n + 1)[i] = Append(first(n), x)[i]
      <4>1. Len(first(n)) \in Nat
        BY <2>3, SequenceHas
      <4> QED BY <2>4, <3>1, <4>1 DEF Appended
    <3> QED BY <2>4, <3>1, <3>2, SameListsAre DEF Appended
  <2> QED BY <2>5, <2>6, <2>7
<1>4. N \in SUBSET Nat
  OBVIOUS
<1>5. Len(s) \in N
  <2> HIDE DEF N
  <2> QED BY <1>1, <1>2, <1>3, <1>4, SetInduction
<1>6. first(Len(s)) = s
  BY <1>1, FirstOfHas
<1> QED BY <1>1, <1>5, <1>6

-----------------------------------------------------------------------------
(***************************************************************************)
(* What is not there yet, once: NotIn names the places of the new ones     *)
(* by their rank.                                                          *)
(***************************************************************************)

LEMMA RankIsAPlace ==
  ASSUME NEW n \in Nat, NEW U \in SUBSET (1 .. n), NEW i \in U
  PROVE  Rank(U, i) \in 1 .. Cardinality(U)
<1> DEFINE upto == {j \in 1 .. i : j \in U}
<1>1. IsFiniteSet(U) /\ Cardinality(U) \in Nat
  BY RanksAreTaken
<1>2. upto \in SUBSET U /\ i \in upto
  OBVIOUS
<1> HIDE DEF upto
<1>3. IsFiniteSet(upto) /\ Cardinality(upto) <= Cardinality(U)
  BY <1>1, <1>2, FS_Subset
<1>4. Cardinality(upto) \in Nat /\ Cardinality(upto) # 0
  BY <1>2, <1>3, FS_CardinalityType, FS_EmptySet
<1>5. Rank(U, i) = Cardinality(upto)
  BY DEF Rank, upto
<1> QED BY <1>1, <1>3, <1>4, <1>5

LEMMA NotInHas ==
  ASSUME NEW rows, IsAList(rows), NEW known
  PROVE  /\ IsAList(NotIn(known, rows)) /\ IsInjective(NotIn(known, rows))
         /\ Range(NotIn(known, rows)) = Range(rows) \ Range(known)
<1> DEFINE new == {i \in DOMAIN rows : /\ rows[i] \notin Range(known)
                                       /\ \A j \in 1 .. i - 1 : rows[j] # rows[i]}
           count == Cardinality(new)
           place(k) == CHOOSE i \in new : Cardinality({j \in new : j <= i}) = k
           left == NotIn(known, rows)
<1>1. /\ Len(rows) \in Nat /\ DOMAIN rows = 1 .. Len(rows)
      /\ \A i \in 1 .. Len(rows) : rows[i] \in Range(rows)
      /\ \A x \in Range(rows) : \E i \in 1 .. Len(rows) : rows[i] = x
  BY SequenceHas
<1>2. new \in SUBSET (1 .. Len(rows))
  BY <1>1
<1>3. left = [k \in 1 .. count |-> rows[place(k)]]
  BY Zenon DEF NotIn
<1>4. ASSUME NEW i \in new, NEW j \in new, i # j PROVE rows[i] # rows[j]
  <2>1. i \in Nat /\ j \in Nat /\ i \in 1 .. Len(rows) /\ j \in 1 .. Len(rows)
    BY <1>1
  <2>2. CASE i < j
    <3>1. i \in 1 .. j - 1
      BY <2>1, <2>2
    <3> QED BY <3>1
  <2>3. CASE j < i
    <3>1. j \in 1 .. i - 1
      BY <2>1, <2>3
    <3> QED BY <3>1
  <2> QED BY <1>4, <2>1, <2>2, <2>3
<1>5. \A i \in new : rows[i] \in Range(rows) \ Range(known)
  BY <1>1
<1>6. ASSUME NEW x \in Range(rows) \ Range(known)
      PROVE  \E i \in new : rows[i] = x
  <2> DEFINE at == {i \in 1 .. Len(rows) : rows[i] = x}
  <2>1. at \in SUBSET Nat /\ at # {}
    BY <1>1
  <2>2. PICK i \in at : \A y \in at : i <= y
    BY <2>1, LeastExists
  <2>3. ASSUME NEW j \in 1 .. i - 1 PROVE rows[j] # rows[i]
    <3>1. j \in 1 .. Len(rows) /\ ~(i <= j)
      BY <1>1
    <3> QED BY <2>2, <3>1
  <2>4. i \in new
    BY <1>1, <2>3
  <2> QED BY <2>4
<1> HIDE DEF new
<1>7. ASSUME NEW i \in new PROVE Cardinality({j \in new : j <= i}) = Rank(new, i)
  <2>1. {j \in new : j <= i} = {j \in 1 .. i : j \in new}
    <3>1. \A j \in new : j \in Nat /\ 1 <= j
      BY <1>1, <1>2
    <3>2. \A j \in new : j <= i <=> j \in 1 .. i
      BY <3>1
    <3> QED BY <3>2
  <2> QED BY <2>1 DEF Rank
<1>8. /\ count \in Nat
      /\ \A k \in 1 .. count : \E i \in new : Rank(new, i) = k
      /\ \A i, j \in new : Rank(new, i) = Rank(new, j) => i = j
  BY <1>1, <1>2, RanksAreTaken
<1>9. ASSUME NEW k \in 1 .. count PROVE place(k) \in new /\ Rank(new, place(k)) = k
  <2>1. \E i \in new : Cardinality({j \in new : j <= i}) = k
    BY <1>7, <1>8
  <2>2. place(k) \in new /\ Cardinality({j \in new : j <= place(k)}) = k
    BY <2>1
  <2> QED BY <1>7, <2>2
<1> HIDE DEF place, count, left
<1>10. DOMAIN left = 1 .. count /\ left = [k \in 1 .. count |-> left[k]]
       /\ \A k \in 1 .. count : left[k] = rows[place(k)]
  BY <1>3
<1>11. IsAList(left) /\ Len(left) = count
  BY <1>8, <1>10, ListIsAList
<1>12. IsInjective(left)
  <2> SUFFICES ASSUME NEW k \in 1 .. count, NEW l \in 1 .. count, left[k] = left[l]
               PROVE  k = l
    BY <1>10 DEF IsInjective
  <2>1. place(k) = place(l)
    BY <1>4, <1>9, <1>10
  <2> QED BY <1>9, <2>1
<1>13. Range(left) = Range(rows) \ Range(known)
  <2>1. ASSUME NEW x \in Range(left) PROVE x \in Range(rows) \ Range(known)
    <3>1. PICK k \in 1 .. count : left[k] = x
      BY <1>10 DEF Range
    <3> QED BY <1>5, <1>9, <1>10, <3>1
  <2>2. ASSUME NEW x \in Range(rows) \ Range(known) PROVE x \in Range(left)
    <3>1. PICK i \in new : rows[i] = x
      BY <1>6
    <3> DEFINE k == Rank(new, i)
    <3>2. k \in 1 .. count
      BY <1>1, <1>2, RankIsAPlace DEF count
    <3>3. place(k) = i
      BY <1>8, <1>9, <3>2
    <3>4. left[k] = x
      BY <1>10, <3>1, <3>2, <3>3
    <3> HIDE DEF k
    <3> QED BY <1>10, <3>2, <3>4 DEF Range
  <2> QED BY <2>1, <2>2
<1> QED BY <1>11, <1>12, <1>13 DEF left

(* What New leaves of the rows of a file that has none twice.              *)
LEMMA NewHas ==
  ASSUME NEW earlier, IsAList(earlier), IsInjective(earlier), NEW rows, IsAList(rows)
  PROVE  /\ IsAList(earlier \o NotIn(earlier, rows))
         /\ IsInjective(earlier \o NotIn(earlier, rows))
         /\ Range(earlier \o NotIn(earlier, rows)) = Range(earlier) \cup Range(rows)
<1> DEFINE new == NotIn(earlier, rows)
<1>1. /\ IsAList(new) /\ IsInjective(new)
      /\ Range(new) = Range(rows) \ Range(earlier)
  BY NotInHas
<1> HIDE DEF new
<1>2. Concatenated(earlier \o new, earlier, new)
  BY <1>1, ConcatHas
<1>3. Range(earlier) \cap Range(new) = {}
  BY <1>1
<1>4. IsInjective(earlier \o new)
  BY <1>1, <1>3, ConcatInjective, Zenon
<1>5. Range(earlier \o new) = Range(earlier) \cup Range(rows)
  BY <1>1, <1>2 DEF Concatenated
<1> QED BY <1>2, <1>4, <1>5 DEF Concatenated, new

-----------------------------------------------------------------------------
(***************************************************************************)
(* The transfers of new stops: with what is already there they are all     *)
(* the pairs of stops there now that a feed connects, each once.           *)
(***************************************************************************)

WalksOf(stop, seen) ==
  {<<stop, stop>>} \cup {<<stop, s>> : s \in {x \in seen : {stop, x} \in Near}}
                   \cup {<<s, stop>> : s \in {x \in seen : {stop, x} \in Near}}

LEMMA MappedHas ==
  ASSUME NEW s, IsAList(s), NEW t, DOMAIN t = DOMAIN s, t = [i \in DOMAIN s |-> t[i]]
  PROVE  IsAList(t) /\ Len(t) = Len(s)
<1>1. Len(s) \in Nat /\ DOMAIN s = 1 .. Len(s)
  BY SequenceHas
<1> QED BY <1>1, ListIsAList

LEMMA WalksAtHas ==
  ASSUME NEW seen, IsFiniteSet(seen), NEW stop, stop \notin seen
  PROVE  /\ IsAList(WalksAt(stop, seen)) /\ IsInjective(WalksAt(stop, seen))
         /\ Range(WalksAt(stop, seen)) = WalksOf(stop, seen)
<1> DEFINE near == {s \in seen : {stop, s} \in Near}
           others == SetToSeq(near)
           from == [i \in DOMAIN others |-> <<stop, others[i]>>]
           to == [i \in DOMAIN others |-> <<others[i], stop>>]
           at == <<<<stop, stop>>>>
<1>1. IsFiniteSet(near) /\ stop \notin near
  BY FS_Subset
<1>2. WalksAt(stop, seen) = at \o from \o to
  BY Zenon DEF WalksAt
<1> HIDE DEF near
<1>3. IsAList(others) /\ Range(others) = near
      /\ \A i, j \in 1 .. Len(others) : others[i] = others[j] => i = j
  BY <1>1, SetInOrder
<1> HIDE DEF others
<1>4. /\ Len(others) \in Nat /\ DOMAIN others = 1 .. Len(others)
      /\ \A i \in 1 .. Len(others) : others[i] \in near
      /\ \A x \in near : \E i \in 1 .. Len(others) : others[i] = x
  BY <1>3, SequenceHas
<1>5. /\ DOMAIN from = 1 .. Len(others) /\ \A i \in 1 .. Len(others) : from[i] = <<stop, others[i]>>
      /\ DOMAIN to = 1 .. Len(others) /\ \A i \in 1 .. Len(others) : to[i] = <<others[i], stop>>
      /\ from = [i \in 1 .. Len(others) |-> from[i]] /\ to = [i \in 1 .. Len(others) |-> to[i]]
  BY <1>4
<1> HIDE DEF from, to
<1>6. IsAList(from) /\ IsAList(to)
  BY <1>4, <1>5, ListIsAList
<1>7. Range(from) = {<<stop, s>> : s \in near}
  <2>1. ASSUME NEW w \in Range(from) PROVE \E s \in near : w = <<stop, s>>
    <3>1. PICK i \in 1 .. Len(others) : from[i] = w
      BY <1>5 DEF Range
    <3>2. others[i] \in near
      BY <1>4, <3>1
    <3> QED BY <1>5, <3>1, <3>2
  <2>2. ASSUME NEW s \in near PROVE <<stop, s>> \in Range(from)
    <3>1. PICK i \in 1 .. Len(others) : others[i] = s
      BY <1>4
    <3> QED BY <1>5, <3>1 DEF Range
  <2> QED BY <2>1, <2>2
<1>8. Range(to) = {<<s, stop>> : s \in near}
  <2>1. ASSUME NEW w \in Range(to) PROVE \E s \in near : w = <<s, stop>>
    <3>1. PICK i \in 1 .. Len(others) : to[i] = w
      BY <1>5 DEF Range
    <3>2. others[i] \in near
      BY <1>4, <3>1
    <3> QED BY <1>5, <3>1, <3>2
  <2>2. ASSUME NEW s \in near PROVE <<s, stop>> \in Range(to)
    <3>1. PICK i \in 1 .. Len(others) : others[i] = s
      BY <1>4
    <3> QED BY <1>5, <3>1 DEF Range
  <2> QED BY <2>1, <2>2
<1>9. IsInjective(from) /\ IsInjective(to)
  BY <1>3, <1>5 DEF IsInjective
<1>10. IsAList(at) /\ IsInjective(at) /\ Range(at) = {<<stop, stop>>}
  <2>1. <<stop, stop>> \in {<<stop, stop>>}
    OBVIOUS
  <2>2. OneOf(<<stop, stop>>, {<<stop, stop>>}) = at
    BY DEF OneOf
  <2>3. IsAList(at) /\ Range(at) = {<<stop, stop>>}
    BY <2>2, OneOfIs
  <2> QED BY <2>3 DEF IsInjective
<1> HIDE DEF at
<1>11. IsAList(at \o from) /\ IsInjective(at \o from) /\ Range(at \o from) = Range(at) \cup Range(from)
  <2>1. Range(at) \cap Range(from) = {}
    BY <1>1, <1>7, <1>10
  <2>2. IsInjective(at \o from)
    BY <1>6, <1>9, <1>10, <2>1, ConcatInjective, Zenon
  <2> QED BY <1>6, <1>10, <2>2, ConcatHas DEF Concatenated
<1>12. IsAList((at \o from) \o to) /\ IsInjective((at \o from) \o to)
       /\ Range((at \o from) \o to) = Range(at \o from) \cup Range(to)
  <2>1. Range(at \o from) \cap Range(to) = {}
    BY <1>1, <1>7, <1>8, <1>10, <1>11
  <2>2. IsInjective((at \o from) \o to)
    BY <1>6, <1>9, <1>11, <2>1, ConcatInjective, Zenon
  <2> QED BY <1>6, <1>11, <2>2, ConcatHas DEF Concatenated
<1>13. Range((at \o from) \o to) = WalksOf(stop, seen)
  BY <1>7, <1>8, <1>10, <1>11, <1>12 DEF WalksOf, near
<1> QED BY <1>2, <1>12, <1>13

(* The pairs of stops that a feed of these stops connects.                 *)
Connected(stops) ==
  {w \in stops \X stops : w[1] = w[2] \/ {w[1], w[2]} \in Near}

LEMMA TransferRowsHave ==
  ASSUME NEW seen, IsFiniteSet(seen), NEW stops, IsAList(stops), IsInjective(stops),
         Range(stops) \cap seen = {}
  PROVE  /\ IsAList(TransferRows(stops, seen)) /\ IsInjective(TransferRows(stops, seen))
         /\ Range(TransferRows(stops, seen)) =
              Connected(seen \cup Range(stops)) \ Connected(seen)
<1> DEFINE earlier(i) == seen \cup {stops[j] : j \in 1 .. i - 1}
           parts == [i \in DOMAIN stops |-> WalksAt(stops[i], earlier(i))]
<1>1. /\ Len(stops) \in Nat /\ DOMAIN stops = 1 .. Len(stops)
      /\ \A i \in 1 .. Len(stops) : stops[i] \in Range(stops)
      /\ \A x \in Range(stops) : \E i \in 1 .. Len(stops) : stops[i] = x
  BY SequenceHas
<1>2. TransferRows(stops, seen) = FlattenSeq(parts)
  BY Zenon DEF TransferRows
<1>3. \A i, j \in 1 .. Len(stops) : stops[i] = stops[j] => i = j
  BY <1>1 DEF IsInjective
<1>4. ASSUME NEW i \in 1 .. Len(stops)
      PROVE  IsFiniteSet(earlier(i)) /\ stops[i] \notin earlier(i)
  <2>1. IsFiniteSet({stops[j] : j \in 1 .. i - 1})
    <3>1. IsFiniteSet(1 .. i - 1)
      BY FS_Interval
    <3>2. {stops[j] : j \in 1 .. i - 1} = {[k \in 1 .. i - 1 |-> stops[k]][j] : j \in 1 .. i - 1}
      OBVIOUS
    <3>3. [k \in 1 .. i - 1 |-> stops[k]] \in
            Surjection(1 .. i - 1, {stops[j] : j \in 1 .. i - 1})
      BY DEF Surjection
    <3> QED BY <3>1, <3>3, FS_Surjection
  <2>2. IsFiniteSet(earlier(i))
    BY <2>1, FS_Union
  <2>3. stops[i] \notin seen
    BY <1>1
  <2>4. \A j \in 1 .. i - 1 : stops[j] # stops[i]
    BY <1>1, <1>3
  <2> QED BY <2>2, <2>3, <2>4
<1> HIDE DEF earlier
<1>5. /\ DOMAIN parts = 1 .. Len(stops) /\ parts = [i \in 1 .. Len(stops) |-> parts[i]]
      /\ \A i \in 1 .. Len(stops) : parts[i] = WalksAt(stops[i], earlier(i))
  BY <1>1
<1> HIDE DEF parts
<1>6. \A i \in 1 .. Len(stops) : /\ IsAList(parts[i]) /\ IsInjective(parts[i])
                                 /\ Range(parts[i]) = WalksOf(stops[i], earlier(i))
  BY <1>4, <1>5, WalksAtHas
<1>7. AreLists(parts) /\ Len(parts) = Len(stops)
  BY <1>1, <1>5, <1>6, ListIsAList DEF AreLists
<1>8. ASSUME NEW i \in 1 .. Len(stops), NEW j \in 1 .. Len(stops), i < j
      PROVE  Range(parts[i]) \cap Range(parts[j]) = {}
  <2>1. stops[j] # stops[i] /\ stops[j] \notin earlier(i)
    <3>1. stops[j] \notin seen
      BY <1>1
    <3>2. \A k \in 1 .. i - 1 : stops[k] # stops[j]
      <4> SUFFICES ASSUME NEW k \in 1 .. i - 1 PROVE stops[k] # stops[j]
        OBVIOUS
      <4>1. k \in 1 .. Len(stops) /\ k # j
        BY <1>1, <1>8
      <4> QED BY <1>3, <4>1
    <3>3. stops[j] # stops[i]
      BY <1>3, <1>8
    <3> QED BY <3>1, <3>2, <3>3 DEF earlier
  <2>2. \A w \in WalksOf(stops[i], earlier(i)) : \E x, y \in earlier(i) \cup {stops[i]} : w = <<x, y>>
    BY DEF WalksOf
  <2>3. \A w \in WalksOf(stops[j], earlier(j)) : \E x : w = <<stops[j], x>> \/ w = <<x, stops[j]>>
    BY DEF WalksOf
  <2>4. WalksOf(stops[i], earlier(i)) \cap WalksOf(stops[j], earlier(j)) = {}
    BY <2>1, <2>2, <2>3
  <2> QED BY <1>6, <2>4
<1>9. IsInjective(FlattenSeq(parts))
  BY <1>6, <1>7, <1>8, FlattenInjective
<1>10. /\ IsAList(FlattenSeq(parts))
       /\ Range(FlattenSeq(parts)) = UNION {WalksOf(stops[i], earlier(i)) : i \in 1 .. Len(stops)}
  <2>1. /\ IsAList(FlattenSeq(parts))
        /\ Range(FlattenSeq(parts)) = UNION {Range(parts[i]) : i \in 1 .. Len(stops)}
    BY <1>7, FlattenHas
  <2> QED BY <1>6, <2>1
<1>11. ASSUME NEW w, NEW i \in 1 .. Len(stops), w \in WalksOf(stops[i], earlier(i))
       PROVE  w \in Connected(seen \cup Range(stops)) \ Connected(seen)
  <2>1. earlier(i) \subseteq seen \cup Range(stops) /\ stops[i] \in Range(stops)
    <3>1. \A j \in 1 .. i - 1 : stops[j] \in Range(stops)
      BY <1>1
    <3> QED BY <1>1, <3>1 DEF earlier
  <2>2. stops[i] \notin seen
    BY <1>1
  <2>3. PICK x \in earlier(i) \cup {stops[i]}, y \in earlier(i) \cup {stops[i]} :
          /\ w = <<x, y>> /\ (x = y \/ {x, y} \in Near)
          /\ x = stops[i] \/ y = stops[i]
    <3>1. \/ w = <<stops[i], stops[i]>>
          \/ \E s \in earlier(i) : {stops[i], s} \in Near /\ w = <<stops[i], s>>
          \/ \E s \in earlier(i) : {stops[i], s} \in Near /\ w = <<s, stops[i]>>
      BY <1>11 DEF WalksOf
    <3>2. \A s : {stops[i], s} = {s, stops[i]}
      OBVIOUS
    <3> QED BY <3>1, <3>2
  <2> QED BY <2>1, <2>2, <2>3 DEF Connected
<1>12. ASSUME NEW w, w \in Connected(seen \cup Range(stops)), w \notin Connected(seen)
       PROVE  \E i \in 1 .. Len(stops) : w \in WalksOf(stops[i], earlier(i))
  <2>1. PICK x \in seen \cup Range(stops), y \in seen \cup Range(stops) :
          w = <<x, y>> /\ (x = y \/ {x, y} \in Near)
    <3> DEFINE all == seen \cup Range(stops)
    <3>1. w \in all \X all /\ (w[1] = w[2] \/ {w[1], w[2]} \in Near)
      BY <1>12 DEF Connected
    <3> HIDE DEF all
    <3>2. w = <<w[1], w[2]>> /\ w[1] \in all /\ w[2] \in all
      BY <3>1
    <3> QED BY <3>1, <3>2 DEF all
  <2>2. ~(x \in seen /\ y \in seen)
    BY <1>12, <2>1 DEF Connected
  <2> DEFINE at == {i \in 1 .. Len(stops) : stops[i] = x \/ stops[i] = y}
  <2>3. IsFiniteSet(at) /\ at # {} /\ at \in SUBSET Nat
    <3>1. at # {}
      BY <1>1, <2>1, <2>2
    <3>2. IsFiniteSet(1 .. Len(stops))
      BY <1>1, FS_Interval
    <3> QED BY <3>1, <3>2, FS_Subset
  <2>4. PICK i \in at : \A j \in at : j <= i
    <3> DEFINE back == {Len(stops) - j : j \in at}
    <3>1. back \in SUBSET Nat /\ back # {}
      BY <1>1, <2>3
    <3>2. PICK b \in back : \A c \in back : b <= c
      <4> HIDE DEF back
      <4> QED BY <3>1, LeastExists
    <3>3. PICK i \in at : b = Len(stops) - i
      BY <3>2
    <3>4. \A j \in at : Len(stops) - i <= Len(stops) - j
      BY <3>2, <3>3
    <3>5. \A j \in at : j <= i
      BY <1>1, <2>3, <3>4
    <3> QED BY <3>5
  <2>5. i \in 1 .. Len(stops) /\ (stops[i] = x \/ stops[i] = y)
    BY <2>4
  <2>6. ASSUME NEW z \in {x, y}, z # stops[i] PROVE z \in earlier(i)
    <3>1. CASE z \in seen
      BY <3>1 DEF earlier
    <3>2. CASE z \notin seen
      <4>1. PICK j \in 1 .. Len(stops) : stops[j] = z
        BY <1>1, <2>1, <3>2
      <4>2. j \in at /\ j # i
        BY <2>6, <4>1
      <4>3. j \in 1 .. i - 1
        BY <2>4, <2>5, <4>2
      <4> QED BY <4>1, <4>3 DEF earlier
    <3> QED BY <3>1, <3>2
  <2> HIDE DEF at
  <2>7. CASE x = y
    BY <2>1, <2>5, <2>7 DEF WalksOf
  <2>8. CASE x # y /\ stops[i] = x
    <3>1. y \in earlier(i) /\ {stops[i], y} \in Near
      BY <2>1, <2>6, <2>8
    <3> QED BY <2>1, <2>5, <2>8, <3>1 DEF WalksOf
  <2>9. CASE x # y /\ stops[i] = y
    <3>1. x \in earlier(i) /\ {stops[i], x} \in Near
      <4>1. {x, y} = {y, x}
        OBVIOUS
      <4> QED BY <2>1, <2>6, <2>9, <4>1
    <3> QED BY <2>1, <2>5, <2>9, <3>1 DEF WalksOf
  <2> QED BY <2>5, <2>7, <2>8, <2>9
<1>13. Range(FlattenSeq(parts)) = Connected(seen \cup Range(stops)) \ Connected(seen)
  <2>1. \A w : w \in Range(FlattenSeq(parts)) <=>
                 \E i \in 1 .. Len(stops) : w \in WalksOf(stops[i], earlier(i))
    BY <1>10
  <2> QED BY <1>11, <1>12, <2>1
<1> QED BY <1>2, <1>9, <1>10, <1>13

-----------------------------------------------------------------------------
(***************************************************************************)
(* The invariant, first part: the queues hold what was given, the files'   *)
(* rows are lists, and the queues that hold documents keep to              *)
(* HighWaterMark; and what has finished has nothing more to come.          *)
(***************************************************************************)

Given ==
  {d \in UNION {Range(files[i].entries) : i \in DOMAIN files} : d # Unreadable}

AllVehicles == UNION {Range(d.vehicles) : d \in Usable}

Typed ==
  /\ files \in Inputs
  /\ file \in 1 .. Len(files) + 1
  /\ entry \in Nat \ {0}
  /\ file <= Len(files) => entry <= Len(files[file].entries) + 1
  /\ failures \in Nat /\ waiting \in BOOLEAN
  /\ IsAList(pushed) /\ IsAList(taken) /\ IsAList(parsed)
  /\ Len(pushed) <= HighWaterMark
  /\ Len(taken) <= HighWaterMark
  /\ Len(parsed) <= HighWaterMark
  /\ Range(pushed) \subseteq Given /\ Range(taken) \subseteq Given
  /\ Range(parsed) \subseteq Given /\ parsing \in Given \cup {None}
  /\ waiting => pushed # <<>>
  /\ ~waiting => Len(pushed) < HighWaterMark
  /\ parsing # None => Len(parsed) < HighWaterMark
  /\ IsAList(vehicles) /\ Range(vehicles) \subseteq AllVehicles
  /\ IsAList(calendars) /\ IsInjective(calendars)
  /\ trips \in Nat
  /\ DOMAIN written = Files /\ \A f \in Files : IsAList(written[f])
  /\ status \in {"converting", "delivered", "died"}

Ended ==
  /\ closed \subseteq Files
  /\ closed \cap ScheduleFiles # {} => SchedulesEnded
  /\ closed \cap JourneyFiles # {} => JourneysEnded
  /\ status = "delivered" => closed = Files

LEMMA FilesGiven ==
  ASSUME NEW given \in Inputs
  PROVE  /\ IsAList(given) /\ Len(given) \in Nat /\ DOMAIN given = 1 .. Len(given)
         /\ \A i \in 1 .. Len(given) :
              /\ IsAList(given[i].entries) /\ Len(given[i].entries) \in Nat
              /\ given[i].kind \in {"zip", "xml", "other"}
              /\ \A j \in 1 .. Len(given[i].entries) :
                   given[i].entries[j] \in Range(given[i].entries)
<1>1. IsAList(given)
  BY InputsAssumption
<1>2. ASSUME NEW i \in 1 .. Len(given)
      PROVE  /\ IsAList(given[i].entries) /\ given[i].kind \in {"zip", "xml", "other"}
  <2>1. given[i] \in Range(given)
    BY <1>1, SequenceHas
  <2> QED BY <2>1, InputsAssumption
<1> QED BY <1>1, <1>2, SequenceHas

LEMMA EntriesGiven ==
  ASSUME Typed, NEW i \in 1 .. Len(files), NEW j \in 1 .. Len(files[i].entries),
         files[i].entries[j] # Unreadable
  PROVE  files[i].entries[j] \in Given
<1>1. files[i].entries[j] \in Range(files[i].entries) /\ i \in DOMAIN files
  BY FilesGiven DEF Typed
<1> QED BY <1>1 DEF Given

LEMMA DocumentsGiven ==
  ASSUME files \in Inputs, NEW d \in Given PROVE IsADocument(d)
<1>1. PICK i \in DOMAIN files : d \in Range(files[i].entries)
  BY DEF Given
<1>2. files[i] \in Range(files)
  BY <1>1 DEF Range
<1>3. d # Unreadable
  BY DEF Given
<1> QED BY <1>1, <1>2, <1>3, InputsAssumption

LEMMA UsableOnes ==
  ASSUME NEW d
  PROVE  d \in Usable <=> d \in Given /\ d.isSchedule
BY DEF Usable, Given

LEMMA SchedulesGiven ==
  ASSUME files \in Inputs, NEW d \in Usable
  PROVE  /\ IsAList(d.operators) /\ IsAList(d.lines) /\ IsAList(d.stops)
         /\ IsAList(d.vehicles) /\ Range(d.vehicles) \subseteq AllVehicles
<1>1. d \in Given /\ d.isSchedule
  BY UsableOnes
<1>2. IsADocument(d)
  BY <1>1, DocumentsGiven
<1> QED BY <1>1, <1>2 DEF IsADocument, AllVehicles

LEMMA VehiclesGiven ==
  ASSUME files \in Inputs, NEW vehicle \in AllVehicles
  PROVE  /\ vehicle.profile # None => IsAProfile(vehicle.profile)
         /\ vehicle.period \in [start : Int, end : Int]
         /\ IsAList(vehicle.stops)
<1>1. PICK d \in Usable : vehicle \in Range(d.vehicles)
  BY DEF AllVehicles
<1>2. d \in Given /\ d.isSchedule
  BY UsableOnes
<1>3. IsADocument(d)
  BY <1>2, DocumentsGiven
<1>4. IsAVehicle(vehicle)
  BY <1>1, <1>2, <1>3 DEF IsADocument
<1> QED BY <1>4 DEF IsAVehicle

LEMMA RangeIsFinite == ASSUME NEW s, IsAList(s) PROVE IsFiniteSet(Range(s))
<1>1. Len(s) \in Nat /\ DOMAIN s = 1 .. Len(s) /\ s \in [1 .. Len(s) -> Range(s)]
  BY SequenceHas DEF IsAList
<1>2. s \in Surjection(1 .. Len(s), Range(s))
  BY <1>1, SequenceHas DEF Surjection
<1>3. IsFiniteSet(1 .. Len(s))
  BY <1>1, FS_Interval
<1> QED BY <1>2, <1>3, FS_Surjection

LEMMA FileNames ==
  /\ {"agency", "routes", "stops", "transfers"} \subseteq Files
  /\ {"calendar", "dates", "trips", "stop_times", "shapes"} \subseteq Files
  /\ ScheduleFiles \cap JourneyFiles = {} /\ Files = ScheduleFiles \cup JourneyFiles
BY DEF Files, ScheduleFiles, JourneyFiles

LEMMA NothingIsAList == IsAList(<<>>) /\ Range(<<>>) = {} /\ IsInjective(<<>>) /\ Len(<<>>) = 0
BY DEF IsAList, Range, IsInjective

(* The rows made of a schedule.                                            *)
LEMMA ScheduleRowsAre ==
  ASSUME Typed, NEW d \in Usable
  PROVE  /\ \A f \in Files : IsAList(ScheduleRows(f, d))
         /\ \A f \in JourneyFiles : ScheduleRows(f, d) = <<>>
         /\ ScheduleRows("agency", d) = NotIn(written["agency"], d.operators)
         /\ ScheduleRows("routes", d) = NotIn(written["routes"], d.lines)
         /\ ScheduleRows("stops", d) = NotIn(written["stops"], d.stops)
         /\ ScheduleRows("transfers", d) =
              TransferRows(NotIn(written["stops"], d.stops), Range(written["stops"]))
         /\ IsInjective(ScheduleRows("transfers", d))
         /\ Range(ScheduleRows("transfers", d)) =
              Connected(Range(written["stops"]) \cup Range(d.stops))
                \ Connected(Range(written["stops"]))
<1> DEFINE stops == NotIn(written["stops"], d.stops)
           seen == Range(written["stops"])
<1>1. /\ IsAList(d.operators) /\ IsAList(d.lines) /\ IsAList(d.stops)
  BY SchedulesGiven DEF Typed
<1>2. IsAList(stops) /\ IsInjective(stops) /\ Range(stops) = Range(d.stops) \ seen
  BY <1>1, NotInHas
<1>3. IsFiniteSet(seen)
  BY RangeIsFinite, FileNames DEF Typed
<1>4. /\ IsAList(TransferRows(stops, seen)) /\ IsInjective(TransferRows(stops, seen))
      /\ Range(TransferRows(stops, seen)) = Connected(seen \cup Range(d.stops)) \ Connected(seen)
  <2>1. Range(stops) \cap seen = {} /\ seen \cup Range(stops) = seen \cup Range(d.stops)
    BY <1>2
  <2> HIDE DEF stops, seen
  <2> QED BY <1>2, <1>3, <2>1, TransferRowsHave
<1>5. /\ ScheduleRows("agency", d) = NotIn(written["agency"], d.operators)
      /\ ScheduleRows("routes", d) = NotIn(written["routes"], d.lines)
      /\ ScheduleRows("stops", d) = stops
      /\ ScheduleRows("transfers", d) = TransferRows(stops, seen)
      /\ \A f \in JourneyFiles : ScheduleRows(f, d) = <<>>
  BY DEF ScheduleRows, AgencyRows, RouteRows, StopRows, New, JourneyFiles
<1>6. ASSUME NEW f \in Files PROVE IsAList(ScheduleRows(f, d))
  <2>1. CASE f \in JourneyFiles
    BY <1>5, <2>1, NothingIsAList
  <2>2. CASE f = "agency"
    BY <1>1, <1>5, <2>2, NotInHas
  <2>3. CASE f = "routes"
    BY <1>1, <1>5, <2>3, NotInHas
  <2>4. CASE f = "stops"
    BY <1>2, <1>5, <2>4
  <2>5. CASE f = "transfers"
    BY <1>4, <1>5, <2>5
  <2> QED BY <2>1, <2>2, <2>3, <2>4, <2>5 DEF Files, ScheduleFiles
<1> QED BY <1>4, <1>5, <1>6

CalendarRow(service, calendar) ==
  [service |-> service, days |-> calendar.days,
   start |-> calendar.start, end |-> calendar.end]

DatesRow(service, calendar) == [service |-> service, rows |-> DateRows(calendar)]

TripRow(vehicle, trip, service) ==
  [trip |-> trip, route |-> vehicle.route, service |-> service, shape |-> ShapeOf(vehicle)]

LEMMA OneRow ==
  ASSUME NEW x
  PROVE  /\ IsAList(<<x>>) /\ Range(<<x>>) = {x} /\ Len(<<x>>) = 1 /\ <<x>>[1] = x
         /\ IsInjective(<<x>>)
<1>1. OneOf(x, {x}) = <<x>>
  BY DEF OneOf
<1>2. IsAList(<<x>>) /\ Range(<<x>>) = {x}
  BY <1>1, OneOfIs
<1> QED BY <1>2 DEF IsInjective

(* The rows made of a journey.                                             *)
LEMMA JourneyRowsAre ==
  ASSUME Typed, NEW vehicle \in AllVehicles, NEW trip, NEW service, NEW calendar
  PROVE  /\ \A f \in Files : IsAList(JourneyRows(f, vehicle, trip, service, calendar))
         /\ \A f \in ScheduleFiles : JourneyRows(f, vehicle, trip, service, calendar) = <<>>
         /\ JourneyRows("calendar", vehicle, trip, service, calendar) =
              NotIn(written["calendar"], <<CalendarRow(service, calendar)>>)
         /\ JourneyRows("dates", vehicle, trip, service, calendar) =
              NotIn(written["dates"], <<DatesRow(service, calendar)>>)
         /\ JourneyRows("shapes", vehicle, trip, service, calendar) =
              NotIn(written["shapes"], <<ShapeOf(vehicle)>>)
         /\ JourneyRows("trips", vehicle, trip, service, calendar) =
              <<TripRow(vehicle, trip, service)>>
         /\ JourneyRows("stop_times", vehicle, trip, service, calendar) =
              StopTimeRows(vehicle, trip)
<1> DEFINE Rows(f) == JourneyRows(f, vehicle, trip, service, calendar)
<1>1. IsAList(StopTimeRows(vehicle, trip))
  <2> DEFINE t == StopTimeRows(vehicle, trip)
  <2>1. IsAList(vehicle.stops)
    BY VehiclesGiven DEF Typed
  <2>2. DOMAIN t = DOMAIN vehicle.stops /\ t = [i \in DOMAIN vehicle.stops |-> t[i]]
    BY DEF StopTimeRows
  <2> HIDE DEF t
  <2> QED BY <2>1, <2>2, MappedHas DEF t
<1>2. Rows("calendar") = NotIn(written["calendar"], <<CalendarRow(service, calendar)>>)
  BY DEF JourneyRows, CalendarRows, CalendarRow, New
<1>3. Rows("dates") = NotIn(written["dates"], <<DatesRow(service, calendar)>>)
  BY DEF JourneyRows, CalendarDatesRows, DatesRow, New
<1>4. Rows("shapes") = NotIn(written["shapes"], <<ShapeOf(vehicle)>>)
  BY DEF JourneyRows, ShapeRows, New
<1>5. Rows("trips") = <<TripRow(vehicle, trip, service)>>
  BY DEF JourneyRows, TripRows, TripRow
<1>6. Rows("stop_times") = StopTimeRows(vehicle, trip)
  BY DEF JourneyRows
<1>7. \A f \in ScheduleFiles : Rows(f) = <<>>
  BY DEF JourneyRows, ScheduleFiles
<1>8. ASSUME NEW f \in Files PROVE IsAList(Rows(f))
  <2>1. CASE f \in ScheduleFiles
    BY <1>7, <2>1, NothingIsAList
  <2>2. CASE f = "calendar"
    BY <1>2, <2>2, OneRow, NotInHas
  <2>3. CASE f = "dates"
    BY <1>3, <2>3, OneRow, NotInHas
  <2>4. CASE f = "shapes"
    BY <1>4, <2>4, OneRow, NotInHas
  <2>5. CASE f = "trips"
    BY <1>5, <2>5, OneRow
  <2>6. CASE f = "stop_times"
    BY <1>1, <1>6, <2>6
  <2> QED BY <2>1, <2>2, <2>3, <2>4, <2>5, <2>6 DEF Files, JourneyFiles
<1> QED BY <1>2, <1>3, <1>4, <1>5, <1>6, <1>7, <1>8

-----------------------------------------------------------------------------
(***************************************************************************)
(* Every step keeps the first part.                                        *)
(***************************************************************************)

LEMMA HeadIsTaken ==
  ASSUME NEW s, IsAList(s), s # <<>>
  PROVE  /\ IsAList(Tail(s)) /\ Len(Tail(s)) = Len(s) - 1 /\ Len(s) \in Nat \ {0}
         /\ Head(s) \in Range(s) /\ Range(Tail(s)) \subseteq Range(s)
         /\ <<Head(s)>> \o Tail(s) = s
<1>1. /\ IsAList(Tail(s)) /\ Len(s) \in Nat \ {0}
      /\ Len(Tail(s)) = Len(s) - 1
      /\ \A i \in 1 .. Len(s) - 1 : Tail(s)[i] = s[i + 1]
      /\ Head(s) = s[1]
  BY TailHas
<1>2. Head(s) \in Range(s)
  BY <1>1, SequenceHas
<1>3. Range(Tail(s)) \subseteq Range(s)
  <2> SUFFICES ASSUME NEW x \in Range(Tail(s)) PROVE x \in Range(s)
    OBVIOUS
  <2>1. PICK i \in 1 .. Len(Tail(s)) : Tail(s)[i] = x
    BY <1>1, SequenceHas
  <2>2. i + 1 \in 1 .. Len(s) /\ s[i + 1] = x
    BY <1>1, <2>1
  <2> QED BY <2>2, SequenceHas
<1>4. s \in Seq(Range(s))
  BY DEF IsAList
<1>5. <<Head(s)>> \o Tail(s) = s
  BY <1>1, <1>4
<1> QED BY <1>1, <1>2, <1>3, <1>5

LEMMA AppendedToo ==
  ASSUME NEW s, IsAList(s), NEW x
  PROVE  /\ IsAList(Append(s, x)) /\ Len(Append(s, x)) = Len(s) + 1 /\ Len(s) \in Nat
         /\ Range(Append(s, x)) = Range(s) \cup {x}
         /\ Append(s, x) = s \o <<x>> /\ Append(s, x) # <<>>
<1>1. Appended(Append(s, x), s, x) /\ Len(s) \in Nat
  BY AppendHas, SequenceHas
<1>2. s \in Seq(Range(s) \cup {x})
  BY DEF IsAList
<1>3. Append(s, x) = s \o <<x>> /\ Append(s, x) # <<>>
  BY <1>2
<1> QED BY <1>1, <1>3 DEF Appended

LEMMA TypedAtFirst == ASSUME Init PROVE Typed /\ Ended
<1>1. /\ files \in Inputs /\ Len(files) \in Nat
      /\ \A i \in 1 .. Len(files) : Len(files[i].entries) \in Nat
  BY FilesGiven DEF Init
<1>2. Len(<<>>) = 0 /\ HighWaterMark \in Nat /\ 0 < HighWaterMark
  BY HighWaterMarkAssumption
<1>3. /\ DOMAIN written = Files /\ \A f \in Files : IsAList(written[f])
  BY NothingIsAList DEF Init
<1>4. /\ waiting \in BOOLEAN /\ waiting => pushed # <<>>
      /\ ~waiting => Len(pushed) < HighWaterMark
      /\ parsing # None => Len(parsed) < HighWaterMark
      /\ Range(pushed) = {} /\ Range(taken) = {} /\ Range(parsed) = {} /\ Range(vehicles) = {}
      /\ Len(pushed) <= HighWaterMark /\ Len(taken) <= HighWaterMark
      /\ Len(parsed) <= HighWaterMark
  BY <1>2, NothingIsAList DEF Init
<1>6. /\ file \in 1 .. Len(files) + 1 /\ entry \in Nat \ {0} /\ failures \in Nat /\ trips \in Nat
      /\ file <= Len(files) => entry <= Len(files[file].entries) + 1
  BY <1>1 DEF Init
<1>7. Typed
  BY <1>1, <1>3, <1>4, <1>6, NothingIsAList DEF Init, Typed
<1>5. Ended
  BY DEF Init, Ended
<1> QED BY <1>5, <1>7

LEMMA PushDocumentTyped == ASSUME Typed, PushDocument PROVE Typed'
<1> DEFINE d == files[file].entries[entry]
<1>1. /\ file \in 1 .. Len(files) /\ entry \in 1 .. Len(files[file].entries) /\ ~waiting
      /\ Len(files) \in Nat /\ Len(files[file].entries) \in Nat /\ d # Unreadable
  BY FilesGiven DEF Typed, PushDocument, Reading
<1>2. d \in Given
  BY <1>1, EntriesGiven
<1>3. /\ pushed' = Append(pushed, d) /\ waiting' = (Len(pushed') >= HighWaterMark)
      /\ entry' = entry + 1
      /\ UNCHANGED <<files, file, failures, taken, parsing, parsed, vehicles, calendars, trips,
                     written, status>>
  BY DEF PushDocument, NextEntry, numbers
<1> HIDE DEF d
<1>4. /\ IsAList(pushed') /\ Len(pushed') = Len(pushed) + 1 /\ Len(pushed) \in Nat
      /\ Range(pushed') = Range(pushed) \cup {d} /\ pushed' # <<>>
  BY <1>3, AppendedToo DEF Typed
<1>5. Given' = Given /\ AllVehicles' = AllVehicles
  BY <1>3 DEF Given, AllVehicles, Usable
<1>6. /\ Len(pushed') <= HighWaterMark /\ waiting' \in BOOLEAN
      /\ ~waiting' => Len(pushed') < HighWaterMark
  <2>1. waiting' \in BOOLEAN /\ (~waiting' => ~(Len(pushed') >= HighWaterMark))
    <3> DEFINE full == Len(pushed') >= HighWaterMark
    <3>1. full \in BOOLEAN /\ waiting' = full
      BY <1>3
    <3> HIDE DEF full
    <3>2. waiting' \in BOOLEAN /\ (~waiting' => ~full)
      BY <3>1
    <3> QED BY <3>2 DEF full
  <2>2. Len(pushed) < HighWaterMark
    BY <1>1 DEF Typed
  <2> QED BY <1>4, <2>1, <2>2, HighWaterMarkAssumption
<1>7. entry' <= Len(files[file].entries) + 1 /\ entry' \in Nat \ {0}
  BY <1>1, <1>3
<1> QED BY <1>2, <1>3, <1>4, <1>5, <1>6, <1>7 DEF Typed

LEMMA SkipEntryTyped == ASSUME Typed, SkipEntry PROVE Typed'
<1>1. /\ file \in 1 .. Len(files) /\ entry \in 1 .. Len(files[file].entries)
      /\ Len(files) \in Nat /\ Len(files[file].entries) \in Nat
  BY FilesGiven DEF Typed, SkipEntry, Reading
<1>2. /\ entry' = entry + 1 /\ failures' = failures + 1
      /\ UNCHANGED <<files, file, waiting, pushed, taken, parsing, parsed, vehicles, calendars,
                     trips, written, status>>
  BY DEF SkipEntry, NextEntry, numbers, documents
<1>3. Given' = Given /\ AllVehicles' = AllVehicles
  BY <1>2 DEF Given, AllVehicles, Usable
<1>4. entry' <= Len(files[file].entries) + 1 /\ entry' \in Nat \ {0} /\ failures' \in Nat
  BY <1>1, <1>2 DEF Typed
<1> QED BY <1>2, <1>3, <1>4 DEF Typed

LEMMA NextFileTyped == ASSUME Typed, NextFile PROVE Typed'
<1>1. /\ file \in 1 .. Len(files) /\ Len(files) \in Nat
      /\ \A i \in 1 .. Len(files) : Len(files[i].entries) \in Nat
  BY FilesGiven DEF Typed, NextFile, Reading
<1>2. /\ entry' = 1 /\ file' = file + 1
      /\ UNCHANGED <<files, failures, waiting, pushed, taken, parsing, parsed, vehicles, calendars,
                     trips, written, status>>
  BY DEF NextFile, numbers, documents
<1>3. Given' = Given /\ AllVehicles' = AllVehicles
  BY <1>2 DEF Given, AllVehicles, Usable
<1>4. /\ file' \in 1 .. Len(files) + 1
      /\ file' <= Len(files) => entry' <= Len(files[file'].entries) + 1
  BY <1>1, <1>2 DEF Typed
<1> QED BY <1>2, <1>3, <1>4 DEF Typed

LEMMA TakeTyped == ASSUME Typed, Take PROVE Typed'
<1>1. /\ taken' = Append(taken, Head(pushed)) /\ pushed' = Tail(pushed) /\ waiting' = FALSE
      /\ pushed # <<>> /\ Len(taken) < HighWaterMark
      /\ UNCHANGED <<files, file, entry, failures, parsing, parsed, vehicles, calendars,
                     trips, written, status>>
  BY DEF Take, numbers
<1>2. /\ IsAList(pushed') /\ Len(pushed') = Len(pushed) - 1 /\ Len(pushed) \in Nat \ {0}
      /\ Head(pushed) \in Given /\ Range(pushed') \subseteq Given
  BY <1>1, HeadIsTaken DEF Typed
<1>3. /\ IsAList(taken') /\ Len(taken') = Len(taken) + 1 /\ Len(taken) \in Nat
      /\ Range(taken') \subseteq Given
  <2>1. IsAList(taken) /\ Range(taken) \subseteq Given
    BY DEF Typed
  <2>2. /\ IsAList(taken') /\ Len(taken') = Len(taken) + 1 /\ Len(taken) \in Nat
        /\ Range(taken') = Range(taken) \cup {Head(pushed)}
    BY <1>1, <2>1, AppendedToo
  <2> QED BY <1>2, <2>1, <2>2
<1>4. Given' = Given /\ AllVehicles' = AllVehicles
  BY <1>1 DEF Given, AllVehicles, Usable
<1>5. Len(taken') <= HighWaterMark /\ Len(pushed') < HighWaterMark /\ Len(pushed') <= HighWaterMark
  BY <1>1, <1>2, <1>3, HighWaterMarkAssumption DEF Typed
<1> QED BY <1>1, <1>2, <1>3, <1>4, <1>5 DEF Typed

LEMMA ParseTyped == ASSUME Typed, Parse PROVE Typed'
<1>1. /\ parsing' = Head(taken) /\ taken' = Tail(taken) /\ taken # <<>>
      /\ Len(parsed) < HighWaterMark
      /\ UNCHANGED <<files, file, entry, failures, waiting, pushed, parsed, vehicles, calendars,
                     trips, written, status>>
  BY DEF Parse, numbers, reading
<1>2. /\ IsAList(taken') /\ Len(taken') = Len(taken) - 1 /\ Len(taken) \in Nat \ {0}
      /\ Head(taken) \in Given /\ Range(taken') \subseteq Given
  BY <1>1, HeadIsTaken DEF Typed
<1>3. Given' = Given /\ AllVehicles' = AllVehicles
  BY <1>1 DEF Given, AllVehicles, Usable
<1>4. Len(taken') <= HighWaterMark
  BY <1>2, HighWaterMarkAssumption DEF Typed
<1> QED BY <1>1, <1>2, <1>3, <1>4 DEF Typed

LEMMA ParsedTyped == ASSUME Typed, Parsed PROVE Typed'
<1>1. /\ parsed' = Append(parsed, parsing) /\ parsing' = None /\ parsing # None
      /\ UNCHANGED <<files, file, entry, failures, waiting, pushed, taken, vehicles, calendars,
                     trips, written, status>>
  BY DEF Parsed, numbers, reading
<1>2. /\ IsAList(parsed') /\ Len(parsed') = Len(parsed) + 1 /\ Len(parsed) \in Nat
      /\ Range(parsed') \subseteq Given
  <2>1. IsAList(parsed) /\ Range(parsed) \subseteq Given /\ parsing \in Given
    BY <1>1 DEF Typed
  <2>2. /\ IsAList(parsed') /\ Len(parsed') = Len(parsed) + 1 /\ Len(parsed) \in Nat
        /\ Range(parsed') = Range(parsed) \cup {parsing}
    BY <1>1, <2>1, AppendedToo
  <2> QED BY <2>1, <2>2
<1>3. Given' = Given /\ AllVehicles' = AllVehicles
  BY <1>1 DEF Given, AllVehicles, Usable
<1>4. Len(parsed') <= HighWaterMark
  BY <1>1, <1>2, HighWaterMarkAssumption DEF Typed
<1> QED BY <1>1, <1>2, <1>3, <1>4 DEF Typed

(* What Extract does with the document at the head of the queue.           *)
LEMMA ExtractIs ==
  ASSUME Typed, Extract
  PROVE  /\ parsed # <<>> /\ Head(parsed) \in Given /\ parsed' = Tail(parsed)
         /\ Head(parsed).isSchedule =>
              /\ Head(parsed) \in Usable
              /\ vehicles' = vehicles \o Head(parsed).vehicles
              /\ DOMAIN written' = Files
              /\ \A f \in Files : written'[f] = written[f] \o ScheduleRows(f, Head(parsed))
         /\ ~Head(parsed).isSchedule => vehicles' = vehicles /\ written' = written
         /\ UNCHANGED <<files, file, entry, failures, waiting, pushed, taken, parsing,
                        calendars, trips, closed, status>>
<1>1. /\ parsed # <<>> /\ parsed' = Tail(parsed)
      /\ UNCHANGED <<files, file, entry, failures, waiting, pushed, taken, parsing,
                     calendars, trips, closed, status>>
  BY DEF Extract, reading, numbers
<1>2. Head(parsed) \in Given
  BY <1>1, HeadIsTaken DEF Typed
<1>3. CASE Head(parsed).isSchedule
  <2>1. /\ vehicles' = vehicles \o Head(parsed).vehicles
        /\ written' = [f \in Files |-> written[f] \o ScheduleRows(f, Head(parsed))]
    BY <1>3 DEF Extract
  <2> QED BY <1>1, <1>2, <1>3, <2>1, UsableOnes
<1>4. CASE ~Head(parsed).isSchedule
  BY <1>1, <1>2, <1>4 DEF Extract
<1> QED BY <1>3, <1>4

LEMMA ExtractTyped == ASSUME Typed, Extract PROVE Typed'
<1> DEFINE d == Head(parsed)
<1>1. /\ parsed # <<>> /\ d \in Given /\ parsed' = Tail(parsed)
      /\ d.isSchedule =>
           /\ d \in Usable
           /\ vehicles' = vehicles \o d.vehicles
           /\ DOMAIN written' = Files
           /\ \A f \in Files : written'[f] = written[f] \o ScheduleRows(f, d)
      /\ ~d.isSchedule => vehicles' = vehicles /\ written' = written
      /\ UNCHANGED <<files, file, entry, failures, waiting, pushed, taken, parsing,
                     calendars, trips, closed, status>>
  BY ExtractIs
<1>2. /\ IsAList(parsed') /\ Len(parsed') = Len(parsed) - 1 /\ Len(parsed) \in Nat \ {0}
      /\ Range(parsed') \subseteq Given
  BY <1>1, HeadIsTaken DEF Typed
<1> HIDE DEF d
<1>3. Given' = Given /\ AllVehicles' = AllVehicles
  BY <1>1 DEF Given, AllVehicles, Usable
<1>4. Len(parsed') <= HighWaterMark /\ (parsing # None => Len(parsed') < HighWaterMark)
  BY <1>2, HighWaterMarkAssumption DEF Typed
<1>5. /\ IsAList(vehicles') /\ Range(vehicles') \subseteq AllVehicles
      /\ DOMAIN written' = Files /\ \A f \in Files : IsAList(written'[f])
  <2>1. CASE d.isSchedule
    <3>1. d \in Usable /\ vehicles' = vehicles \o d.vehicles /\ DOMAIN written' = Files
          /\ \A f \in Files : written'[f] = written[f] \o ScheduleRows(f, d)
      BY <1>1, <2>1
    <3>2. IsAList(d.vehicles) /\ Range(d.vehicles) \subseteq AllVehicles
      BY <3>1, SchedulesGiven DEF Typed
    <3>3. IsAList(vehicles) /\ Range(vehicles) \subseteq AllVehicles
      BY DEF Typed
    <3>4. IsAList(vehicles') /\ Range(vehicles') = Range(vehicles) \cup Range(d.vehicles)
      BY <3>1, <3>2, <3>3, ConcatHas DEF Concatenated
    <3>5. ASSUME NEW f \in Files PROVE IsAList(written'[f])
      <4>1. IsAList(written[f]) /\ IsAList(ScheduleRows(f, d))
        BY <3>1, ScheduleRowsAre DEF Typed
      <4>2. written'[f] = written[f] \o ScheduleRows(f, d)
        BY <3>1
      <4>3. IsAList(written[f] \o ScheduleRows(f, d))
        BY <4>1, ConcatHas DEF Concatenated
      <4> QED BY <4>2, <4>3
    <3> QED BY <3>1, <3>2, <3>3, <3>4, <3>5
  <2>2. CASE ~d.isSchedule
    BY <1>1, <2>2 DEF Typed
  <2> QED BY <2>1, <2>2
<1> QED BY <1>1, <1>2, <1>3, <1>4, <1>5 DEF Typed

(* The calendars, with one more if it is new.                              *)
LEMMA CalendarIsThere ==
  ASSUME Typed, NEW calendar, NEW more,
         more = IF calendar \in Range(calendars) THEN calendars
                ELSE Append(calendars, calendar)
  PROVE  /\ IsAList(more) /\ IsInjective(more)
         /\ ServiceOf(calendar) \in DOMAIN more /\ more[ServiceOf(calendar)] = calendar
         /\ \A id \in DOMAIN calendars : id \in DOMAIN more /\ more[id] = calendars[id]
<1>1. IsAList(calendars) /\ IsInjective(calendars)
  BY DEF Typed
<1>2. /\ Len(calendars) \in Nat /\ DOMAIN calendars = 1 .. Len(calendars)
      /\ \A x \in Range(calendars) : \E i \in 1 .. Len(calendars) : calendars[i] = x
  BY <1>1, SequenceHas
<1>3. CASE calendar \in Range(calendars)
  <2>1. more = calendars
    BY <1>3
  <2>2. ServiceOf(calendar) \in DOMAIN calendars /\ calendars[ServiceOf(calendar)] = calendar
    BY <1>2, <1>3 DEF ServiceOf
  <2> QED BY <1>1, <2>1, <2>2
<1>4. CASE calendar \notin Range(calendars)
  <2>1. more = Append(calendars, calendar) /\ ServiceOf(calendar) = Len(calendars) + 1
    BY <1>4 DEF ServiceOf
  <2>2. Appended(more, calendars, calendar)
    BY <1>1, <2>1, AppendHas
  <2>3. /\ IsAList(more) /\ Len(more) = Len(calendars) + 1
        /\ \A i \in 1 .. Len(calendars) : more[i] = calendars[i]
        /\ more[Len(calendars) + 1] = calendar
    BY <2>2 DEF Appended
  <2>4. DOMAIN more = 1 .. Len(calendars) + 1
    BY <2>3, SequenceHas
  <2>5. IsInjective(more)
    <3>1. \A i \in 1 .. Len(calendars) : calendars[i] # calendar
      BY <1>2, <1>4 DEF Range
    <3>2. \A i, j \in 1 .. Len(calendars) : calendars[i] = calendars[j] => i = j
      BY <1>1, <1>2 DEF IsInjective
    <3>3. \A i \in 1 .. Len(calendars) + 1 : i \in 1 .. Len(calendars) \/ i = Len(calendars) + 1
      BY <1>2
    <3> QED BY <2>3, <2>4, <3>1, <3>2, <3>3 DEF IsInjective
  <2> QED BY <1>2, <2>1, <2>3, <2>4, <2>5
<1> QED BY <1>3, <1>4

(* What ProcessVehicle does with the journey at the head of its queue.     *)
LEMMA ProcessVehicleIs ==
  ASSUME Typed, ProcessVehicle,
         NEW vehicle, vehicle = Head(vehicles),
         NEW calendar, calendar = GetCalendar(vehicle.profile, vehicle.period)
  PROVE  /\ vehicles # <<>> /\ vehicle \in AllVehicles /\ vehicles' = Tail(vehicles)
         /\ ~Completes(vehicle) => trips' = trips /\ written' = written
         /\ Completes(vehicle) =>
              /\ trips' = trips + 1
              /\ DOMAIN written' = Files
              /\ \A f \in Files : written'[f] = written[f] \o
                   JourneyRows(f, vehicle, trips + 1, ServiceOf(calendar), calendar)
         /\ ~IsJourney(vehicle) => calendars' = calendars
         /\ IsJourney(vehicle) =>
              calendars' = IF calendar \in Range(calendars) THEN calendars
                           ELSE Append(calendars, calendar)
         /\ UNCHANGED <<files, file, entry, failures, waiting, pushed, taken, parsing, parsed,
                        closed, status>>
<1>1. /\ vehicles # <<>> /\ vehicles' = Tail(vehicles)
      /\ UNCHANGED <<files, file, entry, failures, waiting, pushed, taken, parsing, parsed,
                     closed, status>>
  BY DEF ProcessVehicle, reading
<1>2. vehicle \in AllVehicles
  BY <1>1, HeadIsTaken DEF Typed
<1>3. \/ ~IsJourney(vehicle) /\ UNCHANGED <<calendars, trips, written>>
      \/ /\ IsJourney(vehicle)
         /\ calendars' = IF calendar \in Range(calendars) THEN calendars
                         ELSE Append(calendars, calendar)
         /\ IF Completes(vehicle)
            THEN /\ trips' = trips + 1
                 /\ written' = [f \in Files |-> written[f] \o
                      JourneyRows(f, vehicle, trips + 1, ServiceOf(calendar), calendar)]
            ELSE UNCHANGED <<trips, written>>
  BY DEF ProcessVehicle, numbers
<1>4. Completes(vehicle) => IsJourney(vehicle)
  BY DEF Completes
<1>5. CASE ~IsJourney(vehicle)
  BY <1>1, <1>2, <1>3, <1>4, <1>5
<1>6. CASE IsJourney(vehicle) /\ ~Completes(vehicle)
  BY <1>1, <1>2, <1>3, <1>6
<1>7. CASE IsJourney(vehicle) /\ Completes(vehicle)
  <2>1. /\ trips' = trips + 1
        /\ written' = [f \in Files |-> written[f] \o
             JourneyRows(f, vehicle, trips + 1, ServiceOf(calendar), calendar)]
        /\ calendars' = IF calendar \in Range(calendars) THEN calendars
                        ELSE Append(calendars, calendar)
    BY <1>3, <1>7
  <2> QED BY <1>1, <1>2, <1>7, <2>1
<1> QED BY <1>5, <1>6, <1>7

LEMMA ProcessVehicleTyped == ASSUME Typed, ProcessVehicle PROVE Typed'
<1>1. PICK vehicle : vehicle = Head(vehicles)
  OBVIOUS
<1>2. PICK calendar : calendar = GetCalendar(vehicle.profile, vehicle.period)
  OBVIOUS
<1>3. /\ vehicles # <<>> /\ vehicle \in AllVehicles /\ vehicles' = Tail(vehicles)
      /\ ~Completes(vehicle) => trips' = trips /\ written' = written
      /\ Completes(vehicle) =>
           /\ trips' = trips + 1
           /\ DOMAIN written' = Files
           /\ \A f \in Files : written'[f] = written[f] \o
                JourneyRows(f, vehicle, trips + 1, ServiceOf(calendar), calendar)
      /\ ~IsJourney(vehicle) => calendars' = calendars
      /\ IsJourney(vehicle) =>
           calendars' = IF calendar \in Range(calendars) THEN calendars
                        ELSE Append(calendars, calendar)
      /\ UNCHANGED <<files, file, entry, failures, waiting, pushed, taken, parsing, parsed,
                     closed, status>>
  BY <1>1, <1>2, ProcessVehicleIs
<1>4. Given' = Given /\ AllVehicles' = AllVehicles
  BY <1>3 DEF Given, AllVehicles, Usable
<1>5. IsAList(vehicles') /\ Range(vehicles') \subseteq AllVehicles
  BY <1>3, HeadIsTaken DEF Typed
<1>6. IsAList(calendars') /\ IsInjective(calendars')
  <2>1. CASE IsJourney(vehicle)
    BY <1>3, <2>1, CalendarIsThere
  <2>2. CASE ~IsJourney(vehicle)
    BY <1>3, <2>2 DEF Typed
  <2> QED BY <2>1, <2>2
<1>7. trips' \in Nat /\ DOMAIN written' = Files /\ \A f \in Files : IsAList(written'[f])
  <2>1. CASE Completes(vehicle)
    <3>1. ASSUME NEW f \in Files PROVE IsAList(written'[f])
      <4>1. IsAList(written[f])
            /\ IsAList(JourneyRows(f, vehicle, trips + 1, ServiceOf(calendar), calendar))
        BY <1>3, JourneyRowsAre DEF Typed
      <4>2. written'[f] = written[f] \o
              JourneyRows(f, vehicle, trips + 1, ServiceOf(calendar), calendar)
        BY <1>3, <2>1
      <4> QED BY <4>1, <4>2, ConcatHas DEF Concatenated
    <3> QED BY <1>3, <2>1, <3>1 DEF Typed
  <2>2. CASE ~Completes(vehicle)
    BY <1>3, <2>2 DEF Typed
  <2> QED BY <2>1, <2>2
<1> QED BY <1>3, <1>4, <1>5, <1>6, <1>7 DEF Typed

LEMMA QuietTyped ==
  ASSUME Typed, UNCHANGED <<files, file, entry, failures, waiting, pushed, taken, parsing, parsed,
                            vehicles, calendars, trips, written>>,
         status' \in {"converting", "delivered", "died"}
  PROVE  Typed'
<1>1. Given' = Given /\ AllVehicles' = AllVehicles
  BY DEF Given, AllVehicles, Usable
<1> QED BY <1>1 DEF Typed

LEMMA QuietSteps ==
  ASSUME Typed, FailFile \/ ParseRejects \/ Deliver \/ (\E f \in Files : Finish(f)) \/ UNCHANGED vars
  PROVE  /\ UNCHANGED <<files, file, entry, failures, waiting, pushed, taken, parsing, parsed,
                        vehicles, calendars, trips, written>>
         /\ status' \in {"converting", "delivered", "died"}
<1>1. CASE FailFile
  BY <1>1 DEF FailFile, reading, documents, numbers
<1>2. CASE ParseRejects
  BY <1>2 DEF ParseRejects, reading, documents, numbers
<1>3. CASE Deliver
  BY <1>3 DEF Deliver, reading, documents, numbers
<1>4. ASSUME NEW f \in Files, Finish(f)
      PROVE  /\ UNCHANGED <<files, file, entry, failures, waiting, pushed, taken, parsing, parsed,
                            vehicles, calendars, trips, written>>
             /\ status' = status
  BY <1>4 DEF Finish, reading, documents, numbers
<1>5. CASE UNCHANGED vars
  BY <1>5 DEF vars, reading, documents, numbers, Typed
<1> QED BY <1>1, <1>2, <1>3, <1>4, <1>5 DEF Typed

LEMMA StepKeepsTyped == ASSUME Typed, [Next]_vars PROVE Typed'
<1>1. CASE PushDocument BY <1>1, PushDocumentTyped
<1>2. CASE SkipEntry BY <1>2, SkipEntryTyped
<1>3. CASE NextFile BY <1>3, NextFileTyped
<1>4. CASE Take BY <1>4, TakeTyped
<1>5. CASE Parse BY <1>5, ParseTyped
<1>6. CASE Parsed BY <1>6, ParsedTyped
<1>7. CASE Extract BY <1>7, ExtractTyped
<1>8. CASE ProcessVehicle BY <1>8, ProcessVehicleTyped
<1>9. CASE FailFile \/ ParseRejects \/ Deliver \/ (\E f \in Files : Finish(f)) \/ UNCHANGED vars
  BY <1>9, QuietSteps, QuietTyped
<1> QED BY <1>1, <1>2, <1>3, <1>4, <1>5, <1>6, <1>7, <1>8, <1>9 DEF Next

LEMMA SchedulesStayEnded ==
  ASSUME Typed, [Next]_vars, SchedulesEnded
  PROVE  SchedulesEnded' /\ (JourneysEnded => JourneysEnded')
<1> USE DEF SchedulesEnded, JourneysEnded, ParsingEnded, FilesEnded
<1>1. /\ file > Len(files) /\ pushed = <<>> /\ taken = <<>> /\ parsing = None /\ parsed = <<>>
      /\ Len(files) \in Nat /\ file \in Nat
  BY FilesGiven DEF Typed
<1>2. ~Reading
  BY <1>1 DEF Reading
<1>3. ~PushDocument /\ ~SkipEntry /\ ~NextFile /\ ~Take /\ ~Parse /\ ~Parsed /\ ~Extract
  BY <1>1, <1>2 DEF PushDocument, SkipEntry, NextFile, Take, Parse, Parsed, Extract
<1>4. CASE ProcessVehicle
  BY <1>1, <1>4 DEF ProcessVehicle, reading
<1>5. CASE FailFile \/ ParseRejects \/ Deliver \/ (\E f \in Files : Finish(f)) \/ UNCHANGED vars
  BY <1>1, <1>5, QuietSteps
<1> QED BY <1>3, <1>4, <1>5 DEF Next

LEMMA StepKeepsEnded == ASSUME Typed, Ended, [Next]_vars PROVE Ended'
<1>1. CASE \E f \in Files : Finish(f)
  <2>1. PICK f \in Files : Finish(f)
    BY <1>1
  <2>2. /\ f \notin closed /\ closed' = closed \cup {f} /\ status' = status
        /\ IF f \in ScheduleFiles THEN SchedulesEnded ELSE JourneysEnded
        /\ status = "converting"
    BY <2>1 DEF Finish, Converting
  <2>3. JourneysEnded => SchedulesEnded
    BY DEF JourneysEnded
  <2>4. closed' \cap ScheduleFiles # {} => SchedulesEnded
    BY <2>2, <2>3 DEF Ended
  <2>5. closed' \cap JourneyFiles # {} => JourneysEnded
    BY <2>2, FileNames DEF Ended
  <2> QED BY <2>2, <2>3, <2>4, <2>5, SchedulesStayEnded DEF Ended
<1>2. CASE ~\E f \in Files : Finish(f)
  <2>1. closed' = closed
    <3>1. CASE Next
      BY <1>2, <3>1 DEF Next, PushDocument, SkipEntry, FailFile, NextFile, Take, Parse, Parsed,
        ParseRejects, Extract, ProcessVehicle, Deliver
    <3>2. CASE UNCHANGED vars
      BY <3>2 DEF vars
    <3> QED BY <3>1, <3>2
  <2>2. status' = "delivered" => closed' = Files
    <3>1. CASE Deliver
      BY <3>1 DEF Deliver
    <3>2. CASE status' = status
      BY <2>1, <3>2 DEF Ended
    <3>3. CASE FailFile \/ ParseRejects
      BY <3>3 DEF FailFile, ParseRejects
    <3>4. CASE Next /\ ~Deliver /\ ~FailFile /\ ~ParseRejects
      <4>1. status' = status
        BY <1>2, <3>4 DEF Next, PushDocument, SkipEntry, NextFile, Take, Parse, Parsed,
          Extract, ProcessVehicle
      <4> QED BY <3>2, <4>1
    <3>5. CASE UNCHANGED vars
      BY <3>2, <3>5 DEF vars
    <3> QED BY <3>1, <3>2, <3>3, <3>4, <3>5
  <2>3. JourneysEnded => SchedulesEnded
    BY DEF JourneysEnded
  <2> QED BY <2>1, <2>2, <2>3, SchedulesStayEnded DEF Ended
<1> QED BY <1>1, <1>2
-----------------------------------------------------------------------------
(***************************************************************************)
(* The documents read so far that can be used, in order, and those that    *)
(* are on their way from the reader to TransXChangeStream.                 *)
(***************************************************************************)
OfEachFile == [i \in DOMAIN files |-> Those(files[i].entries, Usable)]

OfThisFile ==
  IF file <= Len(files) THEN Those(FirstOf(files[file].entries, entry - 1), Usable) ELSE <<>>

DocumentsRead == FlattenSeq(FirstOf(OfEachFile, file - 1)) \o OfThisFile

InParser == IF parsing = None THEN <<>> ELSE <<parsing>>

OnTheWay == parsed \o (InParser \o (taken \o pushed))

LEMMA OfEachFileHas ==
  ASSUME files \in Inputs
  PROVE  /\ AreLists(OfEachFile) /\ Len(OfEachFile) = Len(files)
         /\ \A i \in 1 .. Len(files) : OfEachFile[i] = Those(files[i].entries, Usable)
<1>1. IsAList(files) /\ DOMAIN files = 1 .. Len(files) /\ Len(files) \in Nat
      /\ \A i \in 1 .. Len(files) : IsAList(files[i].entries)
  BY FilesGiven
<1>2. /\ DOMAIN OfEachFile = 1 .. Len(files)
      /\ OfEachFile = [i \in 1 .. Len(files) |-> OfEachFile[i]]
      /\ \A i \in 1 .. Len(files) : OfEachFile[i] = Those(files[i].entries, Usable)
  BY <1>1 DEF OfEachFile
<1>3. IsAList(OfEachFile) /\ Len(OfEachFile) = Len(files)
  BY <1>1, <1>2, ListIsAList
<1>4. \A i \in 1 .. Len(files) : IsAList(OfEachFile[i])
  BY <1>1, <1>2, ThoseHas
<1> QED BY <1>2, <1>3, <1>4 DEF AreLists

LEMMA OnTheWayIsAList ==
  ASSUME Typed
  PROVE  /\ IsAList(OnTheWay) /\ IsAList(InParser) /\ IsAList(taken \o pushed)
         /\ IsAList(InParser \o (taken \o pushed))
<1>1. IsAList(taken \o pushed)
  BY ConcatHas DEF Concatenated, Typed
<1>2. IsAList(InParser)
  BY OneRow, NothingIsAList DEF InParser
<1>3. IsAList(InParser \o (taken \o pushed))
  BY <1>1, <1>2, ConcatHas DEF Concatenated
<1>4. IsAList(parsed)
  BY DEF Typed
<1> QED BY <1>1, <1>2, <1>3, <1>4, ConcatHas DEF Concatenated, OnTheWay

LEMMA OneMoreEntry ==
  ASSUME Typed, file <= Len(files), entry <= Len(files[file].entries),
         entry' = entry + 1, files' = files, file' = file
  PROVE  DocumentsRead' = DocumentsRead \o OneOf(files[file].entries[entry], Usable)
<1> DEFINE entries == files[file].entries
           earlier == FlattenSeq(FirstOf(OfEachFile, file - 1))
           less == FirstOf(entries, entry - 1)
           more == FirstOf(entries, entry)
           d == entries[entry]
<1>1. file \in 1 .. Len(files) /\ IsAList(entries) /\ Len(entries) \in Nat /\ entry \in Nat \ {0}
      /\ Len(files) \in Nat
  BY FilesGiven DEF Typed
<1>2. (entry + 1) - 1 = entry /\ (entry - 1) + 1 = entry /\ entry - 1 \in 0 .. Len(entries) - 1
  BY <1>1
<1>3. Usable' = Usable /\ OfEachFile' = OfEachFile
  BY DEF Usable, OfEachFile
<1>4. DocumentsRead = earlier \o Those(less, Usable)
  BY DEF DocumentsRead, OfThisFile
<1>5. DocumentsRead' = earlier \o Those(more, Usable)
  BY <1>2, <1>3 DEF DocumentsRead, OfThisFile
<1>6. IsAList(less) /\ IsAList(more)
  BY <1>1, FirstOfHas
<1>7. Appended(more, less, d)
  <2>1. Appended(<<>> \o FirstOf(entries, (entry - 1) + 1), <<>> \o less, d)
    BY <1>1, <1>2, NothingIsAList, ConcatOneMore
  <2> HIDE DEF less, entries
  <2> QED BY <1>2, <1>6, <2>1, NothingBefore
<1>8. IsAList(earlier)
  <2>1. file - 1 \in 0 .. Len(OfEachFile) /\ AreLists(OfEachFile)
    BY <1>1, OfEachFileHas DEF Typed
  <2>2. AreLists(FirstOf(OfEachFile, file - 1))
    BY <2>1, FirstPartsHave
  <2> QED BY <2>2, FlattenHas
<1> HIDE DEF earlier, less, more, d
<1>9. Those(more, Usable) = Those(less, Usable) \o OneOf(d, Usable)
  BY <1>6, <1>7, ThoseAppended
<1>10. Three(earlier, Those(less, Usable), OneOf(d, Usable))
  BY <1>6, <1>8, ThoseHas, OneOfIs DEF Three
<1>11. (earlier \o Those(less, Usable)) \o OneOf(d, Usable) =
         earlier \o (Those(less, Usable) \o OneOf(d, Usable))
  BY <1>10, ConcatTwice
<1> QED BY <1>4, <1>5, <1>9, <1>11 DEF d

LEMMA NextFileReads == ASSUME Typed, NextFile PROVE DocumentsRead' = DocumentsRead
<1>1. /\ file \in 1 .. Len(files) /\ entry > Len(files[file].entries)
      /\ file' = file + 1 /\ entry' = 1 /\ files' = files
      /\ Len(files) \in Nat /\ IsAList(files[file].entries) /\ Len(files[file].entries) \in Nat
  BY FilesGiven DEF Typed, NextFile, Reading
<1> DEFINE entries == files[file].entries
           n == file - 1
<1>2. entry - 1 = Len(entries) /\ 0 \in 0 .. Len(entries)
  BY <1>1 DEF Typed
<1>3. Usable' = Usable /\ OfEachFile' = OfEachFile
  BY <1>1 DEF Usable, OfEachFile
<1>4. OfThisFile = Those(entries, Usable)
  BY <1>1, <1>2, FirstOfHas DEF OfThisFile
<1>5. OfThisFile' = <<>>
  <2>1. CASE file + 1 <= Len(files)
    <3>1. file + 1 \in 1 .. Len(files)
      BY <1>1, <2>1
    <3>2. IsAList(files[file + 1].entries) /\ 0 \in 0 .. Len(files[file + 1].entries)
      BY <3>1, FilesGiven DEF Typed
    <3>3. IsAList(FirstOf(files[file + 1].entries, 0)) /\ Len(FirstOf(files[file + 1].entries, 0)) = 0
      BY <3>2, FirstOfHas
    <3>4. FirstOf(files[file + 1].entries, 0) = <<>>
      BY <3>3 DEF IsAList
    <3>5. OfThisFile' = Those(FirstOf(files[file + 1].entries, 0), Usable)
      BY <1>1, <1>3, <2>1 DEF OfThisFile
    <3> QED BY <3>4, <3>5, ThoseOfNone
  <2>2. CASE ~(file + 1 <= Len(files))
    BY <1>1, <2>2 DEF OfThisFile
  <2> QED BY <2>1, <2>2
<1>6. /\ AreLists(OfEachFile) /\ Len(OfEachFile) = Len(files)
      /\ OfEachFile[file] = Those(entries, Usable)
  BY <1>1, OfEachFileHas DEF Typed
<1>7. FlattenSeq(FirstOf(OfEachFile, file)) =
        FlattenSeq(FirstOf(OfEachFile, n)) \o Those(entries, Usable)
  <2>1. n \in 0 .. Len(OfEachFile) - 1 /\ n + 1 = file
    BY <1>1, <1>6
  <2>2. FlattenSeq(FirstOf(OfEachFile, n + 1)) =
          FlattenSeq(FirstOf(OfEachFile, n)) \o OfEachFile[n + 1]
    BY <1>6, <2>1, FlattenFirst
  <2> QED BY <1>6, <2>1, <2>2
<1>8. DocumentsRead' = FlattenSeq(FirstOf(OfEachFile, file)) \o <<>>
  <2>1. (file + 1) - 1 = file
    BY <1>1
  <2> QED BY <1>1, <1>3, <1>5, <2>1 DEF DocumentsRead
<1>9. IsAList(FlattenSeq(FirstOf(OfEachFile, file)))
  <2>1. file \in 0 .. Len(OfEachFile)
    BY <1>1, <1>6
  <2>2. AreLists(FirstOf(OfEachFile, file))
    BY <1>6, <2>1, FirstPartsHave
  <2> QED BY <2>2, FlattenHas
<1>10. FlattenSeq(FirstOf(OfEachFile, file)) \o <<>> = FlattenSeq(FirstOf(OfEachFile, file))
  BY <1>9, NothingBefore
<1> QED BY <1>4, <1>7, <1>8, <1>10 DEF DocumentsRead

LEMMA SameDocumentsRead ==
  ASSUME UNCHANGED <<files, file, entry>>
  PROVE  DocumentsRead' = DocumentsRead /\ Usable' = Usable
BY DEF DocumentsRead, OfThisFile, OfEachFile, Usable

-----------------------------------------------------------------------------
(***************************************************************************)
(* The invariant, second part: the documents read are those extracted      *)
(* and then those on their way, in the order of the files, whichever       *)
(* queue each one is in.                                                   *)
(***************************************************************************)

LEMMA PushedIsLast ==
  ASSUME Typed, NEW d, pushed' = Append(pushed, d), UNCHANGED <<taken, parsing, parsed>>
  PROVE  OnTheWay' = OnTheWay \o <<d>>
<1>1. IsAList(pushed) /\ IsAList(taken) /\ IsAList(parsed) /\ IsAList(InParser)
      /\ IsAList(<<d>>) /\ InParser' = InParser
  BY OnTheWayIsAList, OneRow DEF Typed, InParser
<1>2. pushed' = pushed \o <<d>>
  BY <1>1, AppendedToo
<1> DEFINE one == <<d>>
           a == taken \o pushed
           b == InParser \o a
<1> HIDE DEF one
<1>3. Three(taken, pushed, one) /\ Three(InParser, a, one) /\ Three(parsed, b, one)
  BY <1>1, OnTheWayIsAList DEF Three, one
<1>4. taken \o (pushed \o one) = a \o one
  BY <1>3, ConcatTwice
<1>5. InParser \o (a \o one) = b \o one
  BY <1>3, ConcatTwice
<1>6. parsed \o (b \o one) = OnTheWay \o one
  BY <1>3, ConcatTwice DEF OnTheWay
<1>7. OnTheWay' = parsed \o (InParser \o (taken \o (pushed \o one)))
  BY <1>1, <1>2 DEF OnTheWay, one
<1> QED BY <1>4, <1>5, <1>6, <1>7 DEF one

LEMMA TakenInOrder == ASSUME Typed, Take PROVE OnTheWay' = OnTheWay
<1>1. /\ taken' = Append(taken, Head(pushed)) /\ pushed' = Tail(pushed) /\ pushed # <<>>
      /\ UNCHANGED <<parsing, parsed>>
  BY DEF Take
<1>2. PICK d : d = Head(pushed)
  OBVIOUS
<1> DEFINE one == <<d>>
<1>3. /\ IsAList(taken) /\ IsAList(Tail(pushed)) /\ IsAList(one)
      /\ one \o Tail(pushed) = pushed
  BY <1>1, <1>2, HeadIsTaken, OneRow DEF Typed
<1>4. taken' = taken \o one
  BY <1>1, <1>2, <1>3, AppendedToo
<1> HIDE DEF one
<1>5. Three(taken, one, Tail(pushed))
  BY <1>3 DEF Three
<1> DEFINE left == Tail(pushed)
<1>6. (taken \o one) \o left = taken \o (one \o left)
  <2>1. Three(taken, one, left)
    BY <1>5
  <2> HIDE DEF left
  <2> QED BY <2>1, ConcatTwice
<1> QED BY <1>1, <1>3, <1>4, <1>6 DEF OnTheWay, InParser

LEMMA ParsedNext == ASSUME Typed, Parse PROVE OnTheWay' = OnTheWay
<1>1. /\ parsing' = Head(taken) /\ taken' = Tail(taken) /\ taken # <<>> /\ parsing = None
      /\ UNCHANGED <<pushed, parsed, files>>
  BY DEF Parse
<1>2. PICK d : d = Head(taken)
  OBVIOUS
<1>3. d # None
  <2>1. d \in Given
    BY <1>1, <1>2, HeadIsTaken DEF Typed
  <2> QED BY <2>1, DocumentsGiven DEF IsADocument, Typed
<1> DEFINE one == <<d>>
<1>4. /\ IsAList(pushed) /\ IsAList(Tail(taken)) /\ IsAList(one)
      /\ one \o Tail(taken) = taken
  BY <1>1, <1>2, HeadIsTaken, OneRow DEF Typed
<1>5. InParser' = one /\ InParser = <<>>
  BY <1>1, <1>2, <1>3 DEF InParser
<1>6. <<>> \o (taken \o pushed) = taken \o pushed
  BY OnTheWayIsAList, NothingBefore
<1> HIDE DEF one
<1>7. Three(one, Tail(taken), pushed)
  BY <1>4 DEF Three
<1> DEFINE left == Tail(taken)
<1>8. (one \o left) \o pushed = one \o (left \o pushed)
  <2>1. Three(one, left, pushed)
    BY <1>7
  <2> HIDE DEF left
  <2> QED BY <2>1, ConcatTwice
<1> QED BY <1>1, <1>4, <1>5, <1>6, <1>8 DEF OnTheWay

LEMMA ParsedInOrder == ASSUME Typed, Parsed PROVE OnTheWay' = OnTheWay
<1>1. /\ parsed' = Append(parsed, parsing) /\ parsing' = None /\ parsing # None
      /\ UNCHANGED <<pushed, taken>>
  BY DEF Parsed
<1> DEFINE rest == taken \o pushed
           one == <<parsing>>
<1>2. IsAList(parsed) /\ IsAList(rest) /\ IsAList(one)
  BY OnTheWayIsAList, OneRow DEF Typed
<1>3. parsed' = parsed \o one
  BY <1>1, <1>2, AppendedToo
<1>4. InParser' = <<>> /\ InParser = one
  BY <1>1 DEF InParser
<1> HIDE DEF rest, one
<1>5. <<>> \o rest = rest
  BY <1>2, NothingBefore
<1>6. Three(parsed, one, rest)
  BY <1>2 DEF Three
<1>7. (parsed \o one) \o rest = parsed \o (one \o rest)
  BY <1>6, ConcatTwice
<1> QED BY <1>1, <1>3, <1>4, <1>5, <1>7 DEF OnTheWay, rest

LEMMA ExtractedFirst ==
  ASSUME Typed, Extract
  PROVE  <<Head(parsed)>> \o OnTheWay' = OnTheWay /\ IsAList(OnTheWay')
<1>1. /\ parsed' = Tail(parsed) /\ parsed # <<>> /\ UNCHANGED <<pushed, taken, parsing>>
  BY DEF Extract
<1> DEFINE rest == InParser \o (taken \o pushed)
           one == <<Head(parsed)>>
<1>2. IsAList(rest) /\ IsAList(one) /\ IsAList(Tail(parsed)) /\ one \o Tail(parsed) = parsed
  BY <1>1, OnTheWayIsAList, OneRow, HeadIsTaken DEF Typed
<1>3. OnTheWay' = Tail(parsed) \o rest
  BY <1>1 DEF OnTheWay, InParser
<1>4. OnTheWay = parsed \o rest
  BY DEF OnTheWay
<1> HIDE DEF rest, one
<1>5. Three(one, Tail(parsed), rest)
  BY <1>2 DEF Three
<1> DEFINE left == Tail(parsed)
<1>6. (one \o left) \o rest = one \o (left \o rest)
  <2>1. Three(one, left, rest)
    BY <1>5
  <2> HIDE DEF left
  <2> QED BY <2>1, ConcatTwice
<1>7. IsAList(Tail(parsed) \o rest)
  BY <1>2, ConcatHas DEF Concatenated
<1> QED BY <1>2, <1>3, <1>4, <1>6, <1>7 DEF one

LEMMA SameOnTheWay ==
  ASSUME UNCHANGED <<pushed, taken, parsing, parsed>> PROVE OnTheWay' = OnTheWay
BY DEF OnTheWay, InParser

(* These documents have been extracted, and no others, in their order.     *)
Extracted(done) ==
  /\ IsAList(done) /\ Range(done) \subseteq Usable
  /\ DocumentsRead = done \o Those(OnTheWay, Usable)

LEMMA ExtractedAtFirst == ASSUME Init PROVE Extracted(<<>>)
<1>1. Typed
  BY TypedAtFirst
<1>2. file = 1 /\ entry = 1 /\ pushed = <<>> /\ taken = <<>> /\ parsed = <<>> /\ parsing = None
  BY DEF Init
<1>3. <<>> \o <<>> = <<>>
  BY NothingIsAList, NothingBefore
<1>4. OnTheWay = <<>>
  BY <1>2, <1>3 DEF OnTheWay, InParser
<1>5. OfThisFile = <<>>
  <2>1. CASE 1 <= Len(files)
    <3>1. IsAList(files[1].entries) /\ 0 \in 0 .. Len(files[1].entries)
      <4>1. 1 \in 1 .. Len(files)
        BY <2>1, FilesGiven, <1>1 DEF Typed
      <4> QED BY <1>1, <4>1, FilesGiven DEF Typed
    <3>2. IsAList(FirstOf(files[1].entries, 0)) /\ Len(FirstOf(files[1].entries, 0)) = 0
      BY <3>1, FirstOfHas
    <3>3. FirstOf(files[1].entries, 0) = <<>>
      BY <3>2 DEF IsAList
    <3>4. OfThisFile = Those(FirstOf(files[1].entries, 0), Usable)
      BY <1>2, <2>1 DEF OfThisFile
    <3> QED BY <3>3, <3>4, ThoseOfNone
  <2>2. CASE ~(1 <= Len(files))
    BY <1>2, <2>2 DEF OfThisFile
  <2> QED BY <2>1, <2>2
<1>6. FlattenSeq(FirstOf(OfEachFile, 0)) = <<>>
  <2>1. AreLists(OfEachFile) /\ 0 \in 0 .. Len(OfEachFile)
    BY <1>1, OfEachFileHas, FilesGiven DEF Typed
  <2>2. IsAList(FirstOf(OfEachFile, 0)) /\ Len(FirstOf(OfEachFile, 0)) = 0
    BY <2>1, FirstOfHas DEF AreLists
  <2> QED BY <2>2, FlattenIs
<1>7. DocumentsRead = <<>>
  BY <1>2, <1>3, <1>5, <1>6 DEF DocumentsRead
<1> QED BY <1>3, <1>4, <1>7, NothingIsAList, ThoseOfNone DEF Extracted

LEMMA ReadStaysExtracted ==
  ASSUME Typed, NEW done, Extracted(done), PushDocument \/ SkipEntry
  PROVE  Extracted(done)'
<1> DEFINE d == files[file].entries[entry]
<1>1. /\ file <= Len(files) /\ entry <= Len(files[file].entries)
      /\ entry' = entry + 1 /\ UNCHANGED <<files, file, taken, parsing, parsed>>
  BY DEF PushDocument, SkipEntry, Reading, NextEntry, documents
<1>2. DocumentsRead' = DocumentsRead \o OneOf(d, Usable)
  BY <1>1, OneMoreEntry
<1>3. Usable' = Usable
  BY <1>1 DEF Usable
<1>4. IsAList(done) /\ Range(done) \subseteq Usable /\ DocumentsRead = done \o Those(OnTheWay, Usable)
  BY DEF Extracted
<1>5. IsAList(OnTheWay) /\ IsAList(Those(OnTheWay, Usable))
  BY OnTheWayIsAList, ThoseHas
<1>6. CASE PushDocument
  <2>1. pushed' = Append(pushed, d)
    BY <1>6 DEF PushDocument
  <2> HIDE DEF d
  <2>2. OnTheWay' = OnTheWay \o <<d>>
    BY <1>1, <2>1, PushedIsLast
  <2>3. Those(OnTheWay \o <<d>>, Usable) = Those(OnTheWay, Usable) \o OneOf(d, Usable)
    <3>1. IsAList(<<d>>) /\ Those(<<d>>, Usable) = OneOf(d, Usable)
      BY OneRow, ThoseOfOne
    <3> DEFINE one == <<d>>
    <3>2. Those(OnTheWay \o one, Usable) = Those(OnTheWay, Usable) \o Those(one, Usable)
      <4>1. IsAList(one)
        BY <3>1
      <4> HIDE DEF one
      <4> QED BY <1>5, <4>1, ThoseConcat
    <3> QED BY <3>1, <3>2
  <2>4. Three(done, Those(OnTheWay, Usable), OneOf(d, Usable))
    BY <1>4, <1>5, OneOfIs DEF Three
  <2>5. (done \o Those(OnTheWay, Usable)) \o OneOf(d, Usable) =
          done \o (Those(OnTheWay, Usable) \o OneOf(d, Usable))
    BY <2>4, ConcatTwice
  <2> QED BY <1>2, <1>3, <1>4, <2>2, <2>3, <2>5 DEF Extracted
<1>7. CASE SkipEntry
  <2>1. d = Unreadable /\ pushed' = pushed
    BY <1>7 DEF SkipEntry, documents
  <2>2. OnTheWay' = OnTheWay
    BY <1>1, <2>1, SameOnTheWay
  <2>3. OneOf(d, Usable) = <<>>
    BY <2>1 DEF OneOf, Usable
  <2>4. DocumentsRead' = DocumentsRead
    <3>1. IsAList(DocumentsRead)
      BY <1>4, <1>5, ConcatHas DEF Concatenated
    <3> QED BY <1>2, <2>3, <3>1, NothingBefore
  <2> QED BY <1>3, <1>4, <2>2, <2>4 DEF Extracted
<1> QED BY <1>6, <1>7

LEMMA PassedOnStaysExtracted ==
  ASSUME NEW done, Extracted(done), DocumentsRead' = DocumentsRead, Usable' = Usable,
         OnTheWay' = OnTheWay
  PROVE  Extracted(done)'
BY DEF Extracted

LEMMA ExtractExtracts ==
  ASSUME Typed, NEW done, Extracted(done), Extract,
         NEW more, more = done \o OneOf(Head(parsed), Usable)
  PROVE  Extracted(more)'
<1> DEFINE d == Head(parsed)
           rest == OnTheWay'
<1>1. UNCHANGED <<files, file, entry>>
  BY ExtractIs
<1>2. DocumentsRead' = DocumentsRead /\ Usable' = Usable
  BY <1>1, SameDocumentsRead
<1>3. <<d>> \o rest = OnTheWay /\ IsAList(rest)
  BY ExtractedFirst
<1>4. IsAList(done) /\ Range(done) \subseteq Usable /\ DocumentsRead = done \o Those(OnTheWay, Usable)
  BY DEF Extracted
<1>5. more = done \o OneOf(d, Usable)
  OBVIOUS
<1> HIDE DEF d, rest
<1>6. Those(OnTheWay, Usable) = OneOf(d, Usable) \o Those(rest, Usable)
  <2>1. IsAList(<<d>>) /\ Those(<<d>>, Usable) = OneOf(d, Usable)
    BY OneRow, ThoseOfOne
  <2> DEFINE one == <<d>>
  <2>2. Those(one \o rest, Usable) = Those(one, Usable) \o Those(rest, Usable)
    <3>1. IsAList(one)
      BY <2>1
    <3> HIDE DEF one
    <3> QED BY <1>3, <3>1, ThoseConcat
  <2> QED BY <1>3, <2>1, <2>2
<1>7. IsAList(OneOf(d, Usable)) /\ Range(OneOf(d, Usable)) \subseteq Usable
  BY OneOfIs
<1>8. Three(done, OneOf(d, Usable), Those(rest, Usable))
  BY <1>3, <1>4, <1>7, ThoseHas DEF Three
<1>9. DocumentsRead = more \o Those(rest, Usable)
  <2>1. (done \o OneOf(d, Usable)) \o Those(rest, Usable) =
          done \o (OneOf(d, Usable) \o Those(rest, Usable))
    BY <1>8, ConcatTwice
  <2> QED BY <1>4, <1>5, <1>6, <2>1
<1>10. IsAList(more) /\ Range(more) \subseteq Usable
  <2>1. Concatenated(done \o OneOf(d, Usable), done, OneOf(d, Usable))
    BY <1>4, <1>7, ConcatHas
  <2>2. IsAList(more) /\ Range(more) = Range(done) \cup Range(OneOf(d, Usable))
    BY <1>5, <2>1 DEF Concatenated
  <2> QED BY <1>4, <1>7, <2>2
<1> QED BY <1>2, <1>9, <1>10 DEF Extracted, rest

-----------------------------------------------------------------------------
(***************************************************************************)
(* Third part: the journeys of the documents extracted are those made      *)
(* trips and then those still queued, in order.                            *)
(***************************************************************************)

JourneysOf(done) ==
  FlattenSeq([i \in DOMAIN done |-> Those(done[i].vehicles, Completing)])

OfEach(done) == [i \in DOMAIN done |-> Those(done[i].vehicles, Completing)]

LEMMA CompletingOnes ==
  ASSUME NEW vehicle \in AllVehicles
  PROVE  vehicle \in Completing <=> Completes(vehicle)
BY DEF Completing, AllVehicles

LEMMA CompletingAreGiven == Completing \subseteq AllVehicles
BY DEF Completing, AllVehicles

LEMMA OfEachHas ==
  ASSUME files \in Inputs, NEW done, IsAList(done), Range(done) \subseteq Usable
  PROVE  /\ AreLists(OfEach(done)) /\ Len(OfEach(done)) = Len(done)
         /\ \A i \in 1 .. Len(done) : OfEach(done)[i] = Those(done[i].vehicles, Completing)
<1>1. /\ Len(done) \in Nat /\ DOMAIN done = 1 .. Len(done)
      /\ \A i \in 1 .. Len(done) : done[i] \in Usable
  BY SequenceHas
<1>2. /\ DOMAIN OfEach(done) = 1 .. Len(done)
      /\ OfEach(done) = [i \in 1 .. Len(done) |-> OfEach(done)[i]]
      /\ \A i \in 1 .. Len(done) : OfEach(done)[i] = Those(done[i].vehicles, Completing)
  BY <1>1 DEF OfEach
<1>3. IsAList(OfEach(done)) /\ Len(OfEach(done)) = Len(done)
  BY <1>1, <1>2, ListIsAList
<1>4. \A i \in 1 .. Len(done) : IsAList(OfEach(done)[i])
  <2> SUFFICES ASSUME NEW i \in 1 .. Len(done) PROVE IsAList(OfEach(done)[i])
    OBVIOUS
  <2>1. IsAList(done[i].vehicles)
    BY <1>1, SchedulesGiven
  <2> QED BY <1>2, <2>1, ThoseHas
<1> QED BY <1>2, <1>3, <1>4 DEF AreLists

LEMMA JourneysAreAList ==
  ASSUME files \in Inputs, NEW done, IsAList(done), Range(done) \subseteq Usable
  PROVE  IsAList(JourneysOf(done))
<1>1. AreLists(OfEach(done))
  BY OfEachHas
<1>2. JourneysOf(done) = FlattenSeq(OfEach(done))
  BY DEF JourneysOf, OfEach
<1> QED BY <1>1, <1>2, FlattenHas

LEMMA JourneysOfOneMore ==
  ASSUME files \in Inputs, NEW done, IsAList(done), Range(done) \subseteq Usable,
         NEW d \in Usable
  PROVE  JourneysOf(done \o <<d>>) = JourneysOf(done) \o Those(d.vehicles, Completing)
<1> DEFINE more == done \o <<d>>
           n == Len(done)
<1>1. Append(done, d) = more /\ Appended(Append(done, d), done, d) /\ n \in Nat
  BY AppendHas, AppendedToo
<1>2. /\ IsAList(more) /\ Len(more) = n + 1 /\ Range(more) \subseteq Usable
      /\ \A i \in 1 .. n : more[i] = done[i]
      /\ more[n + 1] = d
  BY <1>1 DEF Appended
<1> HIDE DEF more
<1>3. /\ AreLists(OfEach(done)) /\ Len(OfEach(done)) = n
      /\ \A i \in 1 .. n : OfEach(done)[i] = Those(done[i].vehicles, Completing)
  BY OfEachHas
<1>4. /\ AreLists(OfEach(more)) /\ Len(OfEach(more)) = n + 1
      /\ \A i \in 1 .. n + 1 : OfEach(more)[i] = Those(more[i].vehicles, Completing)
  BY <1>2, OfEachHas
<1>5. \A i \in 1 .. n : OfEach(more)[i] = OfEach(done)[i]
  <2> SUFFICES ASSUME NEW i \in 1 .. n PROVE OfEach(more)[i] = OfEach(done)[i]
    OBVIOUS
  <2>1. i \in 1 .. n + 1
    BY <1>1
  <2> QED BY <1>2, <1>3, <1>4, <2>1
<1>6. n + 1 \in 1 .. n + 1
  BY <1>1
<1>7. FlattenSeq(OfEach(more)) = FlattenSeq(OfEach(done)) \o OfEach(more)[n + 1]
  <2>1. Len(OfEach(more)) = Len(OfEach(done)) + 1
    BY <1>3, <1>4
  <2>2. \A i \in 1 .. Len(OfEach(done)) : OfEach(more)[i] = OfEach(done)[i]
    BY <1>3, <1>5
  <2>3. FlattenSeq(OfEach(more)) = FlattenSeq(OfEach(done)) \o OfEach(more)[Len(OfEach(more))]
    BY <1>3, <1>4, <2>1, <2>2, FlattenGrows
  <2> QED BY <1>4, <2>3
<1>8. OfEach(more)[n + 1] = Those(d.vehicles, Completing)
  <2>1. OfEach(more)[n + 1] = Those(more[n + 1].vehicles, Completing)
    <3> HIDE DEF n
    <3> QED BY <1>4, <1>6
  <2> HIDE DEF n
  <2>2. more[n + 1] = d
    BY <1>2
  <2> QED BY <2>1, <2>2
<1> QED BY <1>7, <1>8 DEF JourneysOf, OfEach, more

(* These journeys have been made trips, and no others, in their order.     *)
Converted(done, sel) ==
  /\ IsAList(sel) /\ Range(sel) \subseteq Completing
  /\ JourneysOf(done) = sel \o Those(vehicles, Completing)

LEMMA ConvertedAtFirst == ASSUME Init PROVE Converted(<<>>, <<>>)
<1>1. OfEach(<<>>) = <<>>
  BY DEF OfEach
<1>2. FlattenSeq(<<>>) = <<>>
  BY NothingIsAList, FlattenIs
<1>3. JourneysOf(<<>>) = <<>>
  BY <1>1, <1>2 DEF JourneysOf, OfEach
<1>4. vehicles = <<>>
  BY DEF Init
<1>5. <<>> \o <<>> = <<>>
  BY NothingIsAList, NothingBefore
<1> QED BY <1>3, <1>4, <1>5, NothingIsAList, ThoseOfNone DEF Converted

LEMMA QuietStaysConverted ==
  ASSUME NEW done, NEW sel, Converted(done, sel), UNCHANGED <<files, vehicles>>
  PROVE  Converted(done, sel)'
<1>1. Completing' = Completing
  BY DEF Completing, Usable
<1> QED BY <1>1 DEF Converted, JourneysOf

LEMMA ExtractStaysConverted ==
  ASSUME Typed, NEW done, NEW sel, Extracted(done), Converted(done, sel), Extract,
         NEW more, more = done \o OneOf(Head(parsed), Usable)
  PROVE  Converted(more, sel)'
<1> DEFINE d == Head(parsed)
<1>1. /\ d \in Given /\ files' = files
      /\ d.isSchedule => d \in Usable /\ vehicles' = vehicles \o d.vehicles
      /\ ~d.isSchedule => vehicles' = vehicles
  BY ExtractIs
<1>2. more = done \o OneOf(d, Usable)
  OBVIOUS
<1>3. IsAList(done) /\ Range(done) \subseteq Usable /\ files \in Inputs
  BY DEF Extracted, Typed
<1>4. Completing' = Completing
  BY <1>1 DEF Completing, Usable
<1> HIDE DEF d
<1>5. CASE d.isSchedule
  <2>1. d \in Usable /\ vehicles' = vehicles \o d.vehicles
    BY <1>1, <1>5
  <2>2. more = done \o <<d>>
    BY <1>2, <2>1 DEF OneOf
  <2>3. JourneysOf(more) = JourneysOf(done) \o Those(d.vehicles, Completing)
    BY <1>3, <2>1, <2>2, JourneysOfOneMore
  <2>4. IsAList(vehicles) /\ IsAList(d.vehicles)
    BY <1>3, <2>1, SchedulesGiven DEF Typed
  <2>5. Those(vehicles \o d.vehicles, Completing) =
          Those(vehicles, Completing) \o Those(d.vehicles, Completing)
    BY <2>4, ThoseConcat
  <2>6. Three(sel, Those(vehicles, Completing), Those(d.vehicles, Completing))
    BY <2>4, ThoseHas DEF Three, Converted
  <2>7. (sel \o Those(vehicles, Completing)) \o Those(d.vehicles, Completing) =
          sel \o (Those(vehicles, Completing) \o Those(d.vehicles, Completing))
    BY <2>6, ConcatTwice
  <2>8. JourneysOf(more) = sel \o Those(vehicles', Completing)
    BY <2>1, <2>3, <2>5, <2>7 DEF Converted
  <2> QED BY <1>4, <2>8 DEF Converted, JourneysOf
<1>6. CASE ~d.isSchedule
  <2>1. OneOf(d, Usable) = <<>>
    BY <1>6, UsableOnes DEF OneOf
  <2>2. more = done
    BY <1>2, <1>3, <2>1, NothingBefore
  <2> QED BY <1>1, <1>6, <2>2, QuietStaysConverted
<1> QED BY <1>5, <1>6

LEMMA ProcessVehicleConverts ==
  ASSUME Typed, NEW done, NEW sel, Converted(done, sel), ProcessVehicle,
         NEW more, more = sel \o OneOf(Head(vehicles), Completing)
  PROVE  Converted(done, more)'
<1> DEFINE vehicle == Head(vehicles)
           rest == Tail(vehicles)
<1>1. vehicles # <<>> /\ vehicles' = rest /\ files' = files
  BY DEF ProcessVehicle
<1>2. IsAList(rest) /\ <<vehicle>> \o rest = vehicles
  BY <1>1, HeadIsTaken DEF Typed
<1>3. more = sel \o OneOf(vehicle, Completing)
  OBVIOUS
<1>4. Completing' = Completing
  BY <1>1 DEF Completing, Usable
<1>5. IsAList(sel) /\ Range(sel) \subseteq Completing
      /\ JourneysOf(done) = sel \o Those(vehicles, Completing)
  BY DEF Converted
<1> HIDE DEF vehicle, rest
<1>6. Those(vehicles, Completing) = OneOf(vehicle, Completing) \o Those(rest, Completing)
  <2> DEFINE one == <<vehicle>>
  <2>1. IsAList(one) /\ Those(one, Completing) = OneOf(vehicle, Completing)
    BY OneRow, ThoseOfOne
  <2>2. Those(one \o rest, Completing) = Those(one, Completing) \o Those(rest, Completing)
    <3>1. IsAList(one)
      BY <2>1
    <3> HIDE DEF one
    <3> QED BY <1>2, <3>1, ThoseConcat
  <2> QED BY <1>2, <2>1, <2>2
<1>7. IsAList(OneOf(vehicle, Completing)) /\ Range(OneOf(vehicle, Completing)) \subseteq Completing
  BY OneOfIs
<1>8. Three(sel, OneOf(vehicle, Completing), Those(rest, Completing))
  BY <1>2, <1>5, <1>7, ThoseHas DEF Three
<1>9. JourneysOf(done) = more \o Those(rest, Completing)
  <2>1. (sel \o OneOf(vehicle, Completing)) \o Those(rest, Completing) =
          sel \o (OneOf(vehicle, Completing) \o Those(rest, Completing))
    BY <1>8, ConcatTwice
  <2> QED BY <1>3, <1>5, <1>6, <2>1
<1>10. IsAList(more) /\ Range(more) \subseteq Completing
  <2>1. Concatenated(sel \o OneOf(vehicle, Completing), sel, OneOf(vehicle, Completing))
    BY <1>5, <1>7, ConcatHas
  <2>2. IsAList(more) /\ Range(more) = Range(sel) \cup Range(OneOf(vehicle, Completing))
    BY <1>3, <2>1 DEF Concatenated
  <2> QED BY <1>5, <1>7, <2>2
<1> QED BY <1>1, <1>4, <1>9, <1>10 DEF Converted, JourneysOf

-----------------------------------------------------------------------------
(***************************************************************************)
(* Fourth part: the files of the schedules hold what the documents         *)
(* extracted brought, each thing once.                                     *)
(***************************************************************************)

Brought(done, column) == UNION {Range(done[i][column]) : i \in DOMAIN done}

WrittenOnce(f, done, column) ==
  IsInjective(written[f]) /\ Range(written[f]) = Brought(done, column)

(* The rows of these schedules have been written, and no others.           *)
SchedulesWritten(done) ==
  /\ WrittenOnce("agency", done, "operators")
  /\ WrittenOnce("routes", done, "lines")
  /\ WrittenOnce("stops", done, "stops")
  /\ IsInjective(written["transfers"])
  /\ Range(written["transfers"]) = Connected(Range(written["stops"]))

LEMMA BroughtByOneMore ==
  ASSUME NEW done, IsAList(done), NEW d, NEW column
  PROVE  Brought(done \o <<d>>, column) = Brought(done, column) \cup Range(d[column])
<1> DEFINE more == done \o <<d>>
           n == Len(done)
<1>1. Append(done, d) = more /\ Appended(Append(done, d), done, d) /\ n \in Nat
  BY AppendHas, AppendedToo
<1>2. /\ IsAList(more) /\ Len(more) = n + 1
      /\ \A i \in 1 .. n : more[i] = done[i]
      /\ more[n + 1] = d
  BY <1>1 DEF Appended
<1> HIDE DEF more
<1>3. DOMAIN more = 1 .. n + 1 /\ DOMAIN done = 1 .. n
  BY <1>2, SequenceHas
<1> HIDE DEF n
<1>4. \A i : i \in 1 .. n + 1 <=> i \in 1 .. n \/ i = n + 1
  BY <1>1
<1>5. ASSUME NEW x
      PROVE  x \in Brought(more, column) <=> x \in Brought(done, column) \/ x \in Range(d[column])
  <2>1. x \in Brought(more, column) <=> \E i \in 1 .. n + 1 : x \in Range(more[i][column])
    BY <1>3 DEF Brought
  <2>2. x \in Brought(done, column) <=> \E i \in 1 .. n : x \in Range(done[i][column])
    BY <1>3 DEF Brought
  <2>3. (\E i \in 1 .. n + 1 : x \in Range(more[i][column])) <=>
          (\E i \in 1 .. n : x \in Range(more[i][column])) \/ x \in Range(more[n + 1][column])
    BY <1>4
  <2>4. (\E i \in 1 .. n : x \in Range(more[i][column])) <=>
          (\E i \in 1 .. n : x \in Range(done[i][column]))
    BY <1>2
  <2> QED BY <1>2, <2>1, <2>2, <2>3, <2>4
<1> QED BY <1>5 DEF more

LEMMA SchedulesWrittenAtFirst == ASSUME Init PROVE SchedulesWritten(<<>>)
<1>1. \A f \in Files : written[f] = <<>>
  BY DEF Init
<1>2. \A column : Brought(<<>>, column) = {}
  BY DEF Brought
<1>3. Connected({}) = {}
  BY DEF Connected
<1> QED BY <1>1, <1>2, <1>3, FileNames, NothingIsAList DEF SchedulesWritten, WrittenOnce

LEMMA SameSchedules ==
  ASSUME NEW done, SchedulesWritten(done),
         \A f \in ScheduleFiles : written'[f] = written[f]
  PROVE  SchedulesWritten(done)'
BY DEF SchedulesWritten, WrittenOnce, ScheduleFiles

LEMMA RowsWrittenOnce ==
  ASSUME Typed, NEW f \in Files, NEW done, NEW column, IsAList(done),
         WrittenOnce(f, done, column),
         NEW d, IsAList(d[column]),
         written'[f] = written[f] \o NotIn(written[f], d[column])
  PROVE  WrittenOnce(f, done \o <<d>>, column)'
<1>1. IsAList(written[f]) /\ IsInjective(written[f]) /\ Range(written[f]) = Brought(done, column)
  BY DEF Typed, WrittenOnce
<1>2. /\ IsInjective(written'[f])
      /\ Range(written'[f]) = Range(written[f]) \cup Range(d[column])
  BY <1>1, NewHas
<1>3. Range(written'[f]) = Brought(done \o <<d>>, column)
  BY <1>1, <1>2, BroughtByOneMore
<1> QED BY <1>2, <1>3 DEF WrittenOnce, Brought

LEMMA ExtractWrites ==
  ASSUME Typed, NEW done, Extracted(done), SchedulesWritten(done), Extract,
         NEW more, more = done \o OneOf(Head(parsed), Usable)
  PROVE  SchedulesWritten(more)'
<1>1. PICK d : d = Head(parsed)
  OBVIOUS
<1>2. /\ d.isSchedule => /\ d \in Usable
                         /\ \A f \in Files : written'[f] = written[f] \o ScheduleRows(f, d)
      /\ ~d.isSchedule => written' = written
  BY <1>1, ExtractIs
<1>3. IsAList(done) /\ more = done \o OneOf(d, Usable)
  BY <1>1 DEF Extracted
<1>4. CASE d.isSchedule
  <2>1. d \in Usable /\ \A f \in Files : written'[f] = written[f] \o ScheduleRows(f, d)
    BY <1>2, <1>4
  <2>2. more = done \o <<d>>
    BY <1>3, <2>1 DEF OneOf
  <2>3. IsAList(d.operators) /\ IsAList(d.lines) /\ IsAList(d.stops)
    BY <2>1, SchedulesGiven DEF Typed
  <2>4. /\ written'["agency"] = written["agency"] \o NotIn(written["agency"], d.operators)
        /\ written'["routes"] = written["routes"] \o NotIn(written["routes"], d.lines)
        /\ written'["stops"] = written["stops"] \o NotIn(written["stops"], d.stops)
        /\ written'["transfers"] = written["transfers"] \o ScheduleRows("transfers", d)
    BY <2>1, FileNames, ScheduleRowsAre
  <2>5. /\ WrittenOnce("agency", done \o <<d>>, "operators")'
        /\ WrittenOnce("routes", done \o <<d>>, "lines")'
        /\ WrittenOnce("stops", done \o <<d>>, "stops")'
    BY <1>3, <2>3, <2>4, FileNames, RowsWrittenOnce DEF SchedulesWritten
  <2>6. /\ IsAList(ScheduleRows("transfers", d)) /\ IsInjective(ScheduleRows("transfers", d))
        /\ Range(ScheduleRows("transfers", d)) =
             Connected(Range(written["stops"]) \cup Range(d.stops))
               \ Connected(Range(written["stops"]))
    BY <2>1, FileNames, ScheduleRowsAre
  <2>7. /\ IsAList(written["transfers"]) /\ IsInjective(written["transfers"])
        /\ Range(written["transfers"]) = Connected(Range(written["stops"]))
    BY FileNames DEF Typed, SchedulesWritten
  <2>8. Range(written'["stops"]) = Range(written["stops"]) \cup Range(d.stops)
    <3>1. IsAList(written["stops"]) /\ IsInjective(written["stops"])
      BY FileNames DEF Typed, SchedulesWritten, WrittenOnce
    <3> QED BY <2>3, <2>4, <3>1, NewHas
  <2> DEFINE old == written["transfers"]
             new == ScheduleRows("transfers", d)
             earlier == Range(written["stops"])
             after == earlier \cup Range(d.stops)
  <2>9. Connected(earlier) \subseteq Connected(after)
    BY DEF Connected
  <2>10. IsInjective(old \o new) /\ Range(old \o new) = Connected(after)
    <3>1. Range(old) \cap Range(new) = {}
      BY <2>6, <2>7
    <3>2. IsAList(old) /\ IsInjective(old) /\ IsAList(new) /\ IsInjective(new)
      BY <2>6, <2>7
    <3>3. Range(old) \cup Range(new) = Connected(after)
      BY <2>6, <2>7, <2>9
    <3> HIDE DEF old, new, after
    <3> QED BY <3>1, <3>2, <3>3, ConcatInjective, ConcatHas DEF Concatenated
  <2>11. IsInjective(written'["transfers"])
         /\ Range(written'["transfers"]) = Connected(Range(written'["stops"]))
    BY <2>4, <2>8, <2>10
  <2>12. SchedulesWritten(done \o <<d>>)'
    BY ONLY <2>5, <2>11 DEF SchedulesWritten, WrittenOnce, Connected, Brought
  <2> QED BY ONLY <2>2, <2>12 DEF SchedulesWritten, WrittenOnce, Connected, Brought
<1>5. CASE ~d.isSchedule
  <2>1. OneOf(d, Usable) = <<>>
    BY <1>5, UsableOnes DEF OneOf
  <2>2. more = done
    BY <1>3, <2>1, NothingBefore
  <2> QED BY <1>2, <1>5, <2>2, SameSchedules
<1> QED BY <1>4, <1>5

-----------------------------------------------------------------------------
(***************************************************************************)
(* Fifth part: the trips are the journeys converted, each with its own     *)
(* calls, and its shape, its calendar and its dates are written, once.     *)
(***************************************************************************)

OfTrip(rows, trip) == Those(rows, {r \in Range(rows) : r.trip = trip})

LEMMA RowsOfTripAre == ASSUME NEW f, NEW trip PROVE RowsOfTrip(f, trip) = OfTrip(written[f], trip)
BY DEF RowsOfTrip, OfTrip

LEMMA OfTripConcat ==
  ASSUME NEW a, IsAList(a), NEW b, IsAList(b), NEW trip
  PROVE  OfTrip(a \o b, trip) = OfTrip(a, trip) \o OfTrip(b, trip)
<1> DEFINE S == {r \in Range(a \o b) : r.trip = trip}
           A == {r \in Range(a) : r.trip = trip}
           B == {r \in Range(b) : r.trip = trip}
<1>1. Range(a \o b) = Range(a) \cup Range(b)
  BY ConcatHas DEF Concatenated
<1>2. /\ \A x \in Range(a) : x \in S <=> x \in A
      /\ \A x \in Range(b) : x \in S <=> x \in B
  BY <1>1
<1> HIDE DEF S, A, B
<1>3. Those(a \o b, S) = Those(a, S) \o Those(b, S)
  BY ThoseConcat
<1>4. Those(a, S) = Those(a, A)
  BY <1>2, ThoseSame
<1>5. Those(b, S) = Those(b, B)
  BY <1>2, ThoseSame
<1> QED BY <1>3, <1>4, <1>5 DEF OfTrip, S, A, B

LEMMA OfTripAll ==
  ASSUME NEW a, IsAList(a), NEW trip, \A r \in Range(a) : r.trip = trip
  PROVE  OfTrip(a, trip) = a
<1> DEFINE A == {r \in Range(a) : r.trip = trip}
<1>1. Range(a) \subseteq A
  OBVIOUS
<1> HIDE DEF A
<1>2. Those(a, A) = a
  BY <1>1, ThoseAll
<1> QED BY <1>2 DEF OfTrip, A

LEMMA OfTripNone ==
  ASSUME NEW a, IsAList(a), NEW trip, \A r \in Range(a) : r.trip # trip
  PROVE  OfTrip(a, trip) = <<>>
<1> DEFINE A == {r \in Range(a) : r.trip = trip}
<1>1. Range(a) \cap A = {}
  OBVIOUS
<1> HIDE DEF A
<1>2. Those(a, A) = <<>>
  BY <1>1, ThoseOfOthers
<1> QED BY <1>2 DEF OfTrip, A

LEMMA StopTimesAre ==
  ASSUME files \in Inputs, NEW vehicle \in AllVehicles, NEW trip
  PROVE  /\ IsAList(StopTimeRows(vehicle, trip))
         /\ Len(StopTimeRows(vehicle, trip)) = Len(vehicle.stops)
         /\ \A k \in 1 .. Len(vehicle.stops) :
              StopTimeRows(vehicle, trip)[k] =
                [trip |-> trip, stop |-> vehicle.stops[k], sequence |-> k - 1]
         /\ \A r \in Range(StopTimeRows(vehicle, trip)) : r.trip = trip
<1> DEFINE t == StopTimeRows(vehicle, trip)
<1>1. IsAList(vehicle.stops)
  BY VehiclesGiven
<1>2. Len(vehicle.stops) \in Nat /\ DOMAIN vehicle.stops = 1 .. Len(vehicle.stops)
  BY <1>1, SequenceHas
<1>3. /\ DOMAIN t = DOMAIN vehicle.stops /\ t = [i \in DOMAIN vehicle.stops |-> t[i]]
      /\ \A k \in DOMAIN vehicle.stops :
           t[k] = [trip |-> trip, stop |-> vehicle.stops[k], sequence |-> k - 1]
  BY DEF StopTimeRows
<1> HIDE DEF t
<1>4. IsAList(t) /\ Len(t) = Len(vehicle.stops)
  BY <1>1, <1>3, MappedHas
<1>5. \A r \in Range(t) : r.trip = trip
  <2> SUFFICES ASSUME NEW r \in Range(t) PROVE r.trip = trip
    OBVIOUS
  <2>1. PICK k \in 1 .. Len(t) : t[k] = r
    BY <1>4, SequenceHas
  <2>2. k \in DOMAIN vehicle.stops
    BY <1>2, <1>4, <2>1
  <2>3. t[k] = [trip |-> trip, stop |-> vehicle.stops[k], sequence |-> k - 1]
    BY <1>3, <2>2
  <2> QED BY <2>1, <2>3
<1> QED BY <1>2, <1>3, <1>4, <1>5 DEF t

(* A journey is the trip of this number.                                   *)
IsTrip(n, vehicle) ==
  /\ written["trips"][n].trip = n
  /\ written["trips"][n].route = vehicle.route
  /\ written["trips"][n].shape = ShapeOf(vehicle)
  /\ ShapeOf(vehicle) \in Range(written["shapes"])
  /\ OfTrip(written["stop_times"], n) = StopTimeRows(vehicle, n)
  /\ \E service \in DOMAIN calendars :
       /\ written["trips"][n].service = service
       /\ calendars[service] = GetCalendar(vehicle.profile, vehicle.period)
       /\ CalendarRow(service, calendars[service]) \in Range(written["calendar"])
       /\ DatesRow(service, calendars[service]) \in Range(written["dates"])

(* The trips are these journeys, each with what it has of its own and what *)
(* it shares, and a service is a calendar.                                 *)
TripsKept(sel) ==
  /\ Len(sel) = trips /\ Len(written["trips"]) = trips
  /\ \A n \in 1 .. trips : IsTrip(n, sel[n])
  /\ \A r \in Range(written["stop_times"]) : r.trip \in 1 .. trips
  /\ \A f \in {"calendar", "dates", "shapes"} : IsInjective(written[f])
  /\ \A r \in Range(written["calendar"]) :
       \E service \in DOMAIN calendars : r = CalendarRow(service, calendars[service])
  /\ \A r \in Range(written["dates"]) :
       \E service \in DOMAIN calendars : r = DatesRow(service, calendars[service])

LEMMA TripsKeptAtFirst == ASSUME Init PROVE TripsKept(<<>>)
<1>1. \A f \in Files : written[f] = <<>>
  BY DEF Init
<1>2. trips = 0 /\ 1 .. 0 = {}
  BY DEF Init
<1> QED BY <1>1, <1>2, FileNames, NothingIsAList DEF TripsKept

LEMMA SameTrips ==
  ASSUME NEW sel, TripsKept(sel), trips' = trips,
         \A f \in JourneyFiles : written'[f] = written[f],
         \A id \in DOMAIN calendars : id \in DOMAIN calendars' /\ calendars'[id] = calendars[id]
  PROVE  TripsKept(sel)'
<1>1. /\ written'["trips"] = written["trips"] /\ written'["stop_times"] = written["stop_times"]
      /\ written'["shapes"] = written["shapes"] /\ written'["calendar"] = written["calendar"]
      /\ written'["dates"] = written["dates"]
  BY DEF JourneyFiles
<1>2. ASSUME NEW n \in 1 .. trips PROVE IsTrip(n, sel[n])'
  <2>1. IsTrip(n, sel[n])
    BY DEF TripsKept
  <2> QED BY <1>1, <2>1 DEF IsTrip
<1>3. \A r \in Range(written["calendar"]) :
        \E service \in DOMAIN calendars' : r = CalendarRow(service, calendars'[service])
  <2>1. \A r \in Range(written["calendar"]) :
          \E service \in DOMAIN calendars : r = CalendarRow(service, calendars[service])
    BY DEF TripsKept
  <2> QED BY <2>1
<1>4. \A r \in Range(written["dates"]) :
        \E service \in DOMAIN calendars' : r = DatesRow(service, calendars'[service])
  <2>1. \A r \in Range(written["dates"]) :
          \E service \in DOMAIN calendars : r = DatesRow(service, calendars[service])
    BY DEF TripsKept
  <2> QED BY <2>1
<1>5. /\ Len(sel) = trips /\ Len(written["trips"]) = trips
      /\ \A r \in Range(written["stop_times"]) : r.trip \in 1 .. trips
      /\ \A f \in {"calendar", "dates", "shapes"} : IsInjective(written[f])
  BY DEF TripsKept
<1>6. \A f \in {"calendar", "dates", "shapes"} : IsInjective(written'[f])
  BY <1>1, <1>5
<1>7. TripsKept(sel)' <=>
        /\ Len(sel) = trips' /\ Len(written'["trips"]) = trips'
        /\ \A n \in 1 .. trips' : IsTrip(n, sel[n])'
        /\ \A r \in Range(written'["stop_times"]) : r.trip \in 1 .. trips'
        /\ \A f \in {"calendar", "dates", "shapes"} : IsInjective(written'[f])
        /\ \A r \in Range(written'["calendar"]) :
             \E service \in DOMAIN calendars' : r = CalendarRow(service, calendars'[service])
        /\ \A r \in Range(written'["dates"]) :
             \E service \in DOMAIN calendars' : r = DatesRow(service, calendars'[service])
  BY DEF TripsKept
<1> QED BY <1>1, <1>2, <1>3, <1>4, <1>5, <1>6, <1>7

LEMMA ExtractKeepsTrips ==
  ASSUME Typed, NEW sel, TripsKept(sel), Extract
  PROVE  TripsKept(sel)'
<1> DEFINE d == Head(parsed)
<1>1. /\ d.isSchedule =>
           /\ d \in Usable
           /\ \A f \in Files : written'[f] = written[f] \o ScheduleRows(f, d)
      /\ ~d.isSchedule => written' = written
      /\ calendars' = calendars /\ trips' = trips
  BY ExtractIs
<1> HIDE DEF d
<1>2. ASSUME NEW f \in JourneyFiles PROVE written'[f] = written[f]
  <2>1. CASE d.isSchedule
    <3>1. f \in Files /\ ScheduleRows(f, d) = <<>> /\ IsAList(written[f])
      BY <1>1, <2>1, FileNames, ScheduleRowsAre DEF Typed
    <3>2. written'[f] = written[f] \o <<>>
      BY <1>1, <2>1, <3>1
    <3> QED BY <3>1, <3>2, NothingBefore
  <2>2. CASE ~d.isSchedule
    BY <1>1, <2>2
  <2> QED BY <2>1, <2>2
<1> QED BY <1>1, <1>2, SameTrips

(* One more trip, of this journey and with this service and its calendar.  *)
OneMoreTrip(vehicle, service, calendar) ==
  /\ trips' = trips + 1
  /\ written'["trips"] = written["trips"] \o <<TripRow(vehicle, trips + 1, service)>>
  /\ written'["stop_times"] = written["stop_times"] \o StopTimeRows(vehicle, trips + 1)
  /\ written'["shapes"] =
       written["shapes"] \o NotIn(written["shapes"], <<ShapeOf(vehicle)>>)
  /\ written'["calendar"] = written["calendar"] \o
       NotIn(written["calendar"], <<CalendarRow(service, calendar)>>)
  /\ written'["dates"] =
       written["dates"] \o NotIn(written["dates"], <<DatesRow(service, calendar)>>)
  /\ service \in DOMAIN calendars' /\ calendars'[service] = calendar
  /\ \A id \in DOMAIN calendars : id \in DOMAIN calendars' /\ calendars'[id] = calendars[id]

LEMMA OneMoreTripIsKept ==
  ASSUME Typed, NEW sel, IsAList(sel), TripsKept(sel), NEW vehicle \in AllVehicles,
         NEW service, NEW calendar, calendar = GetCalendar(vehicle.profile, vehicle.period),
         OneMoreTrip(vehicle, service, calendar),
         NEW more, more = sel \o <<vehicle>>
  PROVE  TripsKept(more)'
<1>1. PICK n \in Nat : n = trips
  BY DEF Typed
<1>2. /\ Len(sel) = n /\ Len(written["trips"]) = n /\ trips' = n + 1
      /\ \A i \in 1 .. n : IsTrip(i, sel[i])
      /\ \A r \in Range(written["stop_times"]) : r.trip \in 1 .. n
      /\ \A f \in {"calendar", "dates", "shapes"} : IsInjective(written[f])
  BY <1>1 DEF TripsKept, OneMoreTrip
<1>3. \A f \in {"calendar", "dates", "shapes", "trips", "stop_times"} : IsAList(written[f])
  BY FileNames DEF Typed
<1>4. /\ IsAList(more) /\ Len(more) = n + 1 /\ more[n + 1] = vehicle
      /\ \A i \in 1 .. n : more[i] = sel[i]
  <2>1. Append(sel, vehicle) = more /\ Appended(Append(sel, vehicle), sel, vehicle)
    BY AppendHas, AppendedToo
  <2> QED BY <1>2, <2>1 DEF Appended
<1> DEFINE row == TripRow(vehicle, n + 1, service)
           old == written["trips"]
<1>5. /\ Len(written'["trips"]) = n + 1 /\ written'["trips"][n + 1] = row
      /\ \A i \in 1 .. n : written'["trips"][i] = old[i]
  <2>1. written'["trips"] = old \o <<row>>
    BY <1>1 DEF OneMoreTrip
  <2> HIDE DEF row
  <2>2. Append(old, row) = old \o <<row>> /\ Appended(Append(old, row), old, row)
    BY <1>3, AppendHas, AppendedToo
  <2> QED BY <1>2, <2>1, <2>2 DEF Appended
<1>6. /\ row.trip = n + 1 /\ row.route = vehicle.route /\ row.service = service
      /\ row.shape = ShapeOf(vehicle)
  BY DEF TripRow
<1> HIDE DEF row, old
<1>7. /\ IsInjective(written'["shapes"])
      /\ Range(written'["shapes"]) = Range(written["shapes"]) \cup {ShapeOf(vehicle)}
  <2>1. PICK x : x = ShapeOf(vehicle)
    OBVIOUS
  <2>2. written'["shapes"] = written["shapes"] \o NotIn(written["shapes"], <<x>>)
    BY <2>1 DEF OneMoreTrip
  <2> QED BY <1>2, <1>3, <2>1, <2>2, OneRow, NewHas
<1>8. /\ IsInjective(written'["calendar"])
      /\ Range(written'["calendar"]) = Range(written["calendar"]) \cup {CalendarRow(service, calendar)}
  <2>1. PICK x : x = CalendarRow(service, calendar)
    OBVIOUS
  <2>2. written'["calendar"] = written["calendar"] \o NotIn(written["calendar"], <<x>>)
    BY <2>1 DEF OneMoreTrip
  <2> QED BY <1>2, <1>3, <2>1, <2>2, OneRow, NewHas
<1>9. /\ IsInjective(written'["dates"])
      /\ Range(written'["dates"]) = Range(written["dates"]) \cup {DatesRow(service, calendar)}
  <2>1. PICK x : x = DatesRow(service, calendar)
    OBVIOUS
  <2>2. written'["dates"] = written["dates"] \o NotIn(written["dates"], <<x>>)
    BY <2>1 DEF OneMoreTrip
  <2> QED BY <1>2, <1>3, <2>1, <2>2, OneRow, NewHas
<1> DEFINE calls == StopTimeRows(vehicle, n + 1)
           earlier == written["stop_times"]
<1>10. /\ written'["stop_times"] = earlier \o calls /\ IsAList(calls) /\ IsAList(earlier)
       /\ \A r \in Range(calls) : r.trip = n + 1
       /\ Range(written'["stop_times"]) = Range(earlier) \cup Range(calls)
  <2>1. written'["stop_times"] = earlier \o calls
    BY <1>1 DEF OneMoreTrip
  <2>2. IsAList(calls) /\ \A r \in Range(calls) : r.trip = n + 1
    BY StopTimesAre DEF Typed
  <2>3. IsAList(earlier)
    BY <1>3
  <2> HIDE DEF calls, earlier
  <2> QED BY <2>1, <2>2, <2>3, ConcatHas DEF Concatenated
<1>11. \A r \in Range(earlier) : r.trip \in 1 .. n
  BY <1>2
<1>12. ASSUME NEW i \in 1 .. n PROVE OfTrip(written'["stop_times"], i) = OfTrip(earlier, i)
  <2> HIDE DEF calls, earlier
  <2>1. OfTrip(earlier \o calls, i) = OfTrip(earlier, i) \o OfTrip(calls, i)
    BY <1>10, OfTripConcat
  <2>2. \A r \in Range(calls) : r.trip # i
    BY <1>10
  <2>3. OfTrip(calls, i) = <<>>
    BY <1>10, <2>2, OfTripNone
  <2>4. IsAList(OfTrip(earlier, i))
    BY <1>10, ThoseHas DEF OfTrip
  <2> QED BY <1>10, <2>1, <2>3, <2>4, NothingBefore
<1>13. OfTrip(written'["stop_times"], n + 1) = calls
  <2> HIDE DEF calls, earlier
  <2>1. OfTrip(earlier \o calls, n + 1) = OfTrip(earlier, n + 1) \o OfTrip(calls, n + 1)
    BY <1>10, OfTripConcat
  <2>2. \A r \in Range(earlier) : r.trip # n + 1
    BY <1>11
  <2>3. OfTrip(earlier, n + 1) = <<>>
    BY <1>10, <2>2, OfTripNone
  <2>4. OfTrip(calls, n + 1) = calls
    BY <1>10, OfTripAll
  <2> QED BY <1>10, <2>1, <2>3, <2>4, NothingBefore
<1>14. /\ service \in DOMAIN calendars' /\ calendars'[service] = calendar
       /\ \A id \in DOMAIN calendars : id \in DOMAIN calendars' /\ calendars'[id] = calendars[id]
  BY DEF OneMoreTrip
<1>15. ASSUME NEW i \in 1 .. n PROVE IsTrip(i, more[i])'
  <2>1. PICK v : v = sel[i]
    OBVIOUS
  <2>2. IsTrip(i, v) /\ more[i] = v
    BY <1>2, <1>4, <2>1
  <2>3. written'["trips"][i] = written["trips"][i]
    BY <1>5 DEF old
  <2>4. OfTrip(written'["stop_times"], i) = OfTrip(written["stop_times"], i)
    BY <1>12
  <2>5. PICK id \in DOMAIN calendars :
          /\ written["trips"][i].service = id
          /\ calendars[id] = GetCalendar(v.profile, v.period)
          /\ CalendarRow(id, calendars[id]) \in Range(written["calendar"])
          /\ DatesRow(id, calendars[id]) \in Range(written["dates"])
    BY <2>2 DEF IsTrip
  <2>6. /\ id \in DOMAIN calendars' /\ calendars'[id] = calendars[id]
        /\ written'["trips"][i].service = id
        /\ calendars'[id] = GetCalendar(v.profile, v.period)
        /\ CalendarRow(id, calendars'[id]) \in Range(written'["calendar"])
        /\ DatesRow(id, calendars'[id]) \in Range(written'["dates"])
    BY <1>8, <1>9, <1>14, <2>3, <2>5
  <2>7. /\ written'["trips"][i].trip = i /\ written'["trips"][i].route = v.route
        /\ written'["trips"][i].shape = ShapeOf(v)
        /\ ShapeOf(v) \in Range(written'["shapes"])
        /\ OfTrip(written'["stop_times"], i) = StopTimeRows(v, i)
    BY <1>7, <2>2, <2>3, <2>4 DEF IsTrip
  <2>8. IsTrip(i, v)'
    BY <2>6, <2>7 DEF IsTrip
  <2> QED BY <2>2, <2>8
<1>16. IsTrip(n + 1, vehicle)'
  <2>1. /\ written'["trips"][n + 1].trip = n + 1 /\ written'["trips"][n + 1].route = vehicle.route
        /\ written'["trips"][n + 1].shape = ShapeOf(vehicle)
        /\ written'["trips"][n + 1].service = service
    BY <1>5, <1>6
  <2>2. /\ ShapeOf(vehicle) \in Range(written'["shapes"])
        /\ CalendarRow(service, calendars'[service]) \in Range(written'["calendar"])
        /\ DatesRow(service, calendars'[service]) \in Range(written'["dates"])
    BY <1>7, <1>8, <1>9, <1>14
  <2>3. OfTrip(written'["stop_times"], n + 1) = StopTimeRows(vehicle, n + 1)
    BY <1>13
  <2> QED BY <1>14, <2>1, <2>2, <2>3 DEF IsTrip
<1>17. ASSUME NEW i \in 1 .. n + 1 PROVE IsTrip(i, more[i])'
  <2>1. i \in 1 .. n \/ i = n + 1
    OBVIOUS
  <2>2. CASE i = n + 1
    BY <1>4, <1>16, <2>2
  <2> QED BY <1>15, <2>1, <2>2
<1>18. \A r \in Range(written'["stop_times"]) : r.trip \in 1 .. n + 1
  BY <1>10, <1>11
<1>19. \A r \in Range(written'["calendar"]) :
         \E id \in DOMAIN calendars' : r = CalendarRow(id, calendars'[id])
  <2>1. \A r \in Range(written["calendar"]) :
          \E id \in DOMAIN calendars : r = CalendarRow(id, calendars[id])
    BY DEF TripsKept
  <2> QED BY <1>8, <1>14, <2>1
<1>20. \A r \in Range(written'["dates"]) :
         \E id \in DOMAIN calendars' : r = DatesRow(id, calendars'[id])
  <2>1. \A r \in Range(written["dates"]) :
          \E id \in DOMAIN calendars : r = DatesRow(id, calendars[id])
    BY DEF TripsKept
  <2> QED BY <1>9, <1>14, <2>1
<1>21. \A f \in {"calendar", "dates", "shapes"} : IsInjective(written'[f])
  BY <1>7, <1>8, <1>9
<1>22. TripsKept(more)' <=>
        /\ Len(more) = trips' /\ Len(written'["trips"]) = trips'
        /\ \A i \in 1 .. trips' : IsTrip(i, more[i])'
        /\ \A r \in Range(written'["stop_times"]) : r.trip \in 1 .. trips'
        /\ \A f \in {"calendar", "dates", "shapes"} : IsInjective(written'[f])
        /\ \A r \in Range(written'["calendar"]) :
             \E id \in DOMAIN calendars' : r = CalendarRow(id, calendars'[id])
        /\ \A r \in Range(written'["dates"]) :
             \E id \in DOMAIN calendars' : r = DatesRow(id, calendars'[id])
  BY DEF TripsKept
<1> QED BY <1>2, <1>4, <1>5, <1>17, <1>18, <1>19, <1>20, <1>21, <1>22

LEMMA ProcessVehicleKeepsTrips ==
  ASSUME Typed, NEW sel, IsAList(sel), TripsKept(sel), ProcessVehicle,
         NEW more, more = sel \o OneOf(Head(vehicles), Completing)
  PROVE  TripsKept(more)'
<1>1. PICK vehicle : vehicle = Head(vehicles)
  OBVIOUS
<1>2. PICK calendar : calendar = GetCalendar(vehicle.profile, vehicle.period)
  OBVIOUS
<1>3. PICK service : service = ServiceOf(calendar)
  OBVIOUS
<1>4. /\ vehicle \in AllVehicles
      /\ ~Completes(vehicle) => trips' = trips /\ written' = written
      /\ Completes(vehicle) =>
           /\ trips' = trips + 1
           /\ DOMAIN written' = Files
           /\ \A f \in Files : written'[f] = written[f] \o
                JourneyRows(f, vehicle, trips + 1, service, calendar)
      /\ ~IsJourney(vehicle) => calendars' = calendars
      /\ IsJourney(vehicle) =>
           calendars' = IF calendar \in Range(calendars) THEN calendars
                        ELSE Append(calendars, calendar)
  BY <1>1, <1>2, <1>3, ProcessVehicleIs
<1>5. /\ \A id \in DOMAIN calendars : id \in DOMAIN calendars' /\ calendars'[id] = calendars[id]
      /\ IsJourney(vehicle) => service \in DOMAIN calendars' /\ calendars'[service] = calendar
  <2>1. CASE IsJourney(vehicle)
    BY <1>3, <1>4, <2>1, CalendarIsThere
  <2>2. CASE ~IsJourney(vehicle)
    BY <1>4, <2>2
  <2> QED BY <2>1, <2>2
<1>6. vehicle \in Completing <=> Completes(vehicle)
  BY <1>4, CompletingOnes
<1>7. CASE Completes(vehicle)
  <2>1. more = sel \o <<vehicle>>
    BY <1>1, <1>6, <1>7 DEF OneOf
  <2>2. IsJourney(vehicle)
    BY <1>7 DEF Completes
  <2>3. /\ written'["trips"] = written["trips"] \o JourneyRows("trips", vehicle, trips + 1, service, calendar)
        /\ written'["stop_times"] = written["stop_times"] \o JourneyRows("stop_times", vehicle, trips + 1, service, calendar)
        /\ written'["shapes"] = written["shapes"] \o JourneyRows("shapes", vehicle, trips + 1, service, calendar)
        /\ written'["calendar"] = written["calendar"] \o JourneyRows("calendar", vehicle, trips + 1, service, calendar)
        /\ written'["dates"] = written["dates"] \o JourneyRows("dates", vehicle, trips + 1, service, calendar)
    BY <1>4, <1>7, FileNames
  <2> DEFINE trip == trips + 1
  <2>4. /\ JourneyRows("calendar", vehicle, trip, service, calendar) =
             NotIn(written["calendar"], <<CalendarRow(service, calendar)>>)
        /\ JourneyRows("dates", vehicle, trip, service, calendar) =
             NotIn(written["dates"], <<DatesRow(service, calendar)>>)
        /\ JourneyRows("shapes", vehicle, trip, service, calendar) =
             NotIn(written["shapes"], <<ShapeOf(vehicle)>>)
        /\ JourneyRows("trips", vehicle, trip, service, calendar) =
             <<TripRow(vehicle, trip, service)>>
        /\ JourneyRows("stop_times", vehicle, trip, service, calendar) =
             StopTimeRows(vehicle, trip)
    <3>1. vehicle \in AllVehicles
      BY <1>4
    <3> HIDE DEF trip
    <3> QED BY ONLY Typed, <3>1, JourneyRowsAre
  <2>5. /\ trips' = trips + 1
        /\ service \in DOMAIN calendars' /\ calendars'[service] = calendar
        /\ \A id \in DOMAIN calendars : id \in DOMAIN calendars' /\ calendars'[id] = calendars[id]
    BY <1>4, <1>5, <1>7, <2>2
  <2>6. OneMoreTrip(vehicle, service, calendar)
    BY <2>3, <2>4, <2>5 DEF OneMoreTrip
  <2> QED BY <1>2, <1>4, <2>1, <2>6, OneMoreTripIsKept
<1>8. CASE ~Completes(vehicle)
  <2>1. OneOf(vehicle, Completing) = <<>>
    BY <1>6, <1>8 DEF OneOf
  <2>2. more = sel
    BY <1>1, <2>1, NothingBefore
  <2> QED BY <1>4, <1>5, <1>8, <2>2, SameTrips
<1> QED BY <1>7, <1>8

-----------------------------------------------------------------------------
(***************************************************************************)
(* The five parts together.                                                *)
(***************************************************************************)

(* These documents have been extracted and these journeys made trips, and  *)
(* the files say so.                                                       *)
UpTo(done, sel) ==
  /\ Extracted(done) /\ Converted(done, sel)
  /\ SchedulesWritten(done) /\ TripsKept(sel)

IInv == Typed /\ Ended /\ \E done, sel : UpTo(done, sel)

LEMMA IInvAtFirst == ASSUME Init PROVE IInv
<1>1. UpTo(<<>>, <<>>)
  BY ExtractedAtFirst, ConvertedAtFirst, SchedulesWrittenAtFirst, TripsKeptAtFirst DEF UpTo
<1> QED BY <1>1, TypedAtFirst DEF IInv

LEMMA NothingWritten ==
  ASSUME NEW done, NEW sel, UpTo(done, sel), Extracted(done)',
         UNCHANGED <<files, vehicles, calendars, trips, written>>
  PROVE  UpTo(done, sel)'
<1>1. Converted(done, sel)'
  BY QuietStaysConverted DEF UpTo
<1>2. SchedulesWritten(done)'
  <2>1. \A f \in ScheduleFiles : written'[f] = written[f]
    OBVIOUS
  <2> QED BY <2>1, SameSchedules DEF UpTo
<1>3. TripsKept(sel)'
  <2>1. /\ \A f \in JourneyFiles : written'[f] = written[f]
        /\ \A id \in DOMAIN calendars : id \in DOMAIN calendars' /\ calendars'[id] = calendars[id]
    OBVIOUS
  <2> QED BY <2>1, SameTrips DEF UpTo
<1> QED BY <1>1, <1>2, <1>3 DEF UpTo

LEMMA QuietIsUpTo ==
  ASSUME Typed, NEW done, NEW sel, UpTo(done, sel),
         FailFile \/ ParseRejects \/ Deliver \/ (\E f \in Files : Finish(f)) \/ UNCHANGED vars
  PROVE  UpTo(done, sel)'
<1>1. UNCHANGED <<files, file, entry, failures, waiting, pushed, taken, parsing, parsed,
                  vehicles, calendars, trips, written>>
  BY QuietSteps
<1>2. OnTheWay' = OnTheWay
  BY <1>1 DEF OnTheWay, InParser
<1>3. Extracted(done)'
  BY <1>1, <1>2, SameDocumentsRead, PassedOnStaysExtracted DEF UpTo
<1> QED BY <1>1, <1>3, NothingWritten

LEMMA ReadIsUpTo ==
  ASSUME Typed, NEW done, NEW sel, UpTo(done, sel), PushDocument \/ SkipEntry \/ NextFile
  PROVE  UpTo(done, sel)'
<1>1. UNCHANGED <<files, taken, parsing, parsed, vehicles, calendars, trips, written>>
  BY DEF PushDocument, SkipEntry, NextFile, documents, numbers
<1>2. Extracted(done)
  BY DEF UpTo
<1>3. Extracted(done)'
  <2>1. CASE PushDocument \/ SkipEntry
    BY <1>2, <2>1, ReadStaysExtracted
  <2>2. CASE NextFile
    <3>1. pushed' = pushed
      BY <2>2 DEF NextFile, documents
    <3>2. OnTheWay' = OnTheWay
      BY <1>1, <3>1 DEF OnTheWay, InParser
    <3>3. Usable' = Usable
      BY <1>1 DEF Usable
    <3> QED BY <1>2, <2>2, <3>2, <3>3, NextFileReads, PassedOnStaysExtracted
  <2> QED BY <2>1, <2>2
<1> QED BY <1>1, <1>3, NothingWritten

LEMMA PassedOnIsUpTo ==
  ASSUME Typed, NEW done, NEW sel, UpTo(done, sel), Take \/ Parse \/ Parsed
  PROVE  UpTo(done, sel)'
<1>1. UNCHANGED <<files, file, entry, vehicles, calendars, trips, written>>
  BY DEF Take, Parse, Parsed, reading, numbers
<1>2. OnTheWay' = OnTheWay
  BY TakenInOrder, ParsedNext, ParsedInOrder
<1>3. Extracted(done)'
  BY <1>1, <1>2, SameDocumentsRead, PassedOnStaysExtracted DEF UpTo
<1> QED BY <1>1, <1>3, NothingWritten

LEMMA ExtractIsUpTo ==
  ASSUME Typed, NEW done, NEW sel, UpTo(done, sel), Extract,
         NEW more, more = done \o OneOf(Head(parsed), Usable)
  PROVE  UpTo(more, sel)'
<1>1. Extracted(done) /\ Converted(done, sel) /\ SchedulesWritten(done) /\ TripsKept(sel)
  BY DEF UpTo
<1>2. Extracted(more)'
  BY <1>1, ExtractExtracts
<1>3. Converted(more, sel)'
  BY <1>1, ExtractStaysConverted
<1>4. SchedulesWritten(more)'
  BY <1>1, ExtractWrites
<1>5. TripsKept(sel)'
  BY <1>1, ExtractKeepsTrips
<1> QED BY <1>2, <1>3, <1>4, <1>5 DEF UpTo

LEMMA ProcessVehicleIsUpTo ==
  ASSUME Typed, NEW done, NEW sel, UpTo(done, sel), ProcessVehicle,
         NEW more, more = sel \o OneOf(Head(vehicles), Completing)
  PROVE  UpTo(done, more)'
<1>1. Extracted(done) /\ Converted(done, sel) /\ SchedulesWritten(done) /\ TripsKept(sel)
      /\ IsAList(sel)
  BY DEF UpTo, Converted
<1>2. PICK vehicle : vehicle = Head(vehicles)
  OBVIOUS
<1>3. PICK calendar : calendar = GetCalendar(vehicle.profile, vehicle.period)
  OBVIOUS
<1>4. /\ vehicle \in AllVehicles
      /\ ~Completes(vehicle) => written' = written
      /\ Completes(vehicle) =>
           \A f \in Files : written'[f] = written[f] \o
             JourneyRows(f, vehicle, trips + 1, ServiceOf(calendar), calendar)
      /\ UNCHANGED <<files, file, entry, pushed, taken, parsing, parsed>>
  BY <1>2, <1>3, ProcessVehicleIs
<1>5. OnTheWay' = OnTheWay
  BY <1>4 DEF OnTheWay, InParser
<1>6. Extracted(done)'
  BY <1>1, <1>4, <1>5, SameDocumentsRead, PassedOnStaysExtracted
<1>7. ASSUME NEW f \in ScheduleFiles PROVE written'[f] = written[f]
  <2>1. CASE Completes(vehicle)
    <3>1. f \in Files /\ IsAList(written[f])
      BY FileNames DEF Typed
    <3>2. PICK trip : trip = trips + 1
      OBVIOUS
    <3>3. PICK service : service = ServiceOf(calendar)
      OBVIOUS
    <3>4. JourneyRows(f, vehicle, trip, service, calendar) = <<>>
      BY DEF JourneyRows, ScheduleFiles
    <3>5. written'[f] = written[f] \o JourneyRows(f, vehicle, trip, service, calendar)
      BY <1>4, <2>1, <3>1, <3>2, <3>3
    <3> QED BY <3>1, <3>4, <3>5, NothingBefore
  <2>2. CASE ~Completes(vehicle)
    BY <1>4, <2>2
  <2> QED BY <2>1, <2>2
<1>8. SchedulesWritten(done)'
  BY <1>1, <1>7, SameSchedules
<1>9. Converted(done, more)'
  BY <1>1, ProcessVehicleConverts
<1>10. TripsKept(more)'
  BY <1>1, ProcessVehicleKeepsTrips
<1> QED BY <1>6, <1>8, <1>9, <1>10 DEF UpTo

LEMMA StepKeepsIInv == ASSUME IInv, [Next]_vars PROVE IInv'
<1>1. Typed /\ Ended
  BY DEF IInv
<1>2. PICK done, sel : UpTo(done, sel)
  BY DEF IInv
<1>3. \E left, right : UpTo(left, right)'
  <2>1. CASE PushDocument \/ SkipEntry \/ NextFile
    BY <1>1, <1>2, <2>1, ReadIsUpTo
  <2>2. CASE Take \/ Parse \/ Parsed
    BY <1>1, <1>2, <2>2, PassedOnIsUpTo
  <2>3. CASE Extract
    <3>1. PICK more : more = done \o OneOf(Head(parsed), Usable)
      OBVIOUS
    <3> QED BY <1>1, <1>2, <2>3, <3>1, ExtractIsUpTo
  <2>4. CASE ProcessVehicle
    <3>1. PICK more : more = sel \o OneOf(Head(vehicles), Completing)
      OBVIOUS
    <3> QED BY <1>1, <1>2, <2>4, <3>1, ProcessVehicleIsUpTo
  <2>5. CASE FailFile \/ ParseRejects \/ Deliver \/ (\E f \in Files : Finish(f)) \/ UNCHANGED vars
    BY <1>1, <1>2, <2>5, QuietIsUpTo
  <2> QED BY <2>1, <2>2, <2>3, <2>4, <2>5 DEF Next
<1> QED BY <1>1, <1>3, StepKeepsTyped, StepKeepsEnded DEF IInv

(***************************************************************************)
(* Every reachable state is one where some documents have been extracted   *)
(* and some journeys made trips, in the order they were given, and the     *)
(* files hold their rows and no others (FileStream to RowStream).          *)
(***************************************************************************)
THEOREM InductiveInvariant == Spec => []IInv
<1>1. Init => IInv
  BY IInvAtFirst
<1>2. IInv /\ [Next]_vars => IInv'
  BY StepKeepsIInv
<1> QED BY <1>1, <1>2, PTL DEF Spec

LEMMA Ordered ==
  ASSUME Typed, NEW done, NEW sel, UpTo(done, sel)
  PROVE  /\ \A n \in DOMAIN written["trips"] :
              /\ written["trips"][n].trip \in 1 .. trips
              /\ written["trips"][n].service \in DOMAIN calendars
         /\ DOMAIN written["trips"] = 1 .. trips
<1>1. /\ Len(written["trips"]) = trips /\ IsAList(written["trips"])
      /\ \A n \in 1 .. trips : IsTrip(n, sel[n])
  BY FileNames DEF UpTo, TripsKept, Typed
<1>2. DOMAIN written["trips"] = 1 .. trips
  BY <1>1, SequenceHas
<1>3. ASSUME NEW n \in 1 .. trips
      PROVE  /\ written["trips"][n].trip = n /\ written["trips"][n].service \in DOMAIN calendars
  BY <1>1 DEF IsTrip
<1> QED BY <1>2, <1>3

LEMMA IInvIsTyped == ASSUME IInv PROVE TypeOK
<1>1. Typed /\ Ended
  BY DEF IInv
<1>2. PICK done, sel : UpTo(done, sel)
  BY DEF IInv
<1>3. /\ \A n \in DOMAIN written["trips"] :
           /\ written["trips"][n].trip \in 1 .. trips
           /\ written["trips"][n].service \in DOMAIN calendars
  BY <1>1, <1>2, Ordered
<1>4. \A r \in Range(written["trips"]) : r.trip \in 1 .. trips /\ r.service \in DOMAIN calendars
  BY <1>3 DEF Range
<1>5. /\ file \in 1 .. Len(files) + 1 /\ failures \in Nat /\ waiting \in BOOLEAN
      /\ Len(pushed) <= HighWaterMark /\ Len(taken) <= HighWaterMark
      /\ Len(parsed) <= HighWaterMark
      /\ waiting => pushed # <<>>
      /\ IsInjective(calendars)
      /\ status \in {"converting", "delivered", "died"}
  BY <1>1 DEF Typed
<1>6. closed \subseteq Files
  BY <1>1 DEF Ended
<1> QED BY <1>4, <1>5, <1>6 DEF TypeOK

(* What the end of a conversion has come to.                               *)
LEMMA AtTheEnd ==
  ASSUME Typed, Ended, NEW done, NEW sel, UpTo(done, sel), status = "delivered"
  PROVE  Documents = done /\ Journeys = sel
<1>1. closed = Files
  BY DEF Ended
<1>2. JourneysEnded
  <2>1. "trips" \in closed \cap JourneyFiles
    BY <1>1 DEF Files, JourneyFiles
  <2>2. closed \cap JourneyFiles # {}
    BY <2>1
  <2> QED BY <2>2 DEF Ended
<1>3. /\ file > Len(files) /\ pushed = <<>> /\ taken = <<>> /\ parsing = None /\ parsed = <<>>
      /\ vehicles = <<>>
  BY <1>2 DEF JourneysEnded, SchedulesEnded, ParsingEnded, FilesEnded
<1>4. file = Len(files) + 1 /\ Len(files) \in Nat
  BY <1>3, FilesGiven DEF Typed
<1>5. OnTheWay = <<>>
  BY <1>3, NothingIsAList, NothingBefore DEF OnTheWay, InParser
<1>6. DocumentsRead = Documents
  <2>1. AreLists(OfEachFile) /\ Len(OfEachFile) = Len(files) /\ IsAList(OfEachFile)
    BY OfEachFileHas DEF Typed, AreLists
  <2>2. file - 1 = Len(OfEachFile)
    BY <1>4, <2>1
  <2>3. FirstOf(OfEachFile, file - 1) = OfEachFile
    BY <2>1, <2>2, FirstOfHas
  <2>4. OfThisFile = <<>>
    BY <1>4 DEF OfThisFile
  <2>5. FlattenSeq(OfEachFile) \o <<>> = FlattenSeq(OfEachFile)
    BY <2>1, FlattenHas, NothingBefore
  <2>6. Documents = FlattenSeq(OfEachFile)
    BY DEF Documents, OfEachFile
  <2> QED BY <2>3, <2>4, <2>5, <2>6 DEF DocumentsRead
<1>7. Documents = done
  <2>1. DocumentsRead = done \o <<>> /\ IsAList(done)
    BY <1>5, ThoseOfNone DEF UpTo, Extracted
  <2> QED BY <1>6, <2>1, NothingBefore
<1>8. JourneysOf(done) = sel
  <2>1. JourneysOf(done) = sel \o <<>> /\ IsAList(sel)
    BY <1>3, ThoseOfNone DEF UpTo, Converted
  <2> QED BY <2>1, NothingBefore
<1> QED BY <1>7, <1>8 DEF Journeys, JourneysOf

LEMMA OnePlace ==
  ASSUME NEW rows, IsAList(rows), IsInjective(rows), NEW x \in Range(rows),
         NEW K, K = {k \in DOMAIN rows : rows[k] = x}
  PROVE  Cardinality(K) = 1
<1>1. PICK i \in DOMAIN rows : rows[i] = x
  BY DEF Range
<1>2. K = {i}
  BY <1>1 DEF IsInjective
<1> QED BY <1>2, FS_Singleton

(* The calls of a trip are those of its journey.                           *)
LEMMA CallsAreItsStops ==
  ASSUME files \in Inputs, NEW vehicle \in AllVehicles, NEW trip,
         NEW calls, calls = StopTimeRows(vehicle, trip)
  PROVE  /\ [k \in DOMAIN calls |-> calls[k].stop] = vehicle.stops
         /\ \A k \in DOMAIN calls : calls[k].sequence = k - 1
<1> DEFINE stops == [k \in DOMAIN calls |-> calls[k].stop]
<1>1. /\ IsAList(calls) /\ Len(calls) = Len(vehicle.stops)
      /\ \A k \in 1 .. Len(vehicle.stops) :
           calls[k] = [trip |-> trip, stop |-> vehicle.stops[k], sequence |-> k - 1]
  BY StopTimesAre
<1>2. IsAList(vehicle.stops) /\ Len(vehicle.stops) \in Nat
  BY VehiclesGiven, SequenceHas
<1>3. DOMAIN calls = 1 .. Len(vehicle.stops)
  BY <1>1, SequenceHas
<1>4. \A k \in 1 .. Len(vehicle.stops) :
        calls[k].stop = vehicle.stops[k] /\ calls[k].sequence = k - 1
  <2> SUFFICES ASSUME NEW k \in 1 .. Len(vehicle.stops)
               PROVE  calls[k].stop = vehicle.stops[k] /\ calls[k].sequence = k - 1
    OBVIOUS
  <2>1. calls[k] = [trip |-> trip, stop |-> vehicle.stops[k], sequence |-> k - 1]
    BY <1>1
  <2> QED BY <2>1
<1>5. /\ DOMAIN stops = 1 .. Len(vehicle.stops)
      /\ stops = [k \in 1 .. Len(vehicle.stops) |-> stops[k]]
      /\ \A k \in 1 .. Len(vehicle.stops) : stops[k] = vehicle.stops[k]
  BY <1>3, <1>4
<1> HIDE DEF stops
<1>6. IsAList(stops) /\ Len(stops) = Len(vehicle.stops)
  BY <1>2, <1>5, ListIsAList
<1>7. stops = vehicle.stops
  BY <1>2, <1>5, <1>6, SameListsAre
<1> QED BY <1>3, <1>4, <1>7 DEF stops

LEMMA PartsAreWhole ==
  ASSUME NEW done, SchedulesWritten(done), Documents = done
  PROVE  /\ \A part \in {<<"agency", "operators">>, <<"routes", "lines">>,
                         <<"stops", "stops">>} :
              /\ IsInjective(written[part[1]])
              /\ Range(written[part[1]]) =
                   UNION {Range(Documents[i][part[2]]) : i \in DOMAIN Documents}
         /\ IsInjective(written["transfers"])
         /\ Range(written["transfers"]) =
              {w \in Range(written["stops"]) \X Range(written["stops"]) :
                 w[1] = w[2] \/ {w[1], w[2]} \in Near}
<1> DEFINE Part(f, column) ==
             /\ IsInjective(written[f])
             /\ Range(written[f]) = UNION {Range(Documents[i][column]) : i \in DOMAIN Documents}
<1>1. Part("agency", "operators") /\ Part("routes", "lines") /\ Part("stops", "stops")
  BY DEF SchedulesWritten, WrittenOnce, Brought
<1> HIDE DEF Part
<1>2. ASSUME NEW part \in {<<"agency", "operators">>, <<"routes", "lines">>,
                           <<"stops", "stops">>}
      PROVE  Part(part[1], part[2])
  BY <1>1
<1>3. /\ IsInjective(written["transfers"])
      /\ Range(written["transfers"]) = Connected(Range(written["stops"]))
  BY DEF SchedulesWritten
<1> QED BY <1>2, <1>3 DEF Part, Connected

LEMMA SharedOnce ==
  ASSUME NEW rows, IsAList(rows), IsInjective(rows), NEW service, NEW x \in Range(rows),
         x.service = service,
         \A r \in Range(rows) : r.service = service => r = x
  PROVE  Cardinality({k \in DOMAIN rows : rows[k].service = service}) = 1
<1> DEFINE K == {k \in DOMAIN rows : rows[k].service = service}
<1>1. \A k \in DOMAIN rows : rows[k] \in Range(rows)
  BY DEF Range
<1>2. \A k \in DOMAIN rows : rows[k].service = service <=> rows[k] = x
  BY <1>1
<1>3. K = {k \in DOMAIN rows : rows[k] = x}
  BY <1>2
<1> HIDE DEF K
<1>4. Cardinality(K) = 1
  BY <1>3, OnePlace
<1> QED BY <1>4 DEF K

LEMMA TripsAreWhole ==
  ASSUME Typed, NEW sel, IsAList(sel), Range(sel) \subseteq AllVehicles, TripsKept(sel),
         NEW n \in 1 .. trips
  PROVE  LET row == written["trips"][n]
             calls == RowsOfTrip("stop_times", row.trip)
         IN  /\ row.route = sel[n].route
             /\ [k \in DOMAIN calls |-> calls[k].stop] = sel[n].stops
             /\ \A k \in DOMAIN calls : calls[k].sequence = k - 1
             /\ \A f \in {"calendar", "dates"} :
                  Cardinality({k \in DOMAIN written[f] :
                                 written[f][k].service = row.service}) = 1
             /\ Cardinality({k \in DOMAIN written["shapes"] :
                               written["shapes"][k] = row.shape}) = 1
<1>1. PICK vehicle : vehicle = sel[n]
  OBVIOUS
<1>2. Len(sel) = trips /\ trips \in Nat /\ IsTrip(n, vehicle) /\ vehicle \in AllVehicles
  <2>1. Len(sel) = trips /\ trips \in Nat /\ IsTrip(n, sel[n])
    BY DEF TripsKept, Typed
  <2>2. sel[n] \in Range(sel)
    BY <2>1, SequenceHas
  <2> QED BY <1>1, <2>1, <2>2
<1>3. PICK row : row = written["trips"][n]
  OBVIOUS
<1>4. /\ row.trip = n /\ row.route = vehicle.route /\ row.shape = ShapeOf(vehicle)
      /\ ShapeOf(vehicle) \in Range(written["shapes"])
      /\ OfTrip(written["stop_times"], n) = StopTimeRows(vehicle, n)
  BY <1>2, <1>3 DEF IsTrip
<1>5. PICK service \in DOMAIN calendars :
        /\ row.service = service
        /\ CalendarRow(service, calendars[service]) \in Range(written["calendar"])
        /\ DatesRow(service, calendars[service]) \in Range(written["dates"])
  BY <1>2, <1>3 DEF IsTrip
<1>6. PICK calls : calls = RowsOfTrip("stop_times", row.trip)
  OBVIOUS
<1>7. /\ [k \in DOMAIN calls |-> calls[k].stop] = vehicle.stops
      /\ \A k \in DOMAIN calls : calls[k].sequence = k - 1
  <2>1. calls = StopTimeRows(vehicle, n)
    BY <1>4, <1>6, RowsOfTripAre
  <2>2. files \in Inputs
    BY DEF Typed
  <2> QED BY <1>2, <2>1, <2>2, CallsAreItsStops
<1>8. /\ \A f \in {"calendar", "dates", "shapes"} : IsAList(written[f]) /\ IsInjective(written[f])
  BY FileNames DEF Typed, TripsKept
<1>9. Cardinality({k \in DOMAIN written["calendar"] :
                     written["calendar"][k].service = service}) = 1
  <2>1. PICK x : x = CalendarRow(service, calendars[service])
    OBVIOUS
  <2>2. x.service = service
    BY <2>1 DEF CalendarRow
  <2>3. \A r \in Range(written["calendar"]) : r.service = service => r = x
    <3> SUFFICES ASSUME NEW r \in Range(written["calendar"]), r.service = service PROVE r = x
      OBVIOUS
    <3>1. PICK id \in DOMAIN calendars : r = CalendarRow(id, calendars[id])
      BY DEF TripsKept
    <3>2. id = service
      BY <3>1 DEF CalendarRow
    <3> QED BY <2>1, <3>1, <3>2
  <2>4. PICK rows : rows = written["calendar"]
    OBVIOUS
  <2>5. /\ IsAList(rows) /\ IsInjective(rows) /\ x \in Range(rows)
        /\ \A r \in Range(rows) : r.service = service => r = x
    BY <1>5, <1>8, <2>1, <2>3, <2>4
  <2>6. Cardinality({k \in DOMAIN rows : rows[k].service = service}) = 1
    BY <2>2, <2>5, SharedOnce
  <2> QED BY <2>4, <2>6
<1>10. Cardinality({k \in DOMAIN written["dates"] :
                      written["dates"][k].service = service}) = 1
  <2>1. PICK x : x = DatesRow(service, calendars[service])
    OBVIOUS
  <2>2. x.service = service
    BY <2>1 DEF DatesRow
  <2>3. \A r \in Range(written["dates"]) : r.service = service => r = x
    <3> SUFFICES ASSUME NEW r \in Range(written["dates"]), r.service = service PROVE r = x
      OBVIOUS
    <3>1. PICK id \in DOMAIN calendars : r = DatesRow(id, calendars[id])
      BY DEF TripsKept
    <3>2. id = service
      BY <3>1 DEF DatesRow
    <3> QED BY <2>1, <3>1, <3>2
  <2>4. PICK rows : rows = written["dates"]
    OBVIOUS
  <2>5. /\ IsAList(rows) /\ IsInjective(rows) /\ x \in Range(rows)
        /\ \A r \in Range(rows) : r.service = service => r = x
    BY <1>5, <1>8, <2>1, <2>3, <2>4
  <2>6. Cardinality({k \in DOMAIN rows : rows[k].service = service}) = 1
    BY <2>2, <2>5, SharedOnce
  <2> QED BY <2>4, <2>6
<1>11. Cardinality({k \in DOMAIN written["shapes"] : written["shapes"][k] = row.shape}) = 1
  BY <1>4, <1>8, OnePlace
<1>12. \A f \in {"calendar", "dates"} :
         Cardinality({k \in DOMAIN written[f] : written[f][k].service = row.service}) = 1
  BY <1>5, <1>9, <1>10
<1> QED BY <1>1, <1>3, <1>4, <1>6, <1>7, <1>11, <1>12

LEMMA JourneysAre ==
  ASSUME Typed, NEW done, NEW sel, UpTo(done, sel)
  PROVE  /\ IsAList(sel) /\ Range(sel) \subseteq AllVehicles /\ Range(sel) \subseteq Completing
         /\ Len(sel) = trips /\ Len(written["trips"]) = trips /\ DOMAIN sel = 1 .. trips
<1>1. IsAList(sel) /\ Range(sel) \subseteq Completing
  BY DEF UpTo, Converted
<1>2. Len(sel) = trips /\ Len(written["trips"]) = trips
  BY DEF UpTo, TripsKept
<1> QED BY <1>1, <1>2, SequenceHas, CompletingAreGiven

LEMMA IInvDeliversWhole == ASSUME IInv PROVE DeliveredWhole
<1> SUFFICES ASSUME status = "delivered" PROVE DeliveredWhole
  BY DEF DeliveredWhole
<1>1. Typed /\ Ended
  BY DEF IInv
<1>2. PICK done, sel : UpTo(done, sel)
  BY DEF IInv
<1>3. Documents = done /\ Journeys = sel
  BY <1>1, <1>2, AtTheEnd
<1>4. SchedulesWritten(done) /\ TripsKept(sel)
  BY <1>2 DEF UpTo
<1>5. /\ IsAList(sel) /\ Range(sel) \subseteq AllVehicles
      /\ Len(sel) = trips /\ Len(written["trips"]) = trips /\ DOMAIN sel = 1 .. trips
  BY <1>1, <1>2, JourneysAre
<1>6. /\ \A part \in {<<"agency", "operators">>, <<"routes", "lines">>,
                      <<"stops", "stops">>} :
           /\ IsInjective(written[part[1]])
           /\ Range(written[part[1]]) =
                UNION {Range(Documents[i][part[2]]) : i \in DOMAIN Documents}
      /\ IsInjective(written["transfers"])
      /\ Range(written["transfers"]) =
           {w \in Range(written["stops"]) \X Range(written["stops"]) :
              w[1] = w[2] \/ {w[1], w[2]} \in Near}
  BY <1>3, <1>4, PartsAreWhole
<1>7. Len(written["trips"]) = Len(Journeys)
  BY <1>3, <1>5
<1>8. \A i \in DOMAIN Journeys :
         LET row == written["trips"][i]
             calls == RowsOfTrip("stop_times", row.trip)
         IN  /\ row.route = Journeys[i].route
             /\ [k \in DOMAIN calls |-> calls[k].stop] = Journeys[i].stops
             /\ \A k \in DOMAIN calls : calls[k].sequence = k - 1
             /\ \A f \in {"calendar", "dates"} :
                  Cardinality({k \in DOMAIN written[f] :
                                 written[f][k].service = row.service}) = 1
             /\ Cardinality({k \in DOMAIN written["shapes"] :
                               written["shapes"][k] = row.shape}) = 1
  BY <1>1, <1>3, <1>4, <1>5, TripsAreWhole
<1> QED BY <1>6, <1>7, <1>8 DEF DeliveredWhole

LEMMA IInvRunsOnItsDays == ASSUME IInv PROVE RunsOnItsDays
<1> SUFFICES ASSUME status = "delivered", NEW i \in DOMAIN Journeys,
                    NEW row \in Range(written["calendar"]) \cup Range(written["dates"]),
                    NEW dates \in Range(written["calendar"]) \cup Range(written["dates"]),
                    IsPlain(Journeys[i].profile, Journeys[i].period),
                    row.service = written["trips"][i].service,
                    dates.service = written["trips"][i].service,
                    "days" \in DOMAIN row, "rows" \in DOMAIN dates
             PROVE  RunsAsAsked(Journeys[i].profile, Journeys[i].period, DaysRun(row, dates.rows))
  BY DEF RunsOnItsDays
<1>1. Typed /\ Ended
  BY DEF IInv
<1>2. PICK done, sel : UpTo(done, sel)
  BY DEF IInv
<1>3. Journeys = sel
  BY <1>1, <1>2, AtTheEnd
<1>4. /\ IsAList(sel) /\ Range(sel) \subseteq AllVehicles /\ Range(sel) \subseteq Completing
      /\ DOMAIN sel = 1 .. trips
  BY <1>1, <1>2, JourneysAre
<1>5. PICK asked : asked = sel[i]
  OBVIOUS
<1>6. i \in 1 .. trips /\ asked \in Completing /\ asked \in AllVehicles
  <2>1. i \in DOMAIN sel
    BY <1>3
  <2>2. sel[i] \in Range(sel)
    BY <2>1 DEF Range
  <2> QED BY <1>4, <1>5, <2>1, <2>2
<1>7. /\ IsAProfile(asked.profile) /\ asked.period \in [start : Int, end : Int]
  <2>1. asked.profile # None
    BY <1>6, CompletingOnes DEF Completes, IsJourney
  <2> QED BY <1>1, <1>6, <2>1, VehiclesGiven DEF Typed
<1>8. IsTrip(i, asked)
  BY <1>2, <1>5, <1>6 DEF UpTo, TripsKept
<1>9. PICK service \in DOMAIN calendars :
        /\ written["trips"][i].service = service
        /\ calendars[service] = GetCalendar(asked.profile, asked.period)
  BY <1>8 DEF IsTrip
<1>10. /\ \A r \in Range(written["calendar"]) :
            \E id \in DOMAIN calendars : r = CalendarRow(id, calendars[id])
       /\ \A r \in Range(written["dates"]) :
            \E id \in DOMAIN calendars : r = DatesRow(id, calendars[id])
  BY <1>2 DEF UpTo, TripsKept
<1>11. row = CalendarRow(service, calendars[service])
  <2>1. row \notin Range(written["dates"])
    <3> SUFFICES ASSUME row \in Range(written["dates"]) PROVE FALSE
      OBVIOUS
    <3>1. PICK id : row = DatesRow(id, calendars[id])
      BY <1>10
    <3>2. DOMAIN row = {"service", "rows"}
      BY <3>1 DEF DatesRow
    <3> QED BY <3>2
  <2>2. PICK id \in DOMAIN calendars : row = CalendarRow(id, calendars[id])
    BY <1>10, <2>1
  <2>3. row.service = id
    BY <2>2 DEF CalendarRow
  <2> QED BY <1>9, <2>2, <2>3
<1>12. dates = DatesRow(service, calendars[service])
  <2>1. dates \notin Range(written["calendar"])
    <3> SUFFICES ASSUME dates \in Range(written["calendar"]) PROVE FALSE
      OBVIOUS
    <3>1. PICK id : dates = CalendarRow(id, calendars[id])
      BY <1>10
    <3>2. DOMAIN dates = {"service", "days", "start", "end"}
      BY <3>1 DEF CalendarRow
    <3> QED BY <3>2
  <2>2. PICK id \in DOMAIN calendars : dates = DatesRow(id, calendars[id])
    BY <1>10, <2>1
  <2>3. dates.service = id
    BY <2>2 DEF DatesRow
  <2> QED BY <1>9, <2>2, <2>3
<1>13. PICK profile, period : profile = asked.profile /\ period = asked.period
  OBVIOUS
<1>14. PICK calendar : calendar = GetCalendar(profile, period)
  OBVIOUS
<1>15. calendars[service] = calendar
  BY <1>9, <1>13, <1>14
<1>16. row.days = calendar.days /\ row.start = calendar.start /\ row.end = calendar.end
  BY <1>11, <1>15 DEF CalendarRow
<1>17. dates.rows = DateRows(calendar)
  BY <1>12, <1>15 DEF DatesRow
<1>18. IsAProfile(profile) /\ period \in [start : Int, end : Int] /\ IsPlain(profile, period)
  BY <1>3, <1>5, <1>7, <1>13
<1>19. RunsAsAsked(profile, period, DaysRun(row, DateRows(calendar)))
  BY <1>14, <1>16, <1>18, CalendarsRunAsAsked
<1> QED BY <1>3, <1>5, <1>13, <1>17, <1>19

(***************************************************************************)
(* The type invariant: whatever is given, no queue of documents is         *)
(* longer than HighWaterMark (FileStream.pushDocument), a calendar is      *)
(* numbered once and a trip names one that has been.                       *)
(***************************************************************************)
THEOREM TypeCorrectness == Spec => []TypeOK
BY InductiveInvariant, IInvIsTyped, PTL

(***************************************************************************)
(* A feed is delivered whole: every agency, line and stop of every         *)
(* usable document once, every journey as a trip with its calls,           *)
(* calendar and shape, and all the walks between its stops                 *)
(* (Converter.process, TransXChangeJourneyStream).                         *)
(***************************************************************************)
THEOREM NothingIsLost == Spec => []DeliveredWhole
BY InductiveInvariant, IInvDeliversWhole, PTL

(***************************************************************************)
(* What is delivered runs as its documents ask, where their breaks are     *)
(* plain, though journeys share calendars                                  *)
(* (TransXChangeJourneyStream.getCalendar).                                *)
(***************************************************************************)
THEOREM TripsRunOnTheirDays == Spec => []RunsOnItsDays
BY InductiveInvariant, IInvRunsOnItsDays, PTL
-----------------------------------------------------------------------------
(***************************************************************************)
(* And what becomes of a feed once it is built: Converter.process ends     *)
(* with deliverFeed.  What follows is of any number of parts, any process  *)
(* ids and any number of deliveries.                                       *)
(***************************************************************************)

(***************************************************************************)
(* What the code knows at each of its lines, and never asks: what is at    *)
(* the output and beside it.  The calls after this one rely on it.         *)
(***************************************************************************)
KindOfOutput ==
  /\ state \in {"measuring", "zipping"} => isZip
  /\ state \in {"replacing", "moving", "copying", "restoring", "discarding"} => ~isZip
  /\ Running => feed > 0

AtTheOutput ==
  /\ state \in {"replacing", "measuring"} => output = before
  /\ state = "moving" => output = Nothing
  /\ state = "copying" => apart /\ output.feed = feed
  /\ state = "restoring" => output = Nothing \/ (apart /\ output.feed = feed)
  /\ state = "zipping" => output = Nothing \/ output.feed = feed
  /\ state = "discarding" => Whole(output) /\ output.feed = feed

BesideTheOutput ==
  /\ state = "restoring" => HasSetAside
  /\ state \in {"moving", "copying", "restoring"} /\ HasSetAside => asides[pid] = before

(* Within one filesystem a directory is at the output whole, or not at all. *)
WholeOrNothing ==
  ~isZip /\ ~apart =>
    /\ output = Nothing \/ Whole(output)
    /\ before = Nothing \/ Whole(before)

DeliverInv ==
  /\ DeliveryTypeOK
  /\ KindOfOutput
  /\ AtTheOutput
  /\ BesideTheOutput
  /\ WholeOrNothing

(***************************************************************************)
(* An empty place is a place, whatever feeds there have been.              *)
(***************************************************************************)
LEMMA NothingIsAPlace ==
  ASSUME NEW n \in Nat
  PROVE  Nothing \in [feed : 0 .. n, parts : 0 .. Parts]
BY PartsAssumption DEF Nothing

(***************************************************************************)
(* The types hold before anything has been delivered.                      *)
(***************************************************************************)
LEMMA DeliveryTypesInit == DeliverInit => DeliveryTypeOK
<1>1. Nothing \in [feed : 0 .. 0, parts : 0 .. Parts]
  BY NothingIsAPlace
<1> SUFFICES ASSUME DeliverInit PROVE DeliveryTypeOK
  OBVIOUS
<1>2. feed = 0 /\ feed \in 0 .. MaxBuilds /\ delivered \in 0 .. feed
  BY MaxBuildsAssumption DEF DeliverInit
<1>3. output = Nothing /\ before = Nothing /\ asides = [p \in Pids |-> Nothing]
  BY DEF DeliverInit
<1>4. asides \in [Pids -> [feed : 0 .. feed, parts : 0 .. Parts]]
  BY <1>1, <1>2, <1>3
<1> QED
  BY <1>1, <1>2, <1>3, <1>4 DEF DeliverInit, DeliveryTypeOK

(***************************************************************************)
(* Every call of deliverFeed and writeZip keeps the types.                 *)
(***************************************************************************)
LEMMA DeliveryTypesStep == DeliveryTypeOK /\ [DeliverNext]_deliverVars => DeliveryTypeOK'
<1> SUFFICES ASSUME DeliveryTypeOK, [DeliverNext]_deliverVars PROVE DeliveryTypeOK'
  OBVIOUS
<1> USE PartsAssumption, MaxBuildsAssumption DEF DeliveryTypeOK
<1>0. /\ Nothing \in [feed : 0 .. feed, parts : 0 .. Parts]
      /\ feed \in Nat
  BY NothingIsAPlace
<1>1. CASE DeliverFeed
  BY <1>1, <1>0 DEF DeliverFeed, options
<1>2. CASE SetAside
  BY <1>2, <1>0 DEF SetAside, options, delivery
<1>3. CASE SetAsideFails
  BY <1>3 DEF SetAsideFails, Rejects, options, delivery
<1>4. CASE NothingToReplace
  BY <1>4 DEF NothingToReplace, options, delivery
<1>5. CASE Rename
  <2>1. output' \in [feed : 0 .. feed, parts : 0 .. Parts]
    BY <1>5, <1>0 DEF Rename
  <2> QED
    BY <1>5, <1>0, <2>1 DEF Rename, Moved, Returns, options, delivery
<1>6. CASE Copy
  <2>1. output' \in [feed : 0 .. feed, parts : 0 .. Parts]
    BY <1>6, <1>0 DEF Copy
  <2> QED
    BY <1>6, <1>0, <2>1 DEF Copy, options, delivery
<1>7. CASE RemoveTheCopied
  BY <1>7, <1>0 DEF RemoveTheCopied, Moved, Returns, options, delivery
<1>8. CASE MoveFails
  BY <1>8 DEF MoveFails, options, delivery
<1>9. CASE Restore
  BY <1>9, <1>0 DEF Restore, Rejects, options, delivery
<1>10. CASE CannotRestore
  BY <1>10 DEF CannotRestore, Rejects, options, delivery
<1>11. CASE Discard
  BY <1>11, <1>0 DEF Discard, Returns, options, delivery
<1>12. ASSUME PartOfTheAside
       PROVE  asides' \in [Pids -> [feed : 0 .. feed, parts : 0 .. Parts]]
  <2>1. PICK parts \in 0 .. asides[pid].parts :
          asides' = [asides EXCEPT ![pid] =
                       IF parts = 0 THEN Nothing
                       ELSE [feed |-> @.feed, parts |-> parts]]
    BY <1>12 DEF PartOfTheAside
  <2>2. [feed |-> asides[pid].feed, parts |-> parts]
           \in [feed : 0 .. feed, parts : 0 .. Parts]
    OBVIOUS
  <2> QED
    BY <2>1, <2>2, <1>0
<1>13. CASE DiscardFails
  BY <1>13, <1>12 DEF DiscardFails, Rejects, options, delivery
<1>14. CASE TooLarge
  BY <1>14 DEF TooLarge, Rejects, options, delivery
<1>15. CASE Unlink
  BY <1>15, <1>0 DEF Unlink, options, delivery
<1>16. CASE WriteEntry
  BY <1>16, <1>0 DEF WriteEntry, options, delivery
<1>17. CASE RemoveTheZipped
  BY <1>17, <1>0 DEF RemoveTheZipped, Returns, options, delivery
<1>18. CASE RemoveTheZippedFails
  BY <1>18 DEF RemoveTheZippedFails, Rejects, options, delivery
<1>19. CASE ZipFails
  BY <1>19, <1>0 DEF ZipFails, Rejects, options, delivery
<1>20. CASE CannotRemove
  BY <1>20 DEF CannotRemove, Rejects, options, delivery
<1>21. CASE Dies
  BY <1>21, <1>12 DEF Dies, options, delivery
<1>22. CASE UNCHANGED deliverVars
  BY <1>22 DEF deliverVars, options, delivery
<1> QED
  BY <1>1, <1>2, <1>3, <1>4, <1>5, <1>6, <1>7, <1>8, <1>9, <1>10, <1>11, <1>13,
     <1>14, <1>15, <1>16, <1>17, <1>18, <1>19, <1>20, <1>21, <1>22 DEF DeliverNext

(***************************************************************************)
(* Type correctness, which the other properties rest on.                   *)
(***************************************************************************)
THEOREM DeliveryTypes == DeliverSpec => []DeliveryTypeOK
BY DeliveryTypesInit, DeliveryTypesStep, PTL DEF DeliverSpec

(***************************************************************************)
(* What is at the output and beside it, at each line of the code.          *)
(***************************************************************************)
LEMMA DeliverInvInit == DeliverInit => DeliverInv
<1> SUFFICES ASSUME DeliverInit PROVE DeliverInv
  OBVIOUS
<1>1. DeliveryTypeOK
  BY DeliveryTypesInit
<1> QED
  BY <1>1 DEF DeliverInit, DeliverInv, KindOfOutput, Running, AtTheOutput, BesideTheOutput,
              WholeOrNothing

(***************************************************************************)
(* Every call finds the output as the calls before it left it, and leaves  *)
(* it as the calls after it expect.                                        *)
(***************************************************************************)
LEMMA DeliverInvStep == DeliverInv /\ [DeliverNext]_deliverVars => DeliverInv'
<1> SUFFICES ASSUME DeliverInv, [DeliverNext]_deliverVars PROVE DeliverInv'
  OBVIOUS
<1>0. DeliveryTypeOK /\ DeliveryTypeOK'
  BY DeliveryTypesStep DEF DeliverInv
<1> USE PartsAssumption DEF DeliverInv, KindOfOutput, Running, AtTheOutput,
        BesideTheOutput, WholeOrNothing, Whole, HasSetAside
<1>1. CASE DeliverFeed
  BY <1>0, <1>1 DEF DeliveryTypeOK, DeliverFeed, options
<1>2. CASE SetAside
  BY <1>0, <1>2 DEF DeliveryTypeOK, SetAside, options, delivery
<1>3. CASE SetAsideFails
  BY <1>0, <1>3 DEF DeliveryTypeOK, SetAsideFails, Rejects, options, delivery
<1>4. CASE NothingToReplace
  BY <1>0, <1>4 DEF DeliveryTypeOK, NothingToReplace, options, delivery
<1>5. CASE Rename
  BY <1>0, <1>5 DEF DeliveryTypeOK, Rename, Moved, Returns, options, delivery
<1>6. CASE Copy
  BY <1>0, <1>6 DEF DeliveryTypeOK, Copy, options, delivery
<1>7. CASE RemoveTheCopied
  BY <1>0, <1>7 DEF DeliveryTypeOK, RemoveTheCopied, Moved, Returns, options, delivery
<1>8. CASE MoveFails
  BY <1>0, <1>8 DEF DeliveryTypeOK, MoveFails, options, delivery
<1>9. CASE Restore
  BY <1>0, <1>9 DEF DeliveryTypeOK, Restore, Rejects, options, delivery
<1>10. CASE CannotRestore
  BY <1>0, <1>10 DEF DeliveryTypeOK, CannotRestore, Rejects, options, delivery
<1>11. CASE Discard
  BY <1>0, <1>11 DEF DeliveryTypeOK, Discard, Returns, options, delivery
<1>12. CASE DiscardFails
  BY <1>0, <1>12 DEF DeliveryTypeOK, DiscardFails, Rejects, options, delivery
<1>13. CASE TooLarge
  BY <1>0, <1>13 DEF DeliveryTypeOK, TooLarge, Rejects, options, delivery
<1>14. CASE Unlink
  BY <1>0, <1>14 DEF DeliveryTypeOK, Unlink, options, delivery
<1>15. CASE WriteEntry
  BY <1>0, <1>15 DEF DeliveryTypeOK, WriteEntry, options, delivery
<1>16. CASE RemoveTheZipped
  BY <1>0, <1>16 DEF DeliveryTypeOK, RemoveTheZipped, Returns, options, delivery
<1>17. CASE RemoveTheZippedFails
  BY <1>0, <1>17 DEF DeliveryTypeOK, RemoveTheZippedFails, Rejects, options, delivery
<1>18. CASE ZipFails
  BY <1>0, <1>18 DEF DeliveryTypeOK, ZipFails, Rejects, options, delivery
<1>19. CASE CannotRemove
  BY <1>0, <1>19 DEF DeliveryTypeOK, CannotRemove, Rejects, options, delivery
<1>20. CASE Dies
  BY <1>0, <1>20 DEF DeliveryTypeOK, Dies, options, delivery
<1>21. CASE UNCHANGED deliverVars
  BY <1>0, <1>21 DEF deliverVars, options, delivery
<1> QED
  BY <1>1, <1>2, <1>3, <1>4, <1>5, <1>6, <1>7, <1>8, <1>9, <1>10, <1>11, <1>12,
     <1>13, <1>14, <1>15, <1>16, <1>17, <1>18, <1>19, <1>20, <1>21 DEF DeliverNext

(***************************************************************************)
(* So it is at every moment of every delivery.                             *)
(***************************************************************************)
LEMMA DeliverInvariant == DeliverSpec => []DeliverInv
BY DeliverInvInit, DeliverInvStep, PTL DEF DeliverSpec

(***************************************************************************)
(* deliverFeed keeps the old output beside the new one, so that "a failure *)
(* below leaves something to go back to".  The steps that could lose the   *)
(* last whole feed are the ones that overwrite the output or discard what  *)
(* is beside it: the first find the output empty or holding part of the    *)
(* feed they write, the second find the new feed whole at the output.      *)
(***************************************************************************)
THEOREM SomethingIsLeft == DeliverSpec => []SomethingToGoBackTo
<1> DEFINE Good(place, n) == Whole(place) /\ place.feed >= n
<1>1. DeliverInit => SomethingToGoBackTo
  BY DEF DeliverInit, SomethingToGoBackTo
<1>2. DeliverInv /\ SomethingToGoBackTo /\ [DeliverNext]_deliverVars => SomethingToGoBackTo'
  <2> SUFFICES ASSUME DeliverInv, SomethingToGoBackTo, [DeliverNext]_deliverVars, ~isZip', delivered' > 0
               PROVE  Good(output', delivered') \/ \E p \in Pids : Good(asides'[p], delivered')
    BY DEF SomethingToGoBackTo, Whole, Places
  <2>0. DeliveryTypeOK /\ DeliveryTypeOK'
    BY DeliveryTypesStep DEF DeliverInv
  <2>1. isZip' = isZip
    BY DEF DeliverNext, deliverVars, options, DeliverFeed, SetAside, SetAsideFails,
           NothingToReplace, Rename, Copy, RemoveTheCopied, MoveFails, Restore,
           CannotRestore, Discard, DiscardFails, TooLarge, Unlink, WriteEntry,
           RemoveTheZipped, RemoveTheZippedFails, ZipFails, CannotRemove, Dies
  <2>2. CASE Rename \/ RemoveTheCopied \/ Discard \/ DiscardFails
               \/ (Dies /\ state = "discarding")
    BY <2>0, <2>2, PartsAssumption
       DEF DeliverInv, DeliveryTypeOK, KindOfOutput, Running, AtTheOutput, Rename, Dies,
           RemoveTheCopied, Discard, DiscardFails, Moved, Returns, Rejects,
           Whole, options, delivery
  <2>3. CASE TooLarge \/ Unlink \/ WriteEntry \/ RemoveTheZipped
               \/ RemoveTheZippedFails \/ ZipFails \/ CannotRemove
    BY <2>1, <2>3
       DEF DeliverInv, KindOfOutput, TooLarge, Unlink, WriteEntry, RemoveTheZipped,
           RemoveTheZippedFails, ZipFails, CannotRemove
  <2> DEFINE Left == Good(output, delivered) \/ \E p \in Pids : Good(asides[p], delivered)
  <2>4. delivered' = delivered => Left
    BY <2>1 DEF SomethingToGoBackTo, Places
  <2>5. CASE SetAside
    <3>1. Left
      BY <2>4, <2>5 DEF SetAside
    <3>2. ASSUME Good(output, delivered) PROVE Good(asides'[pid], delivered')
      BY <2>0, <2>5, <3>2 DEF DeliveryTypeOK, SetAside, Whole
    <3>3. ASSUME NEW p \in Pids, Good(asides[p], delivered)
          PROVE  Good(asides'[p], delivered')
      BY <2>0, <2>5, <3>3 DEF DeliveryTypeOK, SetAside, Whole, Nothing
    <3> QED
      BY <2>0, <3>1, <3>2, <3>3 DEF DeliveryTypeOK
  <2>6. CASE Copy
    <3>1. Left
      BY <2>4, <2>6 DEF Copy
    <3>2. ~Whole(output)
      BY <2>0, <2>6, PartsAssumption DEF DeliveryTypeOK, Copy, Whole
    <3> QED
      BY <2>6, <3>1, <3>2 DEF Copy
  <2>7. CASE Restore
    <3>1. Left
      BY <2>4, <2>7 DEF Restore, Rejects
    <3>2. ~Whole(output)
      BY <2>7 DEF Restore, Whole, Nothing
    <3>3. PICK p \in Pids : Good(asides[p], delivered)
      BY <3>1, <3>2
    <3>4. CASE p = pid
      BY <2>7, <3>3, <3>4 DEF Restore, Rejects
    <3>5. CASE p # pid
      <4>1. asides'[p] = asides[p]
        BY <2>0, <2>7, <3>5 DEF DeliveryTypeOK, Restore
      <4> QED
        BY <2>7, <3>3, <4>1 DEF Restore, Rejects
    <3> QED
      BY <3>4, <3>5
  <2>8. CASE UNCHANGED <<output, asides, delivered>>
    BY <2>4, <2>8
  <2> QED
    BY <2>2, <2>3, <2>5, <2>6, <2>7, <2>8
       DEF DeliverNext, deliverVars, delivery, DeliverFeed, SetAsideFails, NothingToReplace,
           MoveFails, CannotRestore, Dies, Rejects
<1> QED
  BY <1>1, <1>2, DeliverInvariant, PTL DEF DeliverSpec

(***************************************************************************)
(* A rejected delivery leaves the output as it was, or the whole new feed; *)
(* less than that only for a zip, across filesystems, or where what was to *)
(* undo the failure failed as well.  A directory that was found is then    *)
(* beside the output: nothing has touched it since it was set aside.       *)
(***************************************************************************)
THEOREM RejectionsLeaveTheOutput == DeliverSpec => []RejectedLeavesTheOutput
<1>1. DeliverInit => RejectedLeavesTheOutput
  BY DEF DeliverInit, RejectedLeavesTheOutput
<1>2. DeliverInv /\ RejectedLeavesTheOutput /\ [DeliverNext]_deliverVars => RejectedLeavesTheOutput'
  <2> SUFFICES ASSUME DeliverInv, RejectedLeavesTheOutput, [DeliverNext]_deliverVars, state' = "rejected"
               PROVE  RejectedLeavesTheOutput'
    BY DEF RejectedLeavesTheOutput
  <2> USE DEF DeliverInv, KindOfOutput, Running, AtTheOutput, BesideTheOutput, Whole,
              options, delivery
  <2>0. DeliveryTypeOK
    OBVIOUS
  <2>1. CASE SetAsideFails \/ TooLarge
    BY <2>1 DEF SetAsideFails, TooLarge, RejectedLeavesTheOutput
  <2>2. CASE MoveFails
    BY <2>2 DEF MoveFails, HasSetAside, RejectedLeavesTheOutput
  <2>3. CASE Restore
    BY <2>3 DEF Restore, HasSetAside, RejectedLeavesTheOutput
  <2>4. CASE CannotRestore
    BY <2>4 DEF CannotRestore, HasSetAside, RejectedLeavesTheOutput
  <2>5. CASE DiscardFails
    BY <2>5 DEF DiscardFails, RejectedLeavesTheOutput
  <2>6. CASE RemoveTheZippedFails
    BY <2>6, PartsAssumption DEF RemoveTheZippedFails, Nothing, RejectedLeavesTheOutput
  <2>7. CASE ZipFails
    BY <2>7 DEF ZipFails, RejectedLeavesTheOutput
  <2>8. CASE CannotRemove
    BY <2>8 DEF CannotRemove, RejectedLeavesTheOutput
  <2>9. CASE UNCHANGED deliverVars
    BY <2>9 DEF deliverVars, RejectedLeavesTheOutput
  <2> QED
    BY <2>1, <2>2, <2>3, <2>4, <2>5, <2>6, <2>7, <2>8, <2>9
       DEF DeliverNext, DeliverFeed, SetAside, NothingToReplace, Rename, Moved, Returns, Copy,
           RemoveTheCopied, Discard, Unlink, WriteEntry, RemoveTheZipped, Dies
<1> QED
  BY <1>1, <1>2, DeliverInvariant, PTL DEF DeliverSpec

(***************************************************************************)
(* Part of a feed is at the output only while it is being written, or for  *)
(* one of the reasons the code leaves it there.  Within one filesystem no  *)
(* directory is (WholeOrNothing), so what is left to show is of zips.      *)
(***************************************************************************)
THEOREM PartsAreTorn == DeliverSpec => []PartsOnlyWhereTorn
<1>1. DeliverInit => PartsOnlyWhereTorn
  BY DEF DeliverInit, PartsOnlyWhereTorn
<1>2. DeliverInv /\ PartsOnlyWhereTorn /\ [DeliverNext]_deliverVars => PartsOnlyWhereTorn'
  <2> SUFFICES ASSUME DeliverInv, DeliverInv', PartsOnlyWhereTorn, [DeliverNext]_deliverVars, isZip'
               PROVE  PartsOnlyWhereTorn'
    <3>1. DeliverInv /\ [DeliverNext]_deliverVars => DeliverInv'
      BY DeliverInvStep
    <3> QED
      BY <3>1 DEF DeliverInv, DeliveryTypeOK, WholeOrNothing, PartsOnlyWhereTorn
  <2> USE DEF DeliverInv, DeliveryTypeOK, KindOfOutput, Running, AtTheOutput, Whole, options, delivery,
              PartsOnlyWhereTorn
  <2>1. CASE DeliverFeed
    BY <2>1 DEF DeliverFeed
  <2>2. CASE TooLarge \/ Unlink \/ ZipFails \/ CannotRemove
    BY <2>2 DEF TooLarge, Unlink, ZipFails, CannotRemove, Rejects
  <2>3. CASE WriteEntry
    BY <2>3 DEF WriteEntry
  <2>4. CASE RemoveTheZipped \/ RemoveTheZippedFails
    BY <2>4, PartsAssumption DEF RemoveTheZipped, RemoveTheZippedFails, Nothing
  <2>5. CASE Dies
    BY <2>5 DEF Dies
  <2>6. CASE UNCHANGED deliverVars
    BY <2>6 DEF deliverVars
  <2> QED
    BY <2>1, <2>2, <2>3, <2>4, <2>5, <2>6
       DEF DeliverNext, SetAside, SetAsideFails, NothingToReplace, Rename, Copy,
           RemoveTheCopied, MoveFails, Restore, CannotRestore, Discard, DiscardFails
<1> QED
  BY <1>1, <1>2, DeliverInvariant, PTL DEF DeliverSpec

(***************************************************************************)
(* No step replaces one feed at the output by an older one.                *)
(***************************************************************************)
THEOREM TheOutputNeverGoesBack == DeliverSpec => NeverGoesBack
<1>1. DeliverInv /\ [DeliverNext]_deliverVars =>
        (output.feed > 0 /\ output'.feed > 0 => output'.feed >= output.feed)
  <2> SUFFICES ASSUME DeliverInv, [DeliverNext]_deliverVars, output.feed > 0, output'.feed > 0
               PROVE  output'.feed >= output.feed
    OBVIOUS
  <2>0. output.feed \in 0 .. feed /\ feed \in Nat
    BY MaxBuildsAssumption DEF DeliverInv, DeliveryTypeOK
  <2>1. CASE SetAside \/ Unlink \/ ZipFails
    BY <2>1 DEF SetAside, Unlink, ZipFails, Nothing
  <2>2. CASE Rename \/ Copy \/ WriteEntry
    BY <2>0, <2>2 DEF Rename, Copy, WriteEntry
  <2>3. CASE Restore
    BY <2>3 DEF Restore, Nothing
  <2>4. CASE output' = output
    BY <2>0, <2>4
  <2> QED
    BY <2>1, <2>2, <2>3, <2>4
       DEF DeliverNext, deliverVars, delivery, DeliverFeed, SetAsideFails, NothingToReplace,
           RemoveTheCopied, MoveFails, CannotRestore, Discard, DiscardFails, TooLarge,
           RemoveTheZipped, RemoveTheZippedFails, CannotRemove, Dies
<1> QED
  BY <1>1, DeliverInvariant, PTL DEF DeliverSpec, NeverGoesBack
=============================================================================
