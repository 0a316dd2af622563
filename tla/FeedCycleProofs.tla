------------------------- MODULE FeedCycleProofs -------------------------
(***************************************************************************)
(* The database and its log keep together, for any number of feeds and of  *)
(* faults, whatever the database holds.                                    *)
(*                                                                         *)
(* What is promised between two runs rests on what holds inside one.  A    *)
(* run starts at the last refresh or after the last file logged, so that   *)
(* no refresh follows the file being processed (Bounds); everything it     *)
(* passed without logging was interrupted (UpToNext); and the database     *)
(* holds nothing newer than the log unless that was interrupted too        *)
(* (Unlogged), so that what comes next is in it once and not twice.  A     *)
(* refresh suspends all that while its records replace the database        *)
(* (MidRefresh): what it leaves if it is interrupted there is excused.     *)
(***************************************************************************)
EXTENDS FeedCycle, FiniteSetTheorems, WellFoundedInduction, TLAPS

RefreshedBetween(feed, n) == \E i \in feed + 1 .. n : kinds[i] = "F"

(* A refresh that was interrupted excuses what follows, up to the next one. *)
Excused(n) ==
  \E refresh \in hit : kinds[refresh] = "F" /\ ~RefreshedBetween(refresh, n)

MidRefresh == phase \in {"records", "logging"} /\ kinds[next] = "F"

Bounds ==
  /\ logged <= Len(kinds)
  /\ phase # "idle" =>
       /\ logged <= last
       /\ \A feed \in hit : feed <= last
       /\ \A i \in next + 1 .. last : kinds[i] = "C"
  /\ phase \in {"schema", "records", "logging"} => next <= last
  /\ phase = "schema" => kinds[next] = "F"

Rooted == logged > 0 => \E i \in 1 .. logged : kinds[i] = "F"

Standing ==
  ~MidRefresh =>
    \/ Excused(logged)
    \/ \A feed \in 1 .. logged :
         RefreshedBetween(feed, logged) \/ feed \in hit \/ Times(feed) = 1

Unlogged ==
  ~MidRefresh =>
    \/ Excused(logged)
    \/ \A i \in 1 .. Len(db) :
         \/ db[i] <= logged
         \/ db[i] \in hit
         \/ phase = "logging" /\ db[i] = next

Cleared ==
  MidRefresh =>
    /\ db = <<>> \/ db = <<next>>
    /\ phase = "records" => db = <<>>
    /\ phase = "logging" => db = <<next>> \/ next \in hit

UpToNext ==
  phase # "idle" /\ next <= last =>
    /\ kinds[next] = "F" => ~RefreshedBetween(next, logged)
    /\ kinds[next] = "C" =>
         \/ Excused(next)
         \/ /\ 0 < logged /\ logged < next
            /\ \A feed \in logged + 1 .. next - 1 : feed \in hit /\ kinds[feed] = "C"

Taken ==
  phase = "logging" /\ kinds[next] = "C" =>
    next \in hit \/ Times(next) = 1 \/ Excused(next)

Kept == Rooted /\ Standing /\ Unlogged /\ Cleared /\ UpToNext /\ Taken

Inv == TypeOK /\ Bounds /\ Kept
-----------------------------------------------------------------------------
LEMMA MaxIsGreatest ==
  ASSUME NEW n \in Nat, NEW S \in SUBSET (0 .. n), S # {}
  PROVE  Max(S) \in S /\ \A x \in S : x <= Max(S)
<1> DEFINE T == {n - x : x \in S}
<1>1. T \in SUBSET Nat /\ T # {}
  <2>1. \A x \in S : n - x \in Nat
    OBVIOUS
  <2> QED BY <2>1
<1>2. PICK t \in T : \A u \in T : ~(<<u, t>> \in OpToRel(<, Nat))
  BY <1>1, NatLessThanWellFounded, WFMin
<1>3. \A u \in T : ~(u < t)
  BY <1>1, <1>2 DEF OpToRel
<1>4. PICK x \in S : t = n - x
  OBVIOUS
<1>5. \A y \in S : ~(n - y < n - x)
  BY <1>3, <1>4
<1>6. \A y \in S : x >= y
  <2> HIDE DEF T
  <2> QED BY <1>5
<1>7. Max(S) \in S /\ \A y \in S : Max(S) >= y
  BY <1>6 DEF Max
<1> QED BY <1>7

LEMMA GreatestRefresh ==
  ASSUME NEW from \in Nat, NEW n \in Nat
  PROVE  LET r == Max({i \in from .. n : kinds[i] = "F"} \cup {0})
         IN  /\ r = 0 \/ (r \in from .. n /\ kinds[r] = "F")
             /\ r \in 0 .. n
             /\ \A i \in from .. n : kinds[i] = "F" => i <= r
<1> DEFINE S == {i \in from .. n : kinds[i] = "F"} \cup {0}
<1>1. S \in SUBSET (0 .. n) /\ S # {}
  OBVIOUS
<1>2. Max(S) \in S /\ \A x \in S : x <= Max(S)
  <2> HIDE DEF S
  <2> QED BY <1>1, MaxIsGreatest
<1>3. PICK r : r = Max(S)
  OBVIOUS
<1>4. r \in S /\ \A x \in S : x <= r
  BY <1>2, <1>3
<1>5. /\ r = 0 \/ (r \in from .. n /\ kinds[r] = "F")
      /\ r \in 0 .. n
      /\ \A i \in from .. n : kinds[i] = "F" => i <= r
  BY <1>4
<1> QED BY <1>3, <1>5

LEMMA AppendedOnce ==
  ASSUME db \in Seq(Nat), NEW n \in Nat, db' = Append(db, n),
         \A i \in 1 .. Len(db) : db[i] # n
  PROVE  Times(n)' = 1
<1>1. {i \in 1 .. Len(db') : db'[i] = n} = {Len(db) + 1}
  OBVIOUS
<1> QED BY <1>1, FS_Singleton DEF Times

LEMMA OthersAsBefore ==
  ASSUME db \in Seq(Nat), NEW n \in Nat, db' = db \/ db' = Append(db, n),
         NEW feed, feed # n
  PROVE  Times(feed)' = Times(feed)
<1>1. {i \in 1 .. Len(db') : db'[i] = feed} = {i \in 1 .. Len(db) : db[i] = feed}
  OBVIOUS
<1> QED BY <1>1 DEF Times
-----------------------------------------------------------------------------
(***************************************************************************)
(* Types.  That only published feeds are marked as interrupted rests on    *)
(* the file being processed being one of them, which Bounds says.          *)
(***************************************************************************)
LEMMA Kinds ==
  ASSUME TypeOK
  PROVE  \A i \in 1 .. Len(kinds) : kinds[i] \in {"F", "C"}
BY DEF TypeOK

LEMMA InProgress ==
  ASSUME TypeOK, Bounds, phase \in {"schema", "records", "logging"}
  PROVE  next \in Feeds /\ next <= last
BY DEF TypeOK, Bounds, Feeds

LEMMA LastListedRefresh ==
  ASSUME TypeOK
  PROVE  /\ LastRefresh = 0 \/ (LastRefresh \in Listed /\ kinds[LastRefresh] = "F")
         /\ LastRefresh \in 0 .. Len(kinds)
         /\ \A i \in Listed : kinds[i] = "F" => i <= LastRefresh
<1>1. oldest \in Nat /\ Len(kinds) \in Nat
  BY DEF TypeOK
<1> QED BY <1>1, GreatestRefresh DEF LastRefresh, Listed

LEMMA FaultsAreCounted ==
  ASSUME TypeOK, Fault \/ UNCHANGED faults
  PROVE  faults' \in 0 .. MaxFaults
BY MaxFaultsAssumption DEF TypeOK, Fault

LEMMA FirstIsAFile ==
  ASSUME TypeOK, NEW cursor \in Nat
  PROVE  FirstToProcess(cursor) \in Nat \ {0}
<1>1. PICK r : r = LastRefresh
  OBVIOUS
<1>2. r \in 0 .. Len(kinds)
  BY <1>1, LastListedRefresh
<1>3. LastFile(cursor) \in Nat
  BY DEF LastFile
<1>4. Len(kinds) \in Nat
  BY DEF TypeOK
<1> QED BY <1>1, <1>2, <1>3, <1>4 DEF FirstToProcess

LEMMA NoFeeds == <<>> \in Seq(Nat \ {0})
  OBVIOUS

LEMMA TypesAreKept == ASSUME TypeOK, Bounds, [Next]_vars PROVE TypeOK'
<1>1. CASE Publish
  <2>1. PICK kind \in {"F", "C"} : kinds' = Append(kinds, kind)
    BY <1>1 DEF Publish
  <2>2. kinds' \in Seq({"F", "C"}) /\ Len(kinds') = Len(kinds) + 1
    BY <2>1 DEF TypeOK
  <2> QED BY <1>1, <2>2 DEF Publish, TypeOK, local, schema, Feeds
<1>2. CASE Expire
  BY <1>2 DEF Expire, TypeOK, local, schema, Feeds
<1>3. ASSUME NEW cursor \in Nat, StartWith(cursor), Fault \/ UNCHANGED faults
      PROVE  TypeOK'
  <2>1. faults' \in 0 .. MaxFaults /\ FirstToProcess(cursor) \in Nat \ {0}
    BY <1>3, FaultsAreCounted, FirstIsAFile
  <2>2. Len(kinds) \in 0 .. Len(kinds)
    BY DEF TypeOK
  <2> QED BY <1>3, <2>1, <2>2 DEF StartWith, TypeOK, server, schema, Feeds
<1>4. CASE Start \/ StartWithoutCursor
  BY <1>3, <1>4 DEF Start, StartWithoutCursor, TypeOK
<1>5. CASE Fetch \/ FetchFails
  <2>1. fetched' \subseteq next .. last
    BY <1>5 DEF Fetch, FetchFails
  <2>2. next .. last \subseteq Nat
    BY DEF TypeOK
  <2>3. faults' \in 0 .. MaxFaults
    BY <1>5, FaultsAreCounted DEF Fetch, FetchFails
  <2> QED
    BY <1>5, <2>1, <2>2, <2>3
    DEF Fetch, FetchFails, TypeOK, server, schema, Feeds
<1>6. CASE Extract \/ End
  BY <1>6 DEF Extract, End, TypeOK, server, schema, local, Feeds
<1>7. ASSUME GiveUp, next \in Feeds, Fault \/ UNCHANGED faults,
             UNCHANGED <<server, logged, last, fetched, logTable>>,
             tables' \in {"missing", "patchy", "all"}, db' \in Seq(Nat \ {0})
      PROVE  TypeOK'
  BY <1>7, FaultsAreCounted DEF GiveUp, TypeOK, server, Feeds
<1>8. CASE ExtractFails \/ ExtractBreaks
  <2>1. next \in Feeds
    BY <1>8 DEF ExtractFails, ExtractBreaks, Feeds, TypeOK
  <2> QED BY <1>7, <1>8, <2>1 DEF ExtractFails, ExtractBreaks, TypeOK, schema
<1>9. CASE SetupSchemaFails
  <2>1. next \in Feeds
    BY <1>9, InProgress DEF SetupSchemaFails
  <2>2. db' \in Seq(Nat \ {0}) /\ tables' \in {"missing", "patchy", "all"}
    BY <1>9, NoFeeds DEF SetupSchemaFails, PartOfTheSchema, TypeOK
  <2> QED BY <1>7, <1>9, <2>1, <2>2 DEF SetupSchemaFails
<1>10. CASE CannotUpdateLastFile \/ UpdateLastFileFails
  BY <1>7, <1>10, InProgress
  DEF CannotUpdateLastFile, UpdateLastFileFails, TypeOK, schema
<1>11. CASE SetupSchema
  BY <1>11 DEF SetupSchema, TypeOK, server, local, Feeds
<1>12. Imported \in Seq(Nat \ {0})
  BY DEF Imported, TypeOK
<1>13. CASE ProcessFiles \/ ProcessFilesFails
  <2>1. next \in Feeds /\ faults' \in 0 .. MaxFaults
    BY <1>13, InProgress, FaultsAreCounted DEF ProcessFiles, ProcessFilesFails, local
  <2>2. hit' \subseteq Feeds
    BY <1>13, <2>1 DEF ProcessFiles, ProcessFilesFails, TypeOK
  <2> QED
    BY <1>12, <1>13, <2>1, <2>2
    DEF ProcessFiles, ProcessFilesFails, TypeOK, server, schema, local, Feeds
<1>14. CASE UpdateLastFile
  BY <1>14 DEF UpdateLastFile, TypeOK, server, schema, Feeds
<1>15. CASE Crash
  <2>1. db' \in Seq(Nat \ {0}) /\ tables' \in {"missing", "patchy", "all"}
    <3>1. CASE phase = "schema"
      BY <1>15, <3>1, NoFeeds DEF Crash, PartOfTheSchema, TypeOK
    <3>2. CASE phase = "records"
      BY <1>12, <1>15, <3>2 DEF Crash, TypeOK
    <3> QED BY <1>15, <3>1, <3>2 DEF Crash, TypeOK
  <2>2. hit' \subseteq Feeds
    BY <1>15, InProgress DEF Crash, TypeOK
  <2> QED
    BY <1>15, <2>1, <2>2, FaultsAreCounted DEF Crash, TypeOK, server, local, Feeds
<1>16. CASE UNCHANGED vars
  BY <1>16 DEF vars, TypeOK, server, local, schema, Feeds
<1> QED
  BY <1>1, <1>2, <1>4, <1>5, <1>6, <1>8, <1>9, <1>10, <1>11, <1>13, <1>14,
     <1>15, <1>16
  DEF Next, Step, Breakdown
-----------------------------------------------------------------------------
(***************************************************************************)
(* Where a run starts: at a refresh, or after the last file logged, with   *)
(* no refresh to come after it.                                            *)
(***************************************************************************)
LEMMA WhereARunStarts ==
  ASSUME TypeOK, Bounds, NEW cursor \in {0, logged},
         NEW first, first = FirstToProcess(cursor)
  PROVE  /\ \A i \in first + 1 .. Len(kinds) : kinds[i] = "C"
         /\ first <= Len(kinds) =>
              \/ /\ kinds[first] = "F"
                 /\ \A i \in first + 1 .. logged : kinds[i] # "F"
              \/ kinds[first] = "C" /\ 0 < logged /\ first = logged + 1
<1>1. PICK r : r = LastRefresh
  OBVIOUS
<1>2. /\ r = 0 \/ (r \in Listed /\ kinds[r] = "F")
      /\ r \in 0 .. Len(kinds)
      /\ \A i \in Listed : kinds[i] = "F" => i <= r
  BY <1>1, LastListedRefresh
<1>3. /\ Len(kinds) \in Nat /\ oldest \in Nat \ {0}
      /\ logged \in Nat /\ logged <= Len(kinds)
      /\ \A i \in 1 .. Len(kinds) : kinds[i] \in {"F", "C"}
  BY Kinds DEF TypeOK, Bounds
<1>4. CASE LastFile(cursor) > 0 /\ LastFile(cursor) >= r
  <2>1. cursor = logged /\ logged \in Listed /\ 0 < logged /\ logged >= r
    BY <1>2, <1>3, <1>4 DEF LastFile, Listed
  <2>2. first = logged + 1
    BY <1>1, <1>4, <2>1 DEF FirstToProcess, LastFile
  <2>3. \A i \in first .. Len(kinds) : kinds[i] = "C"
    BY <1>2, <1>3, <2>1, <2>2 DEF Listed
  <2> QED BY <1>3, <2>1, <2>2, <2>3
<1>5. CASE ~(LastFile(cursor) > 0 /\ LastFile(cursor) >= r) /\ r > 0
  <2>1. first = r
    BY <1>1, <1>5 DEF FirstToProcess
  <2>2. \A i \in first + 1 .. Len(kinds) : kinds[i] = "C"
    BY <1>2, <1>3, <1>5, <2>1 DEF Listed
  <2> QED BY <1>2, <1>3, <1>5, <2>1, <2>2
<1>6. CASE ~(LastFile(cursor) > 0 /\ LastFile(cursor) >= r) /\ ~(r > 0)
  <2>1. first = Len(kinds) + 1
    BY <1>1, <1>6 DEF FirstToProcess
  <2> QED BY <1>3, <2>1
<1> QED BY <1>4, <1>5, <1>6
-----------------------------------------------------------------------------
(***************************************************************************)
(* What the steps do to the invariant: the ones that import nothing first. *)
(***************************************************************************)
LEMMA InitHolds == Init => Inv
<1> SUFFICES ASSUME Init PROVE Inv
  OBVIOUS
<1>1. TypeOK
  <2>1. <<>> \in Seq({"F", "C"}) /\ Len(<<>>) = 0
    OBVIOUS
  <2>2. kinds \in Seq({"F", "C"}) /\ last \in 0 .. Len(kinds) /\ db \in Seq(Nat \ {0})
    BY <2>1, NoFeeds DEF Init
  <2>3. faults \in 0 .. MaxFaults
    BY MaxFaultsAssumption DEF Init
  <2>4. hit = {} /\ 0 \in Nat /\ 1 \in Nat \ {0}
    BY DEF Init
  <2> QED BY <2>2, <2>3, <2>4 DEF Init, TypeOK
<1> QED
  BY <1>1 DEF Init, Inv, Bounds, Kept, Rooted, Standing, Unlogged, Cleared,
              UpToNext, Taken, MidRefresh

(* Publishing a feed leaves the ones before it as they are. *)
SameFeeds ==
  /\ Len(kinds) <= Len(kinds')
  /\ \A i \in 1 .. Len(kinds) : kinds'[i] = kinds[i]

LEMMA ExcusesLast ==
  ASSUME TypeOK, SameFeeds, hit \subseteq hit', NEW n \in 0 .. Len(kinds)
  PROVE  Excused(n) => Excused(n)'
BY DEF TypeOK, SameFeeds, Excused, RefreshedBetween, Feeds

LEMMA QuietSteps ==
  ASSUME Inv, SameFeeds, TypeOK', UNCHANGED <<logged, db, next, last, hit>>,
         \/ phase' = phase
         \/ phase' \in {"idle", "importing"} /\ phase \in {"fetching", "importing"}
         \/ /\ phase = "importing" /\ next <= last
            /\ phase' = IF kinds[next] = "F" THEN "schema" ELSE "records"
  PROVE  Inv'
<1>1. /\ Len(kinds) \in Nat /\ Len(kinds') \in Nat
      /\ logged \in 0 .. Len(kinds) /\ last \in 0 .. Len(kinds) /\ next \in Nat \ {0}
      /\ \A i \in 1 .. Len(kinds) : kinds[i] \in {"F", "C"}
  BY Kinds DEF Inv, TypeOK, Bounds
<1>2. Bounds'
  BY <1>1 DEF Inv, Bounds, SameFeeds
<1>3. MidRefresh' <=> MidRefresh
  BY <1>1 DEF Inv, Bounds, SameFeeds, MidRefresh
<1>4. /\ Excused(logged) => Excused(logged)'
      /\ next <= last /\ Excused(next) => Excused(next)'
  BY <1>1, ExcusesLast DEF Inv
<1>5. \A feed \in 1 .. Len(kinds) :
        (RefreshedBetween(feed, logged) <=> RefreshedBetween(feed, logged)')
  BY <1>1 DEF SameFeeds, RefreshedBetween
<1>6. \A feed : Times(feed)' = Times(feed)
  BY DEF Times
<1>7. Rooted'
  BY <1>1 DEF Inv, Kept, Rooted, SameFeeds
<1>8. Standing'
  BY <1>1, <1>3, <1>4, <1>5, <1>6 DEF Inv, Kept, Standing
<1>9. Unlogged'
  BY <1>3, <1>4 DEF Inv, Kept, Unlogged
<1>12. Cleared'
  <2>1. MidRefresh => phase' = phase
    BY DEF MidRefresh
  <2> QED BY <1>3, <2>1 DEF Inv, Kept, Cleared
<1>10. UpToNext'
  BY <1>1, <1>4, <1>5 DEF Inv, Kept, UpToNext, SameFeeds
<1>11. Taken'
  BY <1>1, <1>4, <1>6 DEF Inv, Kept, Taken, SameFeeds, Bounds
<1> QED
  BY <1>2, <1>7, <1>8, <1>9, <1>10, <1>11, <1>12 DEF Inv, Kept

LEMMA StartHolds ==
  ASSUME Inv, TypeOK', NEW cursor \in {0, logged}, StartWith(cursor)
  PROVE  Inv'
<1>1. PICK first : first = FirstToProcess(cursor)
  OBVIOUS
<1>2. /\ \A i \in first + 1 .. Len(kinds) : kinds[i] = "C"
      /\ first <= Len(kinds) =>
           \/ /\ kinds[first] = "F"
              /\ \A i \in first + 1 .. logged : kinds[i] # "F"
           \/ kinds[first] = "C" /\ 0 < logged /\ first = logged + 1
  BY <1>1, WhereARunStarts DEF Inv
<1>3. /\ phase = "idle" /\ phase' = "fetching" /\ next' = first /\ last' = Len(kinds)
      /\ UNCHANGED <<kinds, logged, db, hit>>
  BY <1>1 DEF StartWith, server
<1>4. first \in Nat /\ Len(kinds) \in Nat /\ logged \in 0 .. Len(kinds)
  BY <1>3 DEF Inv, TypeOK, Bounds
<1>5. Bounds'
  BY <1>2, <1>3, <1>4 DEF Inv, TypeOK, Bounds, Feeds
<1>6. Rooted' /\ Standing' /\ Unlogged' /\ Cleared' /\ Taken'
  BY <1>3 DEF Inv, Kept, Rooted, Standing, Unlogged, Cleared, Taken, MidRefresh,
              Excused, RefreshedBetween, Times
<1>7. UpToNext'
  BY <1>2, <1>3, <1>4 DEF UpToNext, RefreshedBetween
<1> QED BY <1>5, <1>6, <1>7 DEF Inv, Kept
-----------------------------------------------------------------------------
(***************************************************************************)
(* Giving a file up, and dying in the middle of one, mark it: what the     *)
(* database then lacks or holds twice is excused.                          *)
(***************************************************************************)
LEMMA MarkedRefreshExcuses ==
  ASSUME Inv, next <= last, phase # "idle", kinds[next] = "F",
         next \in hit', kinds' = kinds, UNCHANGED logged
  PROVE  /\ Excused(logged)'
         /\ \A n \in next .. last : Excused(n)'
<1>1. PICK n : n = next
  OBVIOUS
<1>2. kinds[n] = "F" /\ n \in hit' /\ n \in Nat
  BY <1>1 DEF Inv, TypeOK
<1>3. \A i \in n + 1 .. last : kinds[i] # "F"
  BY <1>1 DEF Inv, Bounds
<1>4. \A i \in n + 1 .. logged : kinds[i] # "F"
  BY <1>1 DEF Inv, Kept, UpToNext, RefreshedBetween
<1>5. ~RefreshedBetween(n, logged)'
  BY <1>4 DEF RefreshedBetween
<1>6. \A m \in n .. last : ~RefreshedBetween(n, m)'
  BY <1>2, <1>3 DEF Inv, TypeOK, RefreshedBetween
<1> QED BY <1>1, <1>2, <1>5, <1>6 DEF Excused

(* What excuses the file in hand excuses all that the run may log. *)
LEMMA ExcusedForTheRun ==
  ASSUME Inv, phase # "idle", next <= last, kinds[next] = "C", Excused(next)
  PROVE  /\ \A n \in 0 .. last : Excused(n)
         /\ \E refresh \in hit : kinds[refresh] = "F" /\ refresh < next
<1>1. PICK refresh \in hit : kinds[refresh] = "F" /\ ~RefreshedBetween(refresh, next)
  BY DEF Excused
<1>2. refresh \in Nat /\ next \in Nat /\ last \in Nat /\ refresh <= last
  BY DEF Inv, TypeOK, Feeds, Bounds
<1>3. \A i \in next .. last : kinds[i] # "F"
  BY <1>2 DEF Inv, Bounds
<1>4. \A n \in 0 .. last : ~RefreshedBetween(refresh, n)
  BY <1>1, <1>2, <1>3 DEF RefreshedBetween
<1> QED BY <1>1, <1>2, <1>3, <1>4 DEF Excused

LEMMA GivenUp ==
  ASSUME Inv, TypeOK', GiveUp, UNCHANGED <<kinds, logged, last>>,
         next <= last, phase \in {"importing", "schema", "logging"},
         db' = db \/ kinds[next] = "F"
  PROVE  Inv'
<1>1. /\ next \in Nat \ {0} /\ last \in 0 .. Len(kinds) /\ Len(kinds) \in Nat
      /\ logged \in 0 .. Len(kinds) /\ logged <= last
      /\ next' = next + 1 /\ hit' = hit \cup {next} /\ phase' = "importing"
      /\ \A i \in next + 1 .. last : kinds[i] = "C"
      /\ kinds[next] \in {"F", "C"}
  BY Kinds DEF Inv, TypeOK, Bounds, GiveUp
<1>2. Bounds' /\ Rooted' /\ Cleared' /\ Taken'
  BY <1>1 DEF Inv, Kept, Bounds, Rooted, Cleared, Taken, MidRefresh
<1>3. \A n \in 0 .. last : Excused(n) => Excused(n)'
  BY <1>1 DEF Excused, RefreshedBetween
<1>4. CASE kinds[next] = "F"
  <2>1. Excused(logged)' /\ \A n \in next .. last : Excused(n)'
    BY <1>1, <1>4, MarkedRefreshExcuses
  <2>2. Standing' /\ Unlogged'
    BY <2>1 DEF Standing, Unlogged
  <2>3. UpToNext'
    BY <1>1, <2>1 DEF UpToNext
  <2> QED BY <1>2, <2>2, <2>3 DEF Inv, Kept
<1>5. CASE kinds[next] = "C"
  <2>1. ~MidRefresh /\ db' = db
    BY <1>5 DEF MidRefresh
  <2>2. Standing'
    BY <1>1, <1>3, <2>1 DEF Inv, Kept, Standing, RefreshedBetween, Times
  <2>3. Unlogged'
    BY <1>1, <1>3, <2>1 DEF Inv, Kept, Unlogged
  <2>4. CASE Excused(next)
    <3>1. \A n \in 0 .. last : Excused(n)'
      BY <1>1, <1>3, <1>5, <2>4, ExcusedForTheRun
    <3>2. next' <= last' => Excused(next)'
      BY <1>1, <3>1
    <3>3. UpToNext'
      BY <1>1, <3>2 DEF UpToNext
    <3> QED BY <1>2, <2>2, <2>3, <3>3 DEF Inv, Kept
  <2>5. CASE ~Excused(next)
    <3>1. /\ 0 < logged /\ logged < next
          /\ \A feed \in logged + 1 .. next - 1 : feed \in hit /\ kinds[feed] = "C"
      BY <1>1, <1>5, <2>5 DEF Inv, Kept, UpToNext
    <3>2. UpToNext'
      BY <1>1, <1>5, <3>1 DEF UpToNext
    <3> QED BY <1>2, <2>2, <2>3, <3>2 DEF Inv, Kept
  <2> QED BY <2>4, <2>5
<1> QED BY <1>1, <1>4, <1>5

LEMMA CrashHolds == ASSUME Inv, TypeOK', Crash PROVE Inv'
<1>1. PICK n : n = next
  OBVIOUS
<1>2. /\ phase # "idle" /\ phase' = "idle"
      /\ UNCHANGED <<kinds, logged, next, last>>
      /\ hit' = IF phase \in {"schema", "records", "logging"} THEN hit \cup {n} ELSE hit
      /\ n \in Nat \ {0} /\ logged \in 0 .. Len(kinds) /\ Len(kinds) \in Nat
      /\ \A i \in 1 .. Len(kinds) : kinds[i] \in {"F", "C"}
      /\ last \in 0 .. Len(kinds)
  BY <1>1, Kinds DEF Crash, server, local, Inv, TypeOK, Bounds
<1>3. Bounds' /\ Rooted' /\ Cleared' /\ UpToNext' /\ Taken' /\ ~MidRefresh'
  BY <1>2 DEF Inv, Kept, Bounds, Rooted, Cleared, UpToNext, Taken, MidRefresh
<1>4. Excused(logged) => Excused(logged)'
  BY <1>2 DEF Excused, RefreshedBetween
<1>5. CASE phase \in {"schema", "records", "logging"} /\ kinds[n] = "F"
  <2>1. Excused(logged)'
    BY <1>1, <1>2, <1>5, MarkedRefreshExcuses DEF Inv, Bounds
  <2> QED BY <1>3, <2>1 DEF Inv, Kept, Standing, Unlogged
<1>6. CASE phase \in {"records", "logging"} /\ kinds[n] = "C"
  <2>1. /\ db' = db \/ db' = Append(db, n)
        /\ db \in Seq(Nat)
        /\ ~MidRefresh
        /\ hit' = hit \cup {n}
    BY <1>1, <1>2, <1>6 DEF Crash, Imported, MidRefresh, Inv, TypeOK
  <2>2. \A feed : feed # n => Times(feed)' = Times(feed)
    BY <1>2, <2>1, OthersAsBefore
  <2>3. Standing'
    BY <1>1, <1>2, <1>4, <2>1, <2>2 DEF Inv, Kept, Standing, RefreshedBetween
  <2>4. Unlogged'
    <3>1. \A i \in 1 .. Len(db') : db'[i] = n \/ (i \in 1 .. Len(db) /\ db'[i] = db[i])
      BY <2>1
    <3> QED BY <1>1, <1>2, <1>4, <2>1, <3>1 DEF Inv, Kept, Unlogged
  <2> QED BY <1>3, <2>3, <2>4 DEF Inv, Kept
<1>7. CASE phase \in {"fetching", "importing"}
  <2>1. db' = db /\ hit' = hit /\ ~MidRefresh
    BY <1>2, <1>7 DEF Crash, MidRefresh
  <2>2. Standing' /\ Unlogged'
    BY <1>2, <1>7, <2>1
    DEF Inv, Kept, Standing, Unlogged, Excused, RefreshedBetween, Times
  <2> QED BY <1>3, <2>2 DEF Inv, Kept
<1>8. phase = "schema" => kinds[n] = "F"
  BY <1>1 DEF Inv, Bounds
<1>9. phase \in {"records", "logging"} => kinds[n] \in {"F", "C"}
  BY <1>1, <1>2, InProgress DEF Inv, Feeds
<1> QED BY <1>2, <1>5, <1>6, <1>7, <1>8, <1>9 DEF Inv, TypeOK
-----------------------------------------------------------------------------
(***************************************************************************)
(* The three steps of an import: the schema, the records, the log.         *)
(***************************************************************************)
LEMMA SetupSchemaHolds == ASSUME Inv, TypeOK', SetupSchema PROVE Inv'
<1>1. /\ phase = "schema" /\ phase' = "records" /\ db' = <<>>
      /\ UNCHANGED <<kinds, logged, next, last, hit>>
      /\ kinds[next] = "F" /\ next <= last
  BY DEF SetupSchema, server, local, Inv, Bounds
<1>2. MidRefresh'
  BY <1>1 DEF MidRefresh
<1>3. Bounds' /\ Rooted'
  BY <1>1 DEF Inv, Kept, Bounds, Rooted
<1>4. Standing' /\ Unlogged' /\ Cleared' /\ Taken'
  BY <1>1, <1>2 DEF Standing, Unlogged, Cleared, Taken
<1>5. UpToNext'
  BY <1>1 DEF Inv, Kept, UpToNext, RefreshedBetween
<1> QED BY <1>3, <1>4, <1>5 DEF Inv, Kept

LEMMA ProcessFilesHolds ==
  ASSUME Inv, TypeOK', ProcessFiles \/ ProcessFilesFails
  PROVE  Inv'
<1>1. PICK n : n = next
  OBVIOUS
<1>2. /\ phase = "records" /\ phase' = "logging"
      /\ UNCHANGED <<kinds, logged, next, last>>
      /\ n \in 1 .. last /\ last \in 0 .. Len(kinds) /\ Len(kinds) \in Nat
      /\ logged \in 0 .. last /\ kinds[n] \in {"F", "C"}
  BY <1>1, Kinds, InProgress
  DEF ProcessFiles, ProcessFilesFails, server, local, Inv, Bounds, TypeOK
<1>3. /\ db \in Seq(Nat)
      /\ hit' = hit \/ hit' = hit \cup {n}
      /\ db' = Append(db, n) \/ (db' = db /\ n \in hit')
  BY <1>1 DEF ProcessFiles, ProcessFilesFails, Imported, Inv, TypeOK
<1>4. \A m \in Nat : Excused(m) => Excused(m)'
  BY <1>2, <1>3 DEF Excused, RefreshedBetween
<1>5. Bounds' /\ Rooted'
  BY <1>1, <1>2, <1>3 DEF Inv, Kept, Bounds, Rooted
<1>6. UpToNext'
  BY <1>1, <1>2, <1>3, <1>4 DEF Inv, Kept, UpToNext, RefreshedBetween
<1>7. CASE kinds[n] = "F"
  <2>1. MidRefresh /\ MidRefresh'
    BY <1>1, <1>2, <1>7 DEF MidRefresh
  <2>2. db = <<>>
    BY <1>2, <2>1 DEF Inv, Kept, Cleared
  <2>3. Cleared'
    <3>1. Append(<<>>, n) = <<n>>
      OBVIOUS
    <3> QED BY <1>1, <1>2, <1>3, <2>2, <3>1 DEF Cleared
  <2>4. Standing' /\ Unlogged' /\ Taken'
    BY <1>1, <1>2, <1>7, <2>1 DEF Standing, Unlogged, Taken
  <2> QED BY <1>5, <1>6, <2>3, <2>4 DEF Inv, Kept
<1>8. CASE kinds[n] = "C"
  <2>1. ~MidRefresh /\ ~MidRefresh'
    BY <1>1, <1>2, <1>8 DEF MidRefresh
  <2>2. \A feed : feed # n => Times(feed)' = Times(feed)
    BY <1>3, <1>2, OthersAsBefore
  <2>3. Excused(n) \/ logged < n
    BY <1>1, <1>2, <1>8 DEF Inv, Kept, UpToNext
  <2>4. Excused(n) => Excused(logged)
    BY <1>1, <1>2, <1>8, ExcusedForTheRun
  <2>5. Standing'
    BY <1>1, <1>2, <1>3, <1>4, <2>1, <2>2, <2>3, <2>4
    DEF Inv, Kept, Standing, RefreshedBetween
  <2>6. Unlogged'
    <3>1. \A i \in 1 .. Len(db') : db'[i] = n \/ (i \in 1 .. Len(db) /\ db'[i] = db[i])
      BY <1>3
    <3> QED BY <1>1, <1>2, <1>3, <1>4, <2>1, <3>1 DEF Inv, Kept, Unlogged
  <2>7. Taken'
    <3>1. CASE \A i \in 1 .. Len(db) : db[i] # n
      BY <1>1, <1>2, <1>3, <3>1, AppendedOnce DEF Taken
    <3>2. CASE \E i \in 1 .. Len(db) : db[i] = n
      <4>1. CASE Excused(n)
        BY <1>1, <1>2, <1>4, <4>1 DEF Taken
      <4>2. CASE ~Excused(n)
        <5>1. /\ logged < n
              /\ \A feed \in logged + 1 .. n - 1 : kinds[feed] = "C"
          BY <1>1, <1>2, <1>8, <4>2 DEF Inv, Kept, UpToNext
        <5>2. Excused(logged) => Excused(n)
          BY <1>2, <1>8, <5>1, SMTT(20) DEF Excused, RefreshedBetween, Inv, TypeOK, Feeds
        <5>3. n \in hit
          BY <1>2, <2>1, <3>2, <4>2, <5>1, <5>2 DEF Inv, Kept, Unlogged
        <5> QED BY <1>1, <1>2, <1>3, <5>3 DEF Taken
      <4> QED BY <4>1, <4>2
    <3> QED BY <3>1, <3>2
  <2>8. Cleared'
    BY <2>1 DEF Cleared
  <2> QED BY <1>5, <1>6, <2>5, <2>6, <2>7, <2>8 DEF Inv, Kept
<1> QED BY <1>2, <1>7, <1>8

LEMMA UpdateLastFileHolds == ASSUME Inv, TypeOK', UpdateLastFile PROVE Inv'
<1>1. PICK n : n = next
  OBVIOUS
<1>2. /\ phase = "logging" /\ phase' = "importing"
      /\ logged' = n /\ next' = n + 1
      /\ UNCHANGED <<kinds, last, hit, db>>
      /\ n \in 1 .. last /\ last \in 0 .. Len(kinds) /\ Len(kinds) \in Nat
      /\ logged \in 0 .. last
      /\ \A i \in 1 .. Len(kinds) : kinds[i] \in {"F", "C"}
  BY <1>1, Kinds, InProgress DEF UpdateLastFile, server, Inv, Bounds, TypeOK
<1>3. Bounds'
  BY <1>1, <1>2 DEF Inv, Bounds
<1>4. \A feed : Times(feed)' = Times(feed)
  BY <1>2 DEF Times
<1>5. \A m \in Nat : Excused(m) <=> Excused(m)'
  BY <1>2 DEF Excused, RefreshedBetween
<1>6. ~MidRefresh' /\ Cleared' /\ Taken'
  BY <1>2 DEF MidRefresh, Cleared, Taken
<1>7. \A i \in n + 1 .. last : kinds[i] = "C"
  BY <1>1, <1>2 DEF Inv, Bounds
<1>8. CASE kinds[n] = "F"
  <2>1. MidRefresh
    BY <1>1, <1>2, <1>8 DEF MidRefresh
  <2>2. db = <<>> \/ db = <<n>>
    BY <1>1, <2>1 DEF Inv, Kept, Cleared
  <2>3. Times(n) = 1 \/ n \in hit
    <3>1. CASE db = <<n>>
      <4>1. {i \in 1 .. Len(db) : db[i] = n} = {1}
        BY <3>1
      <4> QED BY <4>1, FS_Singleton DEF Times
    <3> QED BY <1>1, <1>2, <2>1, <3>1 DEF Inv, Kept, Cleared
  <2>4. Rooted'
    BY <1>2, <1>8 DEF Rooted
  <2>5. Standing'
    <3>1. \A feed \in 1 .. n : feed = n \/ RefreshedBetween(feed, n)'
      BY <1>2, <1>8 DEF RefreshedBetween
    <3> QED BY <1>2, <1>4, <2>3, <3>1 DEF Standing
  <2>6. Unlogged'
    BY <1>2, <2>2 DEF Unlogged
  <2>7. UpToNext'
    BY <1>2, <1>7 DEF UpToNext
  <2> QED BY <1>3, <1>6, <2>4, <2>5, <2>6, <2>7 DEF Inv, Kept
<1>9. CASE kinds[n] = "C"
  <2>1. ~MidRefresh
    BY <1>1, <1>9 DEF MidRefresh
  <2>2. CASE Excused(n)
    <3>1. /\ \A m \in 0 .. last : Excused(m)
          /\ \E refresh \in hit : kinds[refresh] = "F" /\ refresh < n
      BY <1>1, <1>2, <1>9, <2>2, ExcusedForTheRun
    <3>2. \A m \in 0 .. last : Excused(m)'
      BY <1>2, <1>5, <3>1
    <3>3. Rooted'
      BY <1>2, <3>1 DEF Rooted, Inv, TypeOK, Feeds
    <3>4. Excused(logged)'
      BY <1>2, <3>2
    <3>5. Standing' /\ Unlogged'
      BY <3>4 DEF Standing, Unlogged
    <3>6. next' <= last' => Excused(next)'
      BY <1>2, <3>2
    <3>7. UpToNext'
      BY <1>2, <1>7, <3>6 DEF UpToNext
    <3> QED BY <1>3, <1>6, <3>3, <3>5, <3>7 DEF Inv, Kept
  <2>3. CASE ~Excused(n)
    <3>1. /\ 0 < logged /\ logged < n
          /\ \A feed \in logged + 1 .. n - 1 : feed \in hit /\ kinds[feed] = "C"
      BY <1>1, <1>2, <1>9, <2>3 DEF Inv, Kept, UpToNext
    <3>2. \A feed : RefreshedBetween(feed, logged) => RefreshedBetween(feed, n)'
      BY <1>2, <3>1 DEF RefreshedBetween
    <3>3. Excused(logged) => Excused(n)'
      BY <1>2, <1>9, <3>1 DEF Excused, RefreshedBetween, Inv, TypeOK, Feeds
    <3>4. n \in hit \/ Times(n) = 1
      BY <1>1, <1>2, <1>9, <2>3 DEF Inv, Kept, Taken
    <3>5. Rooted'
      BY <1>2, <3>1 DEF Inv, Kept, Rooted
    <3>6. Standing'
      <4>1. \/ Excused(n)'
            \/ \A feed \in 1 .. n :
                 RefreshedBetween(feed, n)' \/ feed \in hit \/ Times(feed) = 1
        BY <1>2, <2>1, <3>1, <3>2, <3>3, <3>4 DEF Inv, Kept, Standing
      <4> QED BY <1>2, <1>4, <4>1 DEF Standing
    <3>7. Unlogged'
      <4>1. \A i \in 1 .. Len(db) : db[i] \in Nat
        BY DEF Inv, TypeOK
      <4>2. Excused(n)' \/ \A i \in 1 .. Len(db) : db[i] <= n \/ db[i] \in hit
        BY <1>1, <1>2, <2>1, <3>1, <3>3, <4>1, SMTT(20) DEF Inv, Kept, Unlogged
      <4> QED BY <1>2, <4>2 DEF Unlogged
    <3>8. UpToNext'
      BY <1>2, <1>7, <3>1 DEF UpToNext
    <3> QED BY <1>3, <1>6, <3>5, <3>6, <3>7, <3>8 DEF Inv, Kept
  <2> QED BY <2>2, <2>3
<1> QED BY <1>2, <1>8, <1>9

LEMMA StepHolds == ASSUME Inv, [Next]_vars PROVE Inv'
<1>1. TypeOK'
  BY TypesAreKept DEF Inv
<1>2. CASE Publish
  <2>1. SameFeeds
    BY <1>2 DEF Publish, SameFeeds, Inv, TypeOK
  <2> QED BY <1>1, <1>2, <2>1, QuietSteps DEF Publish, local
<1>3. CASE Expire \/ UNCHANGED vars
  BY <1>1, <1>3, QuietSteps
  DEF Expire, vars, server, local, SameFeeds, Inv, TypeOK
<1>4. CASE Start \/ StartWithoutCursor
  BY <1>1, <1>4, StartHolds DEF Start, StartWithoutCursor
<1>5. CASE Fetch \/ FetchFails \/ Extract \/ End
  BY <1>1, <1>5, QuietSteps
  DEF Fetch, FetchFails, Extract, End, server, local, SameFeeds, Inv, TypeOK
<1>6. CASE ExtractFails \/ ExtractBreaks
  BY <1>1, <1>6, GivenUp DEF ExtractFails, ExtractBreaks, server
<1>7. CASE SetupSchemaFails
  BY <1>1, <1>7, GivenUp, InProgress DEF SetupSchemaFails, server, Inv, Bounds
<1>8. CASE CannotUpdateLastFile \/ UpdateLastFileFails
  BY <1>1, <1>8, GivenUp, InProgress
  DEF CannotUpdateLastFile, UpdateLastFileFails, server, Inv
<1> QED
  BY <1>1, <1>2, <1>3, <1>4, <1>5, <1>6, <1>7, <1>8, SetupSchemaHolds,
     ProcessFilesHolds, UpdateLastFileHolds, CrashHolds
  DEF Next, Step, Breakdown
-----------------------------------------------------------------------------
(***************************************************************************)
(* Type correctness, for any number of feeds and of faults.                *)
(***************************************************************************)
THEOREM TypeCorrectness == Spec => []TypeOK
<1>1. Inv => TypeOK
  BY DEF Inv
<1> QED BY <1>1, InitHolds, StepHolds, PTL DEF Spec

(* Between two runs, the invariant says of the log what is promised.       *)
LEMMA LoggedIsHeld == Inv => OnlyFaultsLoseFeeds
<1> SUFFICES ASSUME Inv, phase = "idle", logged > 0
             PROVE  /\ Refresh > 0
                    /\ \A feed \in Refresh .. logged :
                         feed \in hit \/ RefreshHit \/ Times(feed) = 1
  BY DEF OnlyFaultsLoseFeeds
<1>1. logged \in Nat
  BY DEF Inv, TypeOK
<1>2. PICK r : r = Refresh
  OBVIOUS
<1>3. /\ r = 0 \/ (r \in 1 .. logged /\ kinds[r] = "F")
      /\ \A i \in 1 .. logged : kinds[i] = "F" => i <= r
  BY <1>1, <1>2, GreatestRefresh DEF Refresh
<1>4. r \in 1 .. logged /\ kinds[r] = "F"
  BY <1>3 DEF Inv, Kept, Rooted
<1>5. \A feed \in r .. logged : ~RefreshedBetween(feed, logged)
  BY <1>3, <1>4 DEF RefreshedBetween
<1>6. Excused(logged) => RefreshHit
  <2> SUFFICES ASSUME NEW refresh \in hit, kinds[refresh] = "F",
                      ~RefreshedBetween(refresh, logged)
               PROVE  refresh >= r
    BY <1>2 DEF Excused, RefreshHit
  <2>1. refresh \in Nat
    BY DEF Inv, TypeOK, Feeds
  <2> QED BY <1>1, <1>4, <2>1 DEF RefreshedBetween
<1>7. Standing /\ ~MidRefresh
  BY DEF Inv, Kept, MidRefresh
<1> QED BY <1>2, <1>4, <1>5, <1>6, <1>7 DEF Standing

(***************************************************************************)
(* Between two runs the log tells the truth: every feed from the refresh   *)
(* to the last one logged is in the database, once, or was interrupted     *)
(* (ImportCommand's cursor, getLastProcessedFile, updateLastFile).         *)
(***************************************************************************)
THEOREM TheLogIsRight == Spec => []OnlyFaultsLoseFeeds
BY InitHolds, StepHolds, LoggedIsHeld, PTL DEF Spec

(* NeverGoesBack, of one step.                                             *)
OnlyForward ==
  Len(db') > Len(db) =>
    \A i \in 1 .. Len(db) :
      \/ db[i] <= next
      \/ db[i] \in hit
      \/ \E refresh \in hit : refresh <= next /\ kinds[refresh] = "F"

LEMMA ImportsGoForward == ASSUME Inv, [Next]_vars PROVE [OnlyForward]_vars
<1> SUFFICES ASSUME Len(db') > Len(db) PROVE OnlyForward
  BY DEF OnlyForward
<1>1. PICK n : n = next
  OBVIOUS
<1>2. Len(db) \in Nat
  BY DEF Inv, TypeOK
<1>3. phase = "records"
  <2>1. db' # db /\ db' # <<>>
    BY <1>2
  <2> QED
    BY <2>1
    DEF Next, Step, Breakdown, Publish, Expire, Start, StartWithoutCursor,
        StartWith, Fetch, FetchFails, Extract, ExtractFails, ExtractBreaks,
        SetupSchema, SetupSchemaFails, PartOfTheSchema, ProcessFiles,
        ProcessFilesFails, UpdateLastFile, CannotUpdateLastFile,
        UpdateLastFileFails, End, Crash, vars
<1>4. /\ n \in 1 .. last /\ kinds[n] \in {"F", "C"} /\ last \in Nat
      /\ logged \in 0 .. last
      /\ \A i \in n + 1 .. last : kinds[i] = "C"
      /\ hit \subseteq 1 .. last
  BY <1>1, <1>3, InProgress, Kinds DEF Inv, Bounds, TypeOK, Feeds
<1>5. CASE kinds[n] = "F"
  <2>1. db = <<>>
    BY <1>1, <1>3, <1>5 DEF Inv, Kept, Cleared, MidRefresh
  <2> QED BY <2>1 DEF OnlyForward
<1>6. CASE kinds[n] = "C"
  <2>1. CASE Excused(n) \/ Excused(logged)
    <3>1. PICK refresh \in hit : kinds[refresh] = "F"
      BY <2>1 DEF Excused
    <3>2. refresh <= n
      BY <1>4, <3>1
    <3> QED BY <1>1, <3>1, <3>2 DEF OnlyForward
  <2>2. CASE ~Excused(n) /\ ~Excused(logged)
    <3>1. logged < n
      BY <1>1, <1>3, <1>4, <1>6, <2>2 DEF Inv, Kept, UpToNext
    <3>2. \A i \in 1 .. Len(db) : db[i] <= logged \/ db[i] \in hit
      BY <1>1, <1>3, <1>6, <2>2 DEF Inv, Kept, Unlogged, MidRefresh
    <3>3. \A i \in 1 .. Len(db) : db[i] \in Nat
      BY DEF Inv, TypeOK
    <3> QED BY <1>1, <1>4, <3>1, <3>2, <3>3 DEF OnlyForward
  <2> QED BY <2>1, <2>2
<1> QED BY <1>4, <1>5, <1>6

(***************************************************************************)
(* No import goes over a newer one, whatever the server lists and wherever *)
(* a crash falls, but after a fault that excuses it (processFiles).        *)
(***************************************************************************)
THEOREM NothingIsUndone == Spec => NeverGoesBack
<1>1. Inv /\ [Next]_vars => [OnlyForward]_vars
  BY ImportsGoForward
<1>2. NeverGoesBack <=> [][OnlyForward]_vars
  BY DEF NeverGoesBack, OnlyForward
<1> QED BY <1>1, <1>2, InitHolds, StepHolds, PTL DEF Spec
=============================================================================
