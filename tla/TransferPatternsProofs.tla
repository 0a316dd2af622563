--------------------- MODULE TransferPatternsProofs ---------------------
(***************************************************************************)
(* The build of the transfer patterns, for any number of stations, shards, *)
(* dates and workers, and any number of faults: planning a shard does what *)
(* PlanStations promises (the safety of it; that it comes to an end is     *)
(* model-checked), no file is taken away that a worker holds open, and the *)
(* shards of tonight merge to the patterns of the whole feed.              *)
(*                                                                         *)
(* The heart of it is SomeoneHas: while a date is planned, the patterns of *)
(* a station that was handed out are on their way to a worker, in what it  *)
(* has stored or in the file it closed, or that worker is dead and the     *)
(* plan will fail.  It rests on what a worker and the pool may have on the *)
(* way to each other (Protocol), since a word that came twice, or late,    *)
(* would close a file with a station missing.                              *)
(***************************************************************************)
EXTENDS TransferPatterns, FiniteSetTheorems, WellFoundedInduction, TLAPS

(***************************************************************************)
(* The least and the greatest of a set of numbers, as Min and Max choose   *)
(* them.                                                                   *)
(***************************************************************************)
LEMMA LeastExists ==
  ASSUME NEW S \in SUBSET Nat, S # {}
  PROVE  \E x \in S : \A y \in S : x <= y
<1>1. PICK x \in S : \A y \in S : ~(<<y, x>> \in OpToRel(<, Nat))
  BY NatLessThanWellFounded, WFMin
<1>2. \A y \in S : ~(y < x)
  BY <1>1 DEF OpToRel
<1> QED BY <1>2

LEMMA GreatestExists ==
  ASSUME NEW n \in Nat, NEW S \in SUBSET (0 .. n), S # {}
  PROVE  \E x \in S : \A y \in S : x >= y
<1> DEFINE T == {n - x : x \in S}
<1>1. T \in SUBSET Nat /\ T # {}
  <2>1. \A x \in S : n - x \in Nat
    OBVIOUS
  <2>2. T \subseteq Nat
    BY <2>1
  <2> QED BY <2>2
<1>2. PICK t \in T : \A u \in T : t <= u
  BY <1>1, LeastExists
<1>3. PICK x \in S : t = n - x
  OBVIOUS
<1>4. \A y \in S : n - x <= n - y
  BY <1>2, <1>3
<1> QED BY <1>4

LEMMA MinIsLeast ==
  ASSUME NEW S \in SUBSET Nat, S # {}
  PROVE  Min(S) \in S /\ \A y \in S : Min(S) <= y
  BY LeastExists DEF Min

LEMMA MaxIsGreatest ==
  ASSUME NEW n \in Nat, NEW S \in SUBSET (0 .. n), S # {}
  PROVE  Max(S) \in S /\ \A y \in S : y <= Max(S)
<1>1. Max(S) \in S /\ \A y \in S : Max(S) >= y
  BY GreatestExists DEF Max
<1> QED BY <1>1
-----------------------------------------------------------------------------
(***************************************************************************)
(* Merging the shards writes their union, for any shards whose files are   *)
(* in order and however many there are.  Neither half of it is inductive:  *)
(* the order rests on no reader being behind what was written, and the     *)
(* union on every pattern a reader has passed being written.               *)
(***************************************************************************)
Inputs ==
  /\ DOMAIN inputs = 1 .. Len(inputs) /\ Len(inputs) \in Nat
  /\ \A i \in DOMAIN inputs :
       inputs[i].patterns \in Seq(Nat \ {0}) /\ Increasing(inputs[i].patterns)

NotBehind == \A i \in DOMAIN inputs : HasHead(i) => Previous <= Head_(i)

PassedIsWritten ==
  \A i \in DOMAIN inputs : \A k \in 1 .. at[i] - 1 :
    \E n \in 1 .. Len(merged) : merged[n] = inputs[i].patterns[k]

WrittenWasRead ==
  \A n \in 1 .. Len(merged) : \E i \in DOMAIN inputs :
    \E k \in 1 .. Len(inputs[i].patterns) : merged[n] = inputs[i].patterns[k]

ReadToTheEnd == stage = "merged" => \A i \in DOMAIN inputs : ~HasHead(i)

Inv ==
  /\ MergeTypeOK
  /\ at \in [DOMAIN inputs -> Nat]
  /\ stage = "waiting" => merged = <<>>
  /\ Inputs
  /\ MergedInOrder
  /\ NotBehind
  /\ PassedIsWritten
  /\ WrittenWasRead
  /\ ReadToTheEnd

LEMMA InitHolds == MergeInit => Inv
  BY DEF MergeInit, Inv, MergeTypeOK, Inputs, MergedInOrder, Increasing,
         NotBehind, PassedIsWritten, WrittenWasRead, ReadToTheEnd

LEMMA OpenHolds ==
  ASSUME Inv, NEW shards \in Shards, NEW count \in Counts, Open(shards, count)
  PROVE  Inv'
<1>1. /\ DOMAIN shards = 1 .. Len(shards) /\ Len(shards) \in Nat
      /\ \A i \in DOMAIN shards :
           /\ shards[i].patterns \in Seq(Nat \ {0})
           /\ Increasing(shards[i].patterns)
  BY ShardsAssumption
<1>2. /\ stage = "waiting" /\ stage' \in {"merging", "refused"}
      /\ inputs' = shards /\ at' = [i \in DOMAIN shards |-> 1]
      /\ merged' = merged /\ merged = <<>>
  BY DEF Open, Inv
<1>3. MergeTypeOK' /\ (at \in [DOMAIN inputs -> Nat])'
  BY <1>1, <1>2 DEF MergeTypeOK
<1>4. Inputs'
  BY <1>1, <1>2 DEF Inputs, Increasing
<1>5. MergedInOrder'
  BY <1>2 DEF MergedInOrder, Increasing
<1>6. NotBehind'
  <2> SUFFICES ASSUME NEW i \in DOMAIN shards, HasHead(i)'
               PROVE  Previous' <= Head_(i)'
    BY <1>2 DEF NotBehind
  <2>1. Previous' = 0
    BY <1>2 DEF Previous
  <2>2. Head_(i)' = shards[i].patterns[1] /\ 1 <= Len(shards[i].patterns)
    BY <1>2 DEF Head_, HasHead
  <2>3. shards[i].patterns[1] \in Nat
    BY <1>1, <2>2
  <2> QED BY <2>1, <2>2, <2>3
<1>7. PassedIsWritten' /\ WrittenWasRead' /\ ReadToTheEnd'
  BY <1>2 DEF PassedIsWritten, WrittenWasRead, ReadToTheEnd
<1> QED BY <1>2, <1>3, <1>4, <1>5, <1>6, <1>7 DEF Inv

LEMMA AdvanceHolds == ASSUME Inv, Advance PROVE Inv'
<1>1. PICK i \in DOMAIN inputs :
        /\ Lowest(i)
        /\ merged' = IF Head_(i) = Previous THEN merged
                     ELSE Append(merged, Head_(i))
        /\ at' = [at EXCEPT ![i] = @ + 1]
  BY DEF Advance
<1>2. stage = "merging" /\ stage' = stage /\ inputs' = inputs
  BY DEF Advance
<1> DEFINE patterns == inputs[i].patterns
           head == Head_(i)
<1>3. /\ at \in [DOMAIN inputs -> Nat] /\ merged \in Seq(Nat \ {0})
      /\ at[i] \in 1 .. Len(patterns) /\ head = patterns[at[i]]
      /\ patterns \in Seq(Nat \ {0}) /\ Increasing(patterns)
      /\ head \in Nat \ {0}
      /\ \A j \in DOMAIN inputs :
           /\ at[j] \in 1 .. Len(inputs[j].patterns) + 1
           /\ inputs[j].patterns \in Seq(Nat \ {0})
           /\ Len(inputs[j].patterns) \in Nat
  BY <1>1, SMTT(20) DEF Inv, MergeTypeOK, Inputs, Lowest, HasHead, Head_
<1>4. /\ at'[i] = at[i] + 1
      /\ \A j \in DOMAIN inputs : j # i => at'[j] = at[j]
  BY <1>1, <1>3
<1>5. HasHead(i) => Previous <= head
  BY DEF Inv, NotBehind
<1>6. /\ merged' \in Seq(Nat \ {0}) /\ Increasing(merged')
      /\ \A n \in 1 .. Len(merged) :
           n \in 1 .. Len(merged') /\ merged'[n] = merged[n]
      /\ \A n \in 1 .. Len(merged') :
           n \in 1 .. Len(merged) \/ merged'[n] = head
      /\ \E n \in 1 .. Len(merged') : merged'[n] = head
      /\ Previous' = head
  <2>1. CASE head = Previous
    <3>1. merged' = merged /\ Previous' = head
      BY <1>1, <2>1 DEF Previous
    <3>2. merged # <<>> /\ merged[Len(merged)] = head
      BY <1>3, <2>1 DEF Previous
    <3>3. Len(merged) \in 1 .. Len(merged)
      BY <1>3, <3>2
    <3> QED BY <1>3, <3>1, <3>2, <3>3 DEF Inv, MergedInOrder
  <2>2. CASE head # Previous
    <3>1. merged' = Append(merged, head)
      BY <1>1, <2>2
    <3>2. /\ merged' \in Seq(Nat \ {0}) /\ Len(merged') = Len(merged) + 1
          /\ Len(merged) \in Nat /\ merged'[Len(merged) + 1] = head
          /\ \A n \in 1 .. Len(merged) : merged'[n] = merged[n]
      BY <1>3, <3>1
    <3>3. Previous' = head
      BY <3>2 DEF Previous
    <3>4. Previous < head
      <4>1. Previous \in Nat
        BY <1>3 DEF Previous
      <4> QED BY <1>1, <1>3, <1>5, <2>2, <4>1 DEF Lowest
    <3>5. \A n \in 1 .. Len(merged) : merged[n] <= Previous
      <4> SUFFICES ASSUME NEW n \in 1 .. Len(merged)
                   PROVE  merged[n] <= Previous
        OBVIOUS
      <4>1. merged # <<>> /\ Previous = merged[Len(merged)]
        BY <1>3 DEF Previous
      <4>2. n = Len(merged) \/ n < Len(merged)
        BY <3>2
      <4>3. n < Len(merged) => merged[n] < merged[Len(merged)]
        <5>1. DOMAIN merged = 1 .. Len(merged) /\ Len(merged) \in Nat
          BY <1>3
        <5>2. Len(merged) \in 1 .. Len(merged)
          BY <5>1
        <5>3. Len(merged) \in DOMAIN merged /\ n \in DOMAIN merged
          BY <5>1, <5>2
        <5> QED BY <5>3 DEF Inv, MergedInOrder, Increasing
      <4> QED BY <1>3, <4>1, <4>2, <4>3
    <3>6. Increasing(merged')
      <4> SUFFICES ASSUME NEW n \in 1 .. Len(merged) + 1,
                          NEW k \in 1 .. Len(merged) + 1, n < k
                   PROVE  merged'[n] < merged'[k]
        BY <3>2 DEF Increasing
      <4>1. CASE k = Len(merged) + 1
        <5>1. n \in 1 .. Len(merged)
          BY <3>2, <4>1
        <5>2. Previous \in Nat /\ merged[n] \in Nat
          BY <1>3, <5>1 DEF Previous
        <5>3. merged'[k] = head /\ merged'[n] = merged[n]
          BY <3>2, <4>1, <5>1
        <5>4. merged[n] <= Previous /\ head \in Nat
          BY <1>3, <3>5, <5>1
        <5> QED BY <3>4, <5>2, <5>3, <5>4
      <4>2. CASE k # Len(merged) + 1
        <5>1. n \in 1 .. Len(merged) /\ k \in 1 .. Len(merged)
          BY <3>2, <4>2
        <5>2. merged'[n] = merged[n] /\ merged'[k] = merged[k]
          BY <3>2, <5>1
        <5>3. merged[n] < merged[k]
          BY <1>3, <5>1 DEF Inv, MergedInOrder, Increasing
        <5> QED BY <5>2, <5>3
      <4> QED BY <4>1, <4>2
    <3> QED BY <3>2, <3>3, <3>6
  <2> QED BY <2>1, <2>2
<1>7. MergeTypeOK' /\ (at \in [DOMAIN inputs -> Nat])' /\ Inputs'
  <2>1. at' \in [DOMAIN inputs -> Nat]
    BY <1>1, <1>3
  <2>2. \A j \in DOMAIN inputs : at'[j] \in 1 .. Len(inputs[j].patterns) + 1
    <3> TAKE j \in DOMAIN inputs
    <3>1. CASE j = i
      BY <1>3, <1>4, <3>1
    <3>2. CASE j # i
      BY <1>3, <1>4, <3>2
    <3> QED BY <3>1, <3>2
  <2> QED BY <1>2, <1>6, <2>1, <2>2 DEF Inv, MergeTypeOK, Inputs, Increasing
<1>8. NotBehind'
  <2> SUFFICES ASSUME NEW j \in DOMAIN inputs, HasHead(j)'
               PROVE  head <= Head_(j)'
    BY <1>2, <1>6 DEF NotBehind
  <2>1. CASE j = i
    <3>1. /\ at'[i] = at[i] + 1 /\ at[i] + 1 <= Len(patterns)
          /\ Head_(j)' = patterns[at[i] + 1]
      BY <1>2, <1>4, <2>1 DEF HasHead, Head_
    <3>2. patterns[at[i]] < patterns[at[i] + 1]
      <4>1. at[i] \in DOMAIN patterns /\ at[i] + 1 \in DOMAIN patterns
        BY <1>3, <3>1
      <4>2. at[i] < at[i] + 1
        BY <1>3
      <4> QED BY <1>3, <4>1, <4>2 DEF Increasing
    <3>3. patterns[at[i] + 1] \in Nat
      BY <1>3, <3>1
    <3> QED BY <1>3, <3>1, <3>2, <3>3
  <2>2. CASE j # i
    <3>1. HasHead(j) /\ Head_(j)' = Head_(j)
      BY <1>2, <1>4, <2>2 DEF HasHead, Head_
    <3>2. Head_(j) \in Nat
      BY <1>3, <3>1 DEF HasHead, Head_
    <3>3. head < Head_(j) \/ head = Head_(j)
      BY <1>1, <3>1 DEF Lowest
    <3> QED BY <1>3, <3>1, <3>2, <3>3
  <2> QED BY <2>1, <2>2
<1>9. PassedIsWritten'
  <2> SUFFICES ASSUME NEW j \in DOMAIN inputs, NEW k \in 1 .. at'[j] - 1
               PROVE  \E n \in 1 .. Len(merged') :
                        merged'[n] = inputs[j].patterns[k]
    BY <1>2 DEF PassedIsWritten
  <2>1. CASE k \in 1 .. at[j] - 1
    <3>1. PICK n \in 1 .. Len(merged) : merged[n] = inputs[j].patterns[k]
      BY <2>1 DEF Inv, PassedIsWritten
    <3> QED BY <1>6, <3>1
  <2>2. CASE k \notin 1 .. at[j] - 1
    <3>1. j = i /\ k = at[i]
      BY <1>3, <1>4, <2>2
    <3> QED BY <1>3, <1>6, <3>1
  <2> QED BY <2>1, <2>2
<1>10. WrittenWasRead'
  <2> SUFFICES ASSUME NEW n \in 1 .. Len(merged')
               PROVE  \E j \in DOMAIN inputs :
                        \E k \in 1 .. Len(inputs[j].patterns) :
                          merged'[n] = inputs[j].patterns[k]
    BY <1>2 DEF WrittenWasRead
  <2>1. CASE n \in 1 .. Len(merged)
    BY <1>6, <2>1, SMTT(20) DEF Inv, WrittenWasRead
  <2>2. CASE merged'[n] = head
    BY <1>3, <2>2
  <2> QED BY <1>6, <2>1, <2>2
<1>11. ReadToTheEnd' /\ MergedInOrder' /\ (stage = "waiting" => merged = <<>>)'
  BY <1>2, <1>6 DEF ReadToTheEnd, MergedInOrder
<1> QED BY <1>7, <1>8, <1>9, <1>10, <1>11 DEF Inv

LEMMA NothingIsRead ==
  ASSUME Inv, UNCHANGED <<inputs, at, merged>>,
         stage' \in {"waiting", "merging", "refused", "failed", "merged"},
         stage' = "waiting" => stage = "waiting",
         stage' = "merged" => \A i \in DOMAIN inputs : ~HasHead(i)
  PROVE  Inv'
<1>1. MergeTypeOK' /\ (at \in [DOMAIN inputs -> Nat])'
  BY DEF Inv, MergeTypeOK
<1>2. Inputs' /\ MergedInOrder'
  BY DEF Inv, Inputs, MergedInOrder, Increasing
<1>3. \A i \in DOMAIN inputs : HasHead(i)' = HasHead(i) /\ Head_(i)' = Head_(i)
  BY DEF HasHead, Head_
<1>4. NotBehind' /\ ReadToTheEnd'
  <2>1. Previous' = Previous
    BY DEF Previous
  <2>2. NotBehind'
    BY <1>3, <2>1 DEF Inv, NotBehind
  <2>3. ReadToTheEnd'
    BY <1>3 DEF ReadToTheEnd
  <2> QED BY <2>2, <2>3
<1>5. PassedIsWritten' /\ WrittenWasRead'
  BY DEF Inv, PassedIsWritten, WrittenWasRead
<1> QED BY <1>1, <1>2, <1>4, <1>5 DEF Inv

LEMMA StepHolds == Inv /\ [Opens \/ MergeNext]_merge => Inv'
<1> SUFFICES ASSUME Inv, [Opens \/ MergeNext]_merge PROVE Inv'
  OBVIOUS
<1>1. CASE Opens
  BY <1>1, OpenHolds DEF Opens
<1>2. CASE Advance
  BY <1>2, AdvanceHolds
<1>3. CASE Finish
  BY <1>3, NothingIsRead DEF Finish
<1>4. CASE ReadFails
  BY <1>4, NothingIsRead DEF ReadFails
<1>5. CASE UNCHANGED merge
  BY <1>5, NothingIsRead DEF merge, Inv, MergeTypeOK, ReadToTheEnd
<1> QED BY <1>1, <1>2, <1>3, <1>4, <1>5 DEF MergeNext

LEMMA InvImpliesTheUnion == Inv => MergeIsTheUnion
<1> SUFFICES ASSUME Inv, stage = "merged"
             PROVE  Range(merged) =
                      UNION {Range(inputs[i].patterns) : i \in DOMAIN inputs}
  BY DEF Inv, MergeIsTheUnion, MergedWhole
<1>1. /\ merged \in Seq(Nat \ {0}) /\ Inputs
      /\ \A i \in DOMAIN inputs : at[i] = Len(inputs[i].patterns) + 1
  BY DEF Inv, MergeTypeOK, ReadToTheEnd, HasHead, Inputs
<1>2. ASSUME NEW p \in Range(merged)
      PROVE  \E i \in DOMAIN inputs : p \in Range(inputs[i].patterns)
  <2>1. PICK n \in 1 .. Len(merged) : merged[n] = p
    BY <1>1 DEF Range
  <2>2. PICK i \in DOMAIN inputs :
          \E k \in 1 .. Len(inputs[i].patterns) : p = inputs[i].patterns[k]
    BY <2>1 DEF Inv, WrittenWasRead
  <2> QED BY <1>1, <2>2 DEF Range, Inputs
<1>3. ASSUME NEW i \in DOMAIN inputs, NEW p \in Range(inputs[i].patterns)
      PROVE  p \in Range(merged)
  <2>1. PICK k \in 1 .. Len(inputs[i].patterns) : inputs[i].patterns[k] = p
    BY <1>1 DEF Range, Inputs
  <2>2. k \in 1 .. at[i] - 1
    BY <1>1 DEF Inputs
  <2>3. PICK n \in 1 .. Len(merged) : merged[n] = p
    BY <2>1, <2>2 DEF Inv, PassedIsWritten
  <2> QED BY <1>1, <2>3 DEF Range
<1> QED BY <1>2, <1>3

(***************************************************************************)
(* merge and kWayMerge, for any shards in order and any number of them:    *)
(* what is written is in order without repeats, and a merge that succeeds  *)
(* has written the union of the shards.                                    *)
(***************************************************************************)
THEOREM TheMergeIsTheUnion == MergeSpec => []MergeIsTheUnion
  BY InitHolds, StepHolds, InvImpliesTheUnion, PTL DEF MergeSpec
-----------------------------------------------------------------------------
Over == phase \notin {"planning", "stopping"}

PlannedFor(day) == UNION {Found[<<s, day>>] : s \in Stations}

ProtocolOf(w) ==
  /\ thread[w] = "starting" => posted[w] = <<>> /\ received[w] = <<>>
  /\ thread[w] = "waiting" =>
       \/ posted[w] = <<>> /\ received[w] = <<READY>>
       \/ /\ received[w] = <<>>
          /\ \E x \in Stations \cup {Nothing} :
               posted[w] = <<x>> /\ (x = Nothing => remaining = {})
  /\ thread[w] \in {"storing", "closing"} =>
       posted[w] = <<>> /\ received[w] = <<>>
  /\ thread[w] = "closed" => posted[w] = <<>> /\ received[w] = <<DONE>>
  /\ thread[w] = "finished" => received[w] = <<>>
  /\ thread[w] = "dead" => received[w] \in {<<>>, <<READY>>}
  /\ thread[w] \in {"closing", "closed", "finished"} => remaining = {}

Protocol == phase = "planning" => \A w \in Workers : ProtocolOf(w)

Has(w, s) ==
  \/ thread[w] = "dead"
  \/ thread[w] = "waiting" /\ posted[w] = <<s>>
  \/ thread[w] \in {"waiting", "storing", "closing"} /\ Found[<<s, date>>] \subseteq stream[w]
  \/ thread[w] \in {"closed", "finished"} /\ Found[<<s, date>>] \subseteq parts[date][w]

SomeoneHas ==
  phase = "planning" =>
    \A s \in Stations \ remaining : \E w \in Workers : Has(w, s)

DatesBefore ==
  phase = "planning" =>
    \A day \in 1 .. date - 1 : \A s \in Stations :
      \E w \in Workers : Found[<<s, day>>] \subseteq parts[day][w]

NothingInvented ==
  /\ \A w \in Workers : stream[w] \subseteq PlannedFor(date)
  /\ \A day \in Dates : \A w \in Workers : parts[day][w] \subseteq PlannedFor(day)

TakenInOrder ==
  taken = (Stations \X (1 .. date - 1)) \cup ((Stations \ remaining) \X {date})

AllOfIt ==
  phase \in {"noting", "finishing", "planned"} =>
    taken = Jobs /\ output = UNION {Found[job] : job \in Jobs}

ThreadsAreOver ==
  /\ Over => \A w \in Workers : thread[w] \in {"dead", "finished"}
  /\ ~directory => Over

PoolInv ==
  /\ PoolTypeOK
  /\ Protocol
  /\ SomeoneHas
  /\ DatesBefore
  /\ NothingInvented
  /\ TakenInOrder
  /\ AllOfIt
  /\ ThreadsAreOver
-----------------------------------------------------------------------------
LEMMA SomeStation == 1 \in Stations
<1>1. ShardCount \in Nat /\ ShardCount > 0 /\ StationCount \in Nat /\ 1 <= StationCount
  BY CountsAssumption
<1>2. (1 - 1) % ShardCount = 1 - 1
  BY <1>1
<1> QED BY <1>1, <1>2 DEF Stations, Shard

LEMMA SomeWorker == Workers # {}
<1>1. IsFiniteSet(1 .. StationCount)
  BY CountsAssumption, FS_Interval
<1>2. IsFiniteSet(Stations)
  BY <1>1, FS_Subset DEF Stations, Shard
<1>3. Cardinality(Stations) \in Nat /\ Cardinality(Stations) # 0
  BY <1>2, SomeStation, FS_CardinalityType, FS_EmptySet
<1> DEFINE S == {WorkerLimit, Cardinality(Stations)}
<1>4. S \in SUBSET Nat /\ S # {} /\ 0 \notin S
  BY <1>3, CountsAssumption
<1>5. Min(S) \in S
  BY <1>4, MinIsLeast
<1>6. 1 \in 1 .. Min(S)
  BY <1>4, <1>5
<1> QED BY <1>6 DEF Workers

LEMMA NextStation ==
  ASSUME PoolTypeOK, remaining # {} PROVE Max(remaining) \in remaining
<1>1. remaining \in SUBSET (0 .. StationCount) /\ StationCount \in Nat
  BY CountsAssumption DEF PoolTypeOK, Stations, Shard
<1> QED BY <1>1, MaxIsGreatest

LEMMA FoundType ==
  \A s \in Stations, day \in Dates : Found[<<s, day>>] \in SUBSET (Nat \ {0})
  BY FoundAssumption DEF Stations, Shard, Dates

LEMMA StationsAreNumbers == Stations \subseteq Nat \ {0}
  BY CountsAssumption DEF Stations, Shard

LEMMA PoolInitHolds == PoolInit => PoolInv
<1> SUFFICES ASSUME PoolInit PROVE PoolInv
  OBVIOUS
<1>1. PoolTypeOK
  <2>1. parts \in [Dates -> [Workers -> SUBSET (Nat \ {0})]]
    BY DEF PoolInit, NoParts
  <2>2. date \in Dates /\ faults \in 0 .. MaxFaults
    BY CountsAssumption DEF PoolInit, Dates
  <2>3. /\ posted \in [Workers -> Seq(Stations \cup {Nothing})]
        /\ received \in [Workers -> Seq({READY, DONE})]
    BY DEF PoolInit
  <2> QED BY <2>1, <2>2, <2>3 DEF PoolInit, PoolTypeOK, Alive
<1>2. Protocol /\ SomeoneHas /\ DatesBefore
  BY DEF PoolInit, Protocol, ProtocolOf, SomeoneHas, DatesBefore
<1>3. NothingInvented
  BY DEF PoolInit, NothingInvented, NoParts
<1>4. TakenInOrder /\ AllOfIt /\ ThreadsAreOver
  BY DEF PoolInit, TakenInOrder, AllOfIt, ThreadsAreOver, Over
<1> QED BY <1>1, <1>2, <1>3, <1>4 DEF PoolInv
-----------------------------------------------------------------------------
LEMMA TypesArePreserved ==
  ASSUME PoolTypeOK, [PoolNext]_pool PROVE PoolTypeOK'
<1> USE DEF PoolTypeOK
<1>1. ASSUME NEW w \in Workers, Start(w) PROVE PoolTypeOK'
  BY <1>1 DEF Start, Post, files, result, Alive
<1>2. ASSUME NEW w \in Workers, Take(w) PROVE PoolTypeOK'
  <2>1. /\ posted' \in [Workers -> Seq(Stations \cup {Nothing})]
        /\ Head(posted[w]) \in Stations \cup {Nothing}
    BY <1>2 DEF Take
  <2>2. thread' \in [Workers -> Alive \cup {"closed", "finished", "dead"}]
    BY <1>2 DEF Take, Alive
  <2>3. stream' \in [Workers -> SUBSET (Nat \ {0})]
    <3>1. CASE Head(posted[w]) = Nothing
      BY <1>2, <3>1 DEF Take
    <3>2. CASE Head(posted[w]) # Nothing
      <4>1. Found[<<Head(posted[w]), date>>] \in SUBSET (Nat \ {0})
        BY <2>1, <3>2, FoundType
      <4>2. stream' = [stream EXCEPT ![w] =
                         @ \cup Found[<<Head(posted[w]), date>>]]
        BY <1>2, <3>2 DEF Take
      <4> QED BY <4>1, <4>2
    <3> QED BY <3>1, <3>2
  <2> QED BY <1>2, <2>1, <2>2, <2>3 DEF Take, files, result
<1>3. ASSUME NEW w \in Workers, Stored(w) PROVE PoolTypeOK'
  BY <1>3 DEF Stored, Post, files, result, Alive
<1>4. ASSUME NEW w \in Workers, Closed(w) PROVE PoolTypeOK'
  <2>1. parts' \in [Dates -> [Workers -> SUBSET (Nat \ {0})]]
    BY <1>4 DEF Closed
  <2> QED BY <1>4, <2>1 DEF Closed, Post, result
<1>5. ASSUME NEW w \in Workers, Dies(w) PROVE PoolTypeOK'
  BY <1>5, CountsAssumption DEF Dies, Fault, channels, result
<1>6. ASSUME NEW w \in Workers, HandOut(w) PROVE PoolTypeOK'
  <2>1. Max(remaining) \in remaining /\ Max(remaining) \in Stations
    BY <1>6, NextStation DEF HandOut
  <2>2. posted' \in [Workers -> Seq(Stations \cup {Nothing})]
    BY <1>6, <2>1 DEF HandOut
  <2>3. taken' \subseteq Jobs
    BY <1>6, <2>1 DEF HandOut, Jobs
  <2>4. received' \in [Workers -> Seq({READY, DONE})]
    BY <1>6 DEF HandOut, Hears
  <2> QED BY <1>6, <2>2, <2>3, <2>4 DEF HandOut, files, result
<1>7. ASSUME NEW w \in Workers, TellNothingIsLeft(w) PROVE PoolTypeOK'
  BY <1>7 DEF TellNothingIsLeft, Hears, files, result
<1>8. ASSUME NEW w \in Workers, Finished(w) PROVE PoolTypeOK'
  BY <1>8 DEF Finished, Hears, files, result
<1>9. ASSUME NEW w \in Workers, NoticeDeath(w) PROVE PoolTypeOK'
  BY <1>9 DEF NoticeDeath, channels, files, result
<1>10. ASSUME NEW w \in Workers, Terminates(w) PROVE PoolTypeOK'
  BY <1>10 DEF Terminates, channels, result
<1>11. CASE Rethrow
  BY <1>11 DEF Rethrow, channels, files, result
<1>12. CASE NextDate
  <2>1. date' \in Dates
    BY <1>12, CountsAssumption DEF NextDate, Dates
  <2>2. thread' \in [Workers -> Alive \cup {"closed", "finished", "dead"}]
    BY <1>12 DEF NextDate, Alive
  <2>3. /\ posted' \in [Workers -> Seq(Stations \cup {Nothing})]
        /\ received' \in [Workers -> Seq({READY, DONE})]
        /\ stream' \in [Workers -> SUBSET (Nat \ {0})]
    BY <1>12 DEF NextDate
  <2> QED BY <1>12, <2>1, <2>2, <2>3 DEF NextDate, result
<1>13. CASE MergeParts
  <2>1. output' \subseteq Nat \ {0}
    BY <1>13 DEF MergeParts
  <2> QED BY <1>13, <2>1 DEF MergeParts, channels, files
<1>14. CASE WriteProvenance
  BY <1>14 DEF WriteProvenance, channels, files
<1>15. CASE RemoveWorkDir
  <2>1. directory' \in BOOLEAN
    BY <1>15 DEF RemoveWorkDir
  <2> QED BY <1>15, <2>1 DEF RemoveWorkDir, channels, files, result
<1>16. CASE WriteFails
  BY <1>16, CountsAssumption DEF WriteFails, Fault, channels, files, result
<1>17. CASE UNCHANGED pool
  BY <1>17 DEF pool, channels, files, result
<1> QED
  BY <1>1, <1>2, <1>3, <1>4, <1>5, <1>6, <1>7, <1>8, <1>9, <1>10, <1>11, <1>12,
     <1>13, <1>14, <1>15, <1>16, <1>17 DEF PoolNext, Works, Handles, Plans
-----------------------------------------------------------------------------
LEMMA UntouchedKeepsProtocol ==
  ASSUME NEW v \in Workers, ProtocolOf(v),
         thread'[v] = thread[v], posted'[v] = posted[v],
         received'[v] = received[v], remaining = {} => remaining' = {}
  PROVE  ProtocolOf(v)'
  BY DEF ProtocolOf

(* What a worker and the pool have on the way to each other. *)
LEMMA ProtocolIsKept ==
  ASSUME PoolTypeOK, Protocol, [PoolNext]_pool PROVE Protocol'
<1> SUFFICES ASSUME phase' = "planning", NEW v \in Workers
             PROVE  ProtocolOf(v)'
  BY DEF Protocol
<1> USE DEF PoolTypeOK
<1>0. ASSUME phase = "planning" PROVE \A u \in Workers : ProtocolOf(u)
  BY <1>0 DEF Protocol
<1>1. ASSUME NEW w \in Workers, Start(w) PROVE ProtocolOf(v)'
  <2>1. CASE v = w
    <3>1. /\ posted[w] = <<>> /\ received[w] = <<>>
      BY <1>0, <1>1 DEF Start, ProtocolOf
    <3>2. /\ thread'[w] = "waiting" /\ posted'[w] = <<>>
          /\ received'[w] = <<READY>> /\ remaining' = remaining
      BY <1>1, <3>1 DEF Start, Post
    <3> QED BY <2>1, <3>1, <3>2 DEF ProtocolOf
  <2>2. CASE v # w
    BY <1>0, <1>1, <2>2, UntouchedKeepsProtocol DEF Start, Post
  <2> QED BY <2>1, <2>2
<1>2. ASSUME NEW w \in Workers, Take(w) PROVE ProtocolOf(v)'
  <2>0. phase = "planning" /\ ProtocolOf(w)
    BY <1>0, <1>2 DEF Take
  <2>1. CASE v = w
    <3>1. PICK x \in Stations \cup {Nothing} :
            /\ received[w] = <<>> /\ posted[w] = <<x>>
            /\ x = Nothing => remaining = {}
      BY <1>2, <2>0 DEF Take, ProtocolOf
    <3>2. posted'[w] = <<>> /\ received'[w] = <<>> /\ remaining' = remaining
      BY <1>2, <3>1 DEF Take
    <3>3. CASE x = Nothing
      BY <1>2, <2>1, <3>1, <3>2, <3>3 DEF Take, ProtocolOf
    <3>4. CASE x # Nothing
      BY <1>2, <2>1, <3>1, <3>2, <3>4 DEF Take, ProtocolOf
    <3> QED BY <3>3, <3>4
  <2>2. CASE v # w
    <3>1. /\ thread'[v] = thread[v] /\ posted'[v] = posted[v]
          /\ received'[v] = received[v] /\ remaining' = remaining
      BY <1>2, <2>2 DEF Take
    <3> QED BY <1>0, <2>0, <3>1, UntouchedKeepsProtocol
  <2> QED BY <2>1, <2>2
<1>3. ASSUME NEW w \in Workers, Stored(w) PROVE ProtocolOf(v)'
  <2>1. CASE v = w
    <3>1. /\ posted[w] = <<>> /\ received[w] = <<>>
      BY <1>0, <1>3 DEF Stored, ProtocolOf
    <3>2. /\ thread'[w] = "waiting" /\ posted'[w] = <<>>
          /\ received'[w] = <<READY>> /\ remaining' = remaining
      BY <1>3, <3>1 DEF Stored, Post
    <3> QED BY <2>1, <3>1, <3>2 DEF ProtocolOf
  <2>2. CASE v # w
    BY <1>0, <1>3, <2>2, UntouchedKeepsProtocol DEF Stored, Post
  <2> QED BY <2>1, <2>2
<1>4. ASSUME NEW w \in Workers, Closed(w) PROVE ProtocolOf(v)'
  <2>1. CASE v = w
    <3>1. /\ posted[w] = <<>> /\ received[w] = <<>> /\ remaining = {}
      BY <1>0, <1>4 DEF Closed, ProtocolOf
    <3>2. /\ thread'[w] = "closed" /\ posted'[w] = <<>>
          /\ received'[w] = <<DONE>> /\ remaining' = remaining
      BY <1>4, <3>1 DEF Closed, Post
    <3> QED BY <2>1, <3>1, <3>2 DEF ProtocolOf
  <2>2. CASE v # w
    BY <1>0, <1>4, <2>2, UntouchedKeepsProtocol DEF Closed, Post
  <2> QED BY <2>1, <2>2
<1>5. ASSUME NEW w \in Workers, Dies(w) PROVE ProtocolOf(v)'
  <2>1. CASE v = w
    BY <1>0, <1>5, <2>1 DEF Dies, channels, ProtocolOf, Alive
  <2>2. CASE v # w
    BY <1>0, <1>5, <2>2, UntouchedKeepsProtocol DEF Dies, channels
  <2> QED BY <2>1, <2>2
<1>6. ASSUME NEW w \in Workers, HandOut(w) PROVE ProtocolOf(v)'
  <2>0. phase = "planning" /\ ProtocolOf(w) /\ ProtocolOf(v)
    BY <1>0, <1>6 DEF HandOut
  <2> DEFINE station == Max(remaining)
  <2>1. station \in Stations /\ station # Nothing
    BY <1>6, NextStation, StationsAreNumbers DEF HandOut, Nothing
  <2>2. /\ posted' = [posted EXCEPT ![w] = Append(@, station)]
        /\ received' = [received EXCEPT ![w] = Tail(@)]
        /\ received[w] # <<>> /\ Head(received[w]) = READY /\ remaining # {}
        /\ thread' = thread
    BY <1>6 DEF HandOut, Hears
  <2>3. CASE v = w
    <3>1. thread[w] \in {"waiting", "dead"} /\ received[w] = <<READY>>
      BY <2>0, <2>2 DEF ProtocolOf, READY, DONE, Alive
    <3>2. received'[w] = <<>>
      BY <2>2, <3>1
    <3>3. CASE thread[w] = "waiting"
      <4>1. posted'[w] = <<station>>
        BY <2>0, <2>2, <3>1, <3>3 DEF ProtocolOf
      <4> QED BY <2>1, <2>2, <2>3, <3>2, <3>3, <4>1 DEF ProtocolOf
    <3>4. CASE thread[w] = "dead"
      BY <2>2, <2>3, <3>2, <3>4 DEF ProtocolOf
    <3> QED BY <3>1, <3>3, <3>4
  <2>4. CASE v # w
    BY <2>0, <2>2, <2>4, UntouchedKeepsProtocol
  <2> QED BY <2>3, <2>4
<1>7. ASSUME NEW w \in Workers, TellNothingIsLeft(w) PROVE ProtocolOf(v)'
  <2>0. phase = "planning" /\ ProtocolOf(w) /\ ProtocolOf(v)
    BY <1>0, <1>7 DEF TellNothingIsLeft
  <2>2. /\ posted' = [posted EXCEPT ![w] = Append(@, Nothing)]
        /\ received' = [received EXCEPT ![w] = Tail(@)]
        /\ received[w] # <<>> /\ Head(received[w]) = READY /\ remaining = {}
        /\ thread' = thread /\ remaining' = remaining
    BY <1>7 DEF TellNothingIsLeft, Hears
  <2>3. CASE v = w
    <3>1. thread[w] \in {"waiting", "dead"} /\ received[w] = <<READY>>
      BY <2>0, <2>2 DEF ProtocolOf, READY, DONE, Alive
    <3>2. received'[w] = <<>>
      BY <2>2, <3>1
    <3>3. CASE thread[w] = "waiting"
      <4>1. posted'[w] = <<Nothing>>
        BY <2>0, <2>2, <3>1, <3>3 DEF ProtocolOf
      <4> QED BY <2>2, <2>3, <3>2, <3>3, <4>1 DEF ProtocolOf
    <3>4. CASE thread[w] = "dead"
      BY <2>2, <2>3, <3>2, <3>4 DEF ProtocolOf
    <3> QED BY <3>1, <3>3, <3>4
  <2>4. CASE v # w
    BY <2>0, <2>2, <2>4, UntouchedKeepsProtocol
  <2> QED BY <2>3, <2>4
<1>8. ASSUME NEW w \in Workers, Finished(w) PROVE ProtocolOf(v)'
  <2>0. phase = "planning" /\ ProtocolOf(w) /\ ProtocolOf(v)
    BY <1>0, <1>8 DEF Finished
  <2>1. CASE v = w
    <3>1. thread[w] = "closed" /\ received[w] = <<DONE>> /\ remaining = {}
      BY <1>8, <2>0 DEF Finished, Hears, ProtocolOf, READY, DONE, Alive
    <3>2. thread'[w] = "finished" /\ received'[w] = <<>> /\ remaining' = {}
      BY <1>8, <3>1 DEF Finished, Hears
    <3> QED BY <2>1, <3>2 DEF ProtocolOf
  <2>2. CASE v # w
    BY <1>8, <2>0, <2>2, UntouchedKeepsProtocol DEF Finished, Hears
  <2> QED BY <2>1, <2>2
<1>9. CASE NextDate
  BY <1>9 DEF NextDate, ProtocolOf
<1>10. CASE UNCHANGED pool
  BY <1>0, <1>10, UntouchedKeepsProtocol DEF pool, channels
<1>11. ~(Rethrow \/ MergeParts \/ WriteProvenance \/ RemoveWorkDir \/ WriteFails)
  BY DEF Rethrow, MergeParts, WriteProvenance, RemoveWorkDir, WriteFails
<1>12. \A w \in Workers : ~NoticeDeath(w) /\ ~Terminates(w)
  BY DEF NoticeDeath, Terminates
<1> QED
  BY <1>1, <1>2, <1>3, <1>4, <1>5, <1>6, <1>7, <1>8, <1>9, <1>10, <1>11, <1>12
     DEF PoolNext, Works, Handles, Plans
-----------------------------------------------------------------------------
LEMMA UntouchedStillHas ==
  ASSUME NEW v \in Workers, NEW s \in Stations, Has(v, s),
         thread'[v] = thread[v], posted'[v] = posted[v],
         stream'[v] = stream[v], parts'[date][v] = parts[date][v], date' = date
  PROVE  Has(v, s)'
  BY DEF Has

(* The workers were told that nothing is left, and have what was left. *)
LEMMA WhenAllHaveFinished ==
  ASSUME PoolInv, AllFinished
  PROVE  /\ remaining = {}
         /\ \A s \in Stations : \E w \in Workers :
              Found[<<s, date>>] \subseteq parts[date][w]
<1>1. /\ phase = "planning"
      /\ \A w \in Workers : thread[w] = "finished" /\ ProtocolOf(w)
  BY DEF AllFinished, PoolInv, Protocol
<1>2. remaining = {}
  BY <1>1, SomeWorker DEF ProtocolOf
<1>3. \A s \in Stations : \E w \in Workers : Has(w, s)
  BY <1>1, <1>2 DEF PoolInv, SomeoneHas
<1> QED BY <1>1, <1>2, <1>3 DEF Has

(* No station is forgotten while its date is planned. *)
LEMMA SomeoneStillHas ==
  ASSUME PoolInv, [PoolNext]_pool PROVE SomeoneHas'
<1> SUFFICES ASSUME phase' = "planning", NEW s \in Stations, s \notin remaining'
             PROVE  \E w \in Workers : Has(w, s)'
  BY DEF SomeoneHas
<1> USE DEF PoolTypeOK
<1>a. PoolTypeOK
  BY DEF PoolInv
<1>b. ASSUME phase = "planning", s \notin remaining
      PROVE  \E u \in Workers : Has(u, s) /\ ProtocolOf(u)
  BY <1>b DEF PoolInv, SomeoneHas, Protocol
<1>1. ASSUME NEW w \in Workers, Start(w) PROVE \E u \in Workers : Has(u, s)'
  <2>1. PICK u \in Workers : Has(u, s)
    BY <1>1, <1>b DEF Start
  <2>2. u # w
    BY <1>1, <2>1 DEF Start, Has
  <2>3. Has(u, s)'
    BY <1>a, <1>1, <2>1, <2>2, UntouchedStillHas DEF Start, files
  <2> QED BY <2>3
<1>2. ASSUME NEW w \in Workers, Take(w) PROVE \E u \in Workers : Has(u, s)'
  <2>1. PICK u \in Workers : Has(u, s) /\ ProtocolOf(u)
    BY <1>2, <1>b DEF Take
  <2>2. CASE u = w
    <3>1. PICK x \in Stations \cup {Nothing} : posted[w] = <<x>>
      BY <1>2, <2>1, <2>2 DEF Take, ProtocolOf
    <3>2. x = s \/ Found[<<s, date>>] \subseteq stream[w]
      BY <1>2, <2>1, <2>2, <3>1 DEF Take, Has
    <3>3. CASE x = Nothing
      <4>1. thread'[w] = "closing" /\ stream' = stream /\ date' = date
        BY <1>a, <1>2, <3>1, <3>3 DEF Take
      <4>2. s # Nothing
        BY StationsAreNumbers DEF Nothing
      <4> QED BY <3>2, <3>3, <4>1, <4>2 DEF Has
    <3>4. CASE x # Nothing
      <4>1. /\ thread'[w] = "storing" /\ date' = date
            /\ stream'[w] = stream[w] \cup Found[<<x, date>>]
        <5>1. Head(posted[w]) = x
          BY <3>1
        <5> QED BY <1>a, <1>2, <3>4, <5>1 DEF Take
      <4> QED BY <3>2, <4>1 DEF Has
    <3> QED BY <3>3, <3>4
  <2>3. CASE u # w
    <3>1. /\ thread'[u] = thread[u] /\ posted'[u] = posted[u] /\ date' = date
          /\ stream'[u] = stream[u] /\ parts' = parts
      BY <1>a, <1>2, <2>3 DEF Take
    <3> QED BY <2>1, <3>1, UntouchedStillHas
  <2> QED BY <2>2, <2>3
<1>3. ASSUME NEW w \in Workers, Stored(w) PROVE \E u \in Workers : Has(u, s)'
  <2>1. PICK u \in Workers : Has(u, s)
    BY <1>3, <1>b DEF Stored
  <2>2. CASE u = w
    <3>1. Found[<<s, date>>] \subseteq stream[w]
      BY <1>3, <2>1, <2>2 DEF Stored, Has
    <3>2. thread'[w] = "waiting" /\ stream' = stream /\ date' = date
      BY <1>a, <1>3 DEF Stored, files
    <3> QED BY <3>1, <3>2 DEF Has
  <2>3. CASE u # w
    BY <1>a, <1>3, <2>1, <2>3, UntouchedStillHas DEF Stored, files
  <2> QED BY <2>2, <2>3
<1>4. ASSUME NEW w \in Workers, Closed(w) PROVE \E u \in Workers : Has(u, s)'
  <2>1. PICK u \in Workers : Has(u, s)
    BY <1>4, <1>b DEF Closed
  <2>2. CASE u = w
    <3>1. Found[<<s, date>>] \subseteq stream[w]
      BY <1>4, <2>1, <2>2 DEF Closed, Has
    <3>2. thread'[w] = "closed" /\ parts'[date][w] = stream[w] /\ date' = date
      BY <1>a, <1>4 DEF Closed
    <3> QED BY <3>1, <3>2 DEF Has
  <2>3. CASE u # w
    <3>1. /\ thread'[u] = thread[u] /\ posted'[u] = posted[u] /\ date' = date
          /\ stream'[u] = stream[u] /\ parts'[date][u] = parts[date][u]
      BY <1>a, <1>4, <2>3 DEF Closed
    <3> QED BY <2>1, <3>1, UntouchedStillHas
  <2> QED BY <2>2, <2>3
<1>5. ASSUME NEW w \in Workers, Dies(w) PROVE \E u \in Workers : Has(u, s)'
  <2>1. thread'[w] = "dead"
    BY <1>a, <1>5 DEF Dies
  <2> QED BY <2>1 DEF Has
<1>6. ASSUME NEW w \in Workers, HandOut(w) PROVE \E u \in Workers : Has(u, s)'
  <2>0. phase = "planning" /\ ProtocolOf(w)
    BY <1>6 DEF HandOut, PoolInv, Protocol
  <2> DEFINE station == Max(remaining)
  <2>1. /\ posted' = [posted EXCEPT ![w] = Append(@, station)]
        /\ remaining' = remaining \ {station}
        /\ received[w] # <<>> /\ Head(received[w]) = READY
        /\ thread' = thread /\ date' = date /\ stream' = stream /\ parts' = parts
    BY <1>6 DEF HandOut, Hears, files
  <2>2. \/ thread[w] = "dead"
        \/ thread[w] = "waiting" /\ posted[w] = <<>>
    BY <1>a, <2>0, <2>1 DEF ProtocolOf, READY, DONE, Alive
  <2>3. CASE s = station
    <3>1. thread[w] = "waiting" => posted'[w] = <<s>>
      BY <1>a, <2>1, <2>2, <2>3
    <3> QED BY <2>1, <2>2, <3>1 DEF Has
  <2>4. CASE s # station
    <3>1. PICK u \in Workers : Has(u, s)
      BY <1>b, <2>0, <2>1, <2>4
    <3>2. CASE u = w
      BY <2>1, <2>2, <3>1, <3>2 DEF Has
    <3>3. CASE u # w
      BY <1>a, <2>1, <3>1, <3>3, UntouchedStillHas
    <3> QED BY <3>2, <3>3
  <2> QED BY <2>3, <2>4
<1>7. ASSUME NEW w \in Workers, TellNothingIsLeft(w)
      PROVE \E u \in Workers : Has(u, s)'
  <2>0. phase = "planning" /\ ProtocolOf(w)
    BY <1>7 DEF TellNothingIsLeft, PoolInv, Protocol
  <2>1. /\ posted' = [posted EXCEPT ![w] = Append(@, Nothing)]
        /\ remaining' = remaining
        /\ received[w] # <<>> /\ Head(received[w]) = READY
        /\ thread' = thread /\ date' = date /\ stream' = stream /\ parts' = parts
    BY <1>7 DEF TellNothingIsLeft, Hears, files
  <2>2. \/ thread[w] = "dead"
        \/ thread[w] = "waiting" /\ posted[w] = <<>>
    BY <1>a, <2>0, <2>1 DEF ProtocolOf, READY, DONE, Alive
  <2>3. PICK u \in Workers : Has(u, s)
    BY <1>b, <2>0, <2>1
  <2>4. CASE u = w
    BY <2>1, <2>2, <2>3, <2>4 DEF Has
  <2>5. CASE u # w
    BY <1>a, <2>1, <2>3, <2>5, UntouchedStillHas
  <2> QED BY <2>4, <2>5
<1>8. ASSUME NEW w \in Workers, Finished(w) PROVE \E u \in Workers : Has(u, s)'
  <2>0. phase = "planning" /\ ProtocolOf(w)
    BY <1>8 DEF Finished, PoolInv, Protocol
  <2>1. PICK u \in Workers : Has(u, s)
    BY <1>8, <1>b, <2>0 DEF Finished
  <2>2. thread[w] = "closed"
    BY <1>a, <1>8, <2>0 DEF Finished, Hears, ProtocolOf, READY, DONE, Alive
  <2>3. CASE u = w
    <3>1. Found[<<s, date>>] \subseteq parts[date][w]
      BY <2>1, <2>2, <2>3 DEF Has
    <3>2. thread'[w] = "finished" /\ parts' = parts /\ date' = date
      BY <1>a, <1>8 DEF Finished, files
    <3> QED BY <3>1, <3>2 DEF Has
  <2>4. CASE u # w
    BY <1>a, <1>8, <2>1, <2>4, UntouchedStillHas DEF Finished, files
  <2> QED BY <2>3, <2>4
<1>9. ~NextDate
  BY DEF NextDate
<1>10. CASE UNCHANGED pool
  BY <1>b, <1>10, UntouchedStillHas DEF pool, channels, files
<1>11. ~(Rethrow \/ MergeParts \/ WriteProvenance \/ RemoveWorkDir \/ WriteFails)
  BY DEF Rethrow, MergeParts, WriteProvenance, RemoveWorkDir, WriteFails
<1>12. \A w \in Workers : ~NoticeDeath(w) /\ ~Terminates(w)
  BY DEF NoticeDeath, Terminates
<1> QED
  BY <1>1, <1>2, <1>3, <1>4, <1>5, <1>6, <1>7, <1>8, <1>9, <1>10, <1>11, <1>12
     DEF PoolNext, Works, Handles, Plans
-----------------------------------------------------------------------------
(* What only one action writes, and what is left alone by the others. *)
LEMMA OnlyTheirOwn ==
  ASSUME [PoolNext]_pool
  PROVE  /\ phase' = "planning" => phase = "planning"
         /\ NextDate \/ date' = date
         /\ parts' = parts \/ \E w \in Workers : Closed(w)
         /\ \/ UNCHANGED <<taken, remaining>>
            \/ NextDate
            \/ \E w \in Workers : HandOut(w)
         /\ output' = output \/ MergeParts
<1> DEFINE Goal ==
      /\ phase' = "planning" => phase = "planning"
      /\ NextDate \/ date' = date
      /\ parts' = parts \/ \E w \in Workers : Closed(w)
      /\ \/ UNCHANGED <<taken, remaining>>
         \/ NextDate
         \/ \E w \in Workers : HandOut(w)
      /\ output' = output \/ MergeParts
<1>1. ASSUME NEW w \in Workers, Start(w) PROVE Goal
  BY <1>1 DEF Start, files, result
<1>2. ASSUME NEW w \in Workers, Take(w) PROVE Goal
  BY <1>2 DEF Take, result
<1>3. ASSUME NEW w \in Workers, Stored(w) PROVE Goal
  BY <1>3 DEF Stored, files, result
<1>4. ASSUME NEW w \in Workers, Closed(w) PROVE Goal
  BY <1>4 DEF Closed, result
<1>5. ASSUME NEW w \in Workers, Dies(w) PROVE Goal
  BY <1>5 DEF Dies, channels, result
<1>6. ASSUME NEW w \in Workers, HandOut(w) PROVE Goal
  BY <1>6 DEF HandOut, files, result
<1>7. ASSUME NEW w \in Workers, TellNothingIsLeft(w) PROVE Goal
  BY <1>7 DEF TellNothingIsLeft, files, result
<1>8. ASSUME NEW w \in Workers, Finished(w) PROVE Goal
  BY <1>8 DEF Finished, files, result
<1>9. ASSUME NEW w \in Workers, NoticeDeath(w) PROVE Goal
  BY <1>9 DEF NoticeDeath, channels, files, result
<1>10. ASSUME NEW w \in Workers, Terminates(w) PROVE Goal
  BY <1>10 DEF Terminates, channels, result
<1>11. CASE Rethrow
  BY <1>11 DEF Rethrow, channels, files, result
<1>12. CASE NextDate
  BY <1>12 DEF NextDate, result
<1>13. CASE MergeParts
  BY <1>13 DEF MergeParts, channels, files
<1>14. CASE WriteProvenance
  BY <1>14 DEF WriteProvenance, channels, files
<1>15. CASE RemoveWorkDir
  BY <1>15 DEF RemoveWorkDir, channels, files, result
<1>16. CASE WriteFails
  BY <1>16 DEF WriteFails, channels, files, result
<1>17. CASE UNCHANGED pool
  BY <1>17 DEF pool, channels, files, result
<1> QED
  BY <1>1, <1>2, <1>3, <1>4, <1>5, <1>6, <1>7, <1>8, <1>9, <1>10, <1>11, <1>12,
     <1>13, <1>14, <1>15, <1>16, <1>17 DEF PoolNext, Works, Handles, Plans

(* A file that was closed for a date stays as it is. *)
LEMMA DatesBeforeAreKept ==
  ASSUME PoolInv, [PoolNext]_pool PROVE DatesBefore'
<1> SUFFICES ASSUME phase' = "planning", NEW day \in 1 .. date' - 1,
                    NEW s \in Stations
             PROVE  \E w \in Workers : Found[<<s, day>>] \subseteq parts'[day][w]
  BY DEF DatesBefore
<1>0. PoolTypeOK /\ date \in Nat /\ date' \in Nat
  BY TypesArePreserved DEF PoolInv, PoolTypeOK, Dates
<1>1. CASE NextDate
  <2>1. /\ date' = date + 1 /\ parts' = parts /\ AllFinished
        /\ phase = "planning"
    BY <1>1 DEF NextDate, AllFinished
  <2>2. CASE day = date
    BY <2>1, <2>2, WhenAllHaveFinished
  <2>3. CASE day # date
    <3>1. day \in 1 .. date - 1
      BY <1>0, <2>1, <2>3
    <3> QED BY <2>1, <3>1 DEF PoolInv, DatesBefore
  <2> QED BY <2>2, <2>3
<1>2. CASE ~NextDate
  <2>1. date' = date /\ phase = "planning" /\ day \in 1 .. date - 1
    BY <1>2, OnlyTheirOwn
  <2>2. \A w \in Workers : parts'[day][w] = parts[day][w]
    <3>1. ASSUME NEW w \in Workers, Closed(w) PROVE parts'[day] = parts[day]
      <4>1. day # date /\ day \in Dates
        BY <1>0, <2>1, CountsAssumption DEF PoolTypeOK, Dates
      <4> QED BY <1>0, <3>1, <4>1 DEF Closed, PoolTypeOK
    <3> QED BY <3>1, OnlyTheirOwn
  <2> QED BY <2>1, <2>2 DEF PoolInv, DatesBefore
<1> QED BY <1>1, <1>2

(* No file holds what no station of its date has. *)
LEMMA NothingIsInvented ==
  ASSUME PoolInv, [PoolNext]_pool PROVE NothingInvented'
<1>0. PoolTypeOK /\ NothingInvented /\ date \in Dates
  BY DEF PoolInv, PoolTypeOK
<1>1. ASSUME NEW w \in Workers, Take(w) PROVE NothingInvented'
  <2>1. Head(posted[w]) \in Stations \cup {Nothing}
    BY <1>0, <1>1 DEF Take, PoolTypeOK
  <2>2. /\ parts' = parts /\ date' = date
        /\ \A v \in Workers : v # w => stream'[v] = stream[v]
    BY <1>0, <1>1 DEF Take, PoolTypeOK
  <2>3. stream'[w] \subseteq PlannedFor(date)
    <3>1. CASE Head(posted[w]) = Nothing
      BY <1>0, <1>1, <3>1 DEF Take, NothingInvented
    <3>2. CASE Head(posted[w]) # Nothing
      <4>1. stream'[w] = stream[w] \cup Found[<<Head(posted[w]), date>>]
        BY <1>0, <1>1, <3>2 DEF Take, PoolTypeOK
      <4>2. Found[<<Head(posted[w]), date>>] \subseteq PlannedFor(date)
        BY <2>1, <3>2 DEF PlannedFor
      <4> QED BY <1>0, <4>1, <4>2 DEF NothingInvented
    <3> QED BY <3>1, <3>2
  <2> QED BY <1>0, <2>2, <2>3 DEF NothingInvented, PlannedFor
<1>2. ASSUME NEW w \in Workers, Closed(w) PROVE NothingInvented'
  <2>1. /\ stream' = [stream EXCEPT ![w] = {}]
        /\ parts' = [parts EXCEPT ![date][w] = stream[w]] /\ date' = date
    BY <1>2 DEF Closed
  <2>2. ASSUME NEW v \in Workers PROVE stream'[v] \subseteq PlannedFor(date)
    BY <1>0, <2>1 DEF NothingInvented, PoolTypeOK
  <2>3. ASSUME NEW day \in Dates, NEW v \in Workers
        PROVE  parts'[day][v] \subseteq PlannedFor(day)
    <3>1. CASE day = date /\ v = w
      BY <1>0, <2>1, <3>1 DEF NothingInvented, PoolTypeOK
    <3>2. CASE ~(day = date /\ v = w)
      <4>1. parts'[day][v] = parts[day][v]
        BY <1>0, <2>1, <3>2 DEF PoolTypeOK
      <4> QED BY <1>0, <4>1 DEF NothingInvented
    <3> QED BY <3>1, <3>2
  <2> QED BY <2>1, <2>2, <2>3 DEF NothingInvented, PlannedFor
<1>3. ASSUME NEW w \in Workers, Dies(w) \/ Terminates(w) PROVE NothingInvented'
  <2>1. stream' = [stream EXCEPT ![w] = {}] /\ parts' = parts /\ date' = date
    BY <1>3 DEF Dies, Terminates
  <2> QED BY <1>0, <2>1 DEF NothingInvented, PlannedFor, PoolTypeOK
<1>4. CASE NextDate
  BY <1>0, <1>4 DEF NextDate, NothingInvented, PlannedFor
<1>5. ASSUME UNCHANGED <<stream, parts, date>> PROVE NothingInvented'
  BY <1>0, <1>5 DEF NothingInvented, PlannedFor
<1> QED
  BY <1>1, <1>2, <1>3, <1>4, <1>5
     DEF PoolNext, Works, Handles, Plans, Start, Stored, HandOut,
         TellNothingIsLeft, Finished, NoticeDeath, Rethrow, MergeParts,
         WriteProvenance, RemoveWorkDir, WriteFails, pool, files
(* Stations are taken date by date, each date's when it is its turn. *)
LEMMA TakenStaysInOrder ==
  ASSUME PoolInv, [PoolNext]_pool PROVE TakenInOrder'
<1>0. /\ PoolTypeOK /\ date \in Nat \ {0}
      /\ taken = (Stations \X (1 .. date - 1)) \cup
                 ((Stations \ remaining) \X {date})
  BY DEF PoolInv, PoolTypeOK, Dates, TakenInOrder
<1>1. CASE NextDate
  <2>1. /\ date' = date + 1 /\ taken' = taken /\ remaining' = Stations
        /\ AllFinished
    BY <1>1 DEF NextDate, AllFinished
  <2>2. remaining = {}
    BY <2>1, WhenAllHaveFinished
  <2>3. 1 .. date' - 1 = (1 .. date - 1) \cup {date}
    BY <1>0, <2>1
  <2>4. taken' = Stations \X (1 .. date' - 1)
    BY <1>0, <2>1, <2>2, <2>3
  <2>5. (Stations \ remaining') \X {date'} = {}
    BY <2>1
  <2> QED BY <2>4, <2>5 DEF TakenInOrder
<1>2. ASSUME NEW w \in Workers, HandOut(w) PROVE TakenInOrder'
  <2> DEFINE station == Max(remaining)
  <2>1. station \in remaining /\ station \in Stations
    BY <1>0, <1>2, NextStation DEF HandOut, PoolTypeOK
  <2>2. /\ taken' = taken \cup {<<station, date>>} /\ date' = date
        /\ remaining' = remaining \ {station}
    BY <1>2 DEF HandOut
  <2>3. Stations \ remaining' = (Stations \ remaining) \cup {station}
    BY <2>1, <2>2
  <2> HIDE DEF station
  <2>4. (Stations \ remaining') \X {date'} =
          ((Stations \ remaining) \X {date}) \cup {<<station, date>>}
    BY <2>2, <2>3
  <2> QED BY <1>0, <2>2, <2>4 DEF TakenInOrder
<1>3. ASSUME UNCHANGED <<taken, remaining, date>> PROVE TakenInOrder'
  BY <1>0, <1>3 DEF TakenInOrder
<1> QED BY <1>1, <1>2, <1>3, OnlyTheirOwn

LEMMA AllIsTaken ==
  ASSUME PoolInv, AllFinished, date = DateCount PROVE taken = Jobs
<1>1. remaining = {} /\ date \in Nat \ {0}
  BY WhenAllHaveFinished, CountsAssumption
<1>2. (1 .. date - 1) \cup {date} = 1 .. DateCount
  BY <1>1
<1> QED BY <1>1, <1>2 DEF PoolInv, TakenInOrder, Jobs, Dates

LEMMA PartsAreAll ==
  ASSUME PoolInv, AllFinished, date = DateCount
  PROVE  UNION {parts[day][w] : day \in Dates, w \in Workers} =
         UNION {Found[job] : job \in Jobs}
<1>1. ASSUME NEW day \in Dates, NEW w \in Workers, NEW p \in parts[day][w]
      PROVE  \E job \in Jobs : p \in Found[job]
  <2>1. PICK s \in Stations : p \in Found[<<s, day>>]
    BY <1>1 DEF PoolInv, NothingInvented, PlannedFor
  <2> QED BY <2>1 DEF Jobs
<1>2. ASSUME NEW job \in Jobs, NEW p \in Found[job]
      PROVE  \E day \in Dates, w \in Workers : p \in parts[day][w]
  <2>1. PICK s \in Stations, day \in Dates : job = <<s, day>>
    BY DEF Jobs
  <2>2. day = date \/ day \in 1 .. date - 1
    BY <2>1, CountsAssumption DEF Dates
  <2>3. phase = "planning"
    BY DEF AllFinished
  <2>4. \E w \in Workers : Found[<<s, day>>] \subseteq parts[day][w]
    BY <2>2, <2>3, WhenAllHaveFinished DEF PoolInv, DatesBefore
  <2> QED BY <2>1, <2>4
<1> QED BY <1>1, <1>2

(* A file that is there holds all of it. *)
LEMMA AllOfItIsKept ==
  ASSUME PoolInv, [PoolNext]_pool PROVE AllOfIt'
<1>1. CASE MergeParts
  BY <1>1, AllIsTaken, PartsAreAll DEF MergeParts, AllOfIt
<1>2. CASE ~MergeParts
  <2> SUFFICES ASSUME phase' \in {"noting", "finishing", "planned"}
               PROVE  /\ phase \in {"noting", "finishing", "planned"}
                      /\ taken' = taken /\ output' = output
    BY DEF PoolInv, AllOfIt
  <2>1. ASSUME NEW w \in Workers, Works(w) \/ Handles(w) \/ Dies(w)
        PROVE  phase' = phase /\ taken' = taken
    BY <2>1 DEF Works, Handles, Start, Take, Stored, Closed, Dies, HandOut, Hears,
      TellNothingIsLeft, Finished, NoticeDeath, Terminates
  <2>2. CASE WriteProvenance
    BY <2>2 DEF WriteProvenance
  <2>3. CASE RemoveWorkDir
    BY <2>3 DEF RemoveWorkDir, result
  <2>4. ~(Rethrow \/ NextDate \/ WriteFails)
    BY DEF Rethrow, NextDate, WriteFails, AllFinished
  <2>5. CASE UNCHANGED pool
    BY <2>5 DEF pool, result
  <2>6. output' = output
    BY <1>2, OnlyTheirOwn
  <2> QED BY <1>2, <2>1, <2>2, <2>3, <2>4, <2>5, <2>6 DEF PoolNext, Plans
<1> QED BY <1>1, <1>2

(* When the plan is past its workers, they are. *)
LEMMA ThreadsStayOver ==
  ASSUME PoolInv, [PoolNext]_pool PROVE ThreadsAreOver'
<1>0. /\ thread \in [Workers -> Alive \cup {"closed", "finished", "dead"}]
      /\ Over => \A w \in Workers : thread[w] \in {"dead", "finished"}
      /\ ~directory => Over
  BY DEF PoolInv, PoolTypeOK, ThreadsAreOver
<1>1. ASSUME NEW w \in Workers, Works(w) \/ Dies(w) \/ Terminates(w)
      PROVE  ThreadsAreOver'
  <2>1. phase' = phase /\ directory' = directory
    BY <1>1 DEF Works, Start, Take, Stored, Closed, Dies, Terminates, files
  <2>2. thread[w] \in Alive \/ ~Over
    BY <1>1 DEF Works, Start, Take, Stored, Closed, Dies, Terminates, Alive, Over
  <2>3. ~Over
    BY <1>0, <2>2 DEF Alive
  <2> QED BY <1>0, <2>1, <2>3 DEF ThreadsAreOver, Over
<1>2. ASSUME NEW w \in Workers,
             HandOut(w) \/ TellNothingIsLeft(w) \/ Finished(w) \/ NoticeDeath(w)
      PROVE  ThreadsAreOver'
  <2>1. ~Over /\ directory' = directory /\ phase' \in {"planning", "stopping"}
    BY <1>2 DEF HandOut, TellNothingIsLeft, Finished, NoticeDeath, Hears, Over, files
  <2> QED BY <1>0, <2>1 DEF ThreadsAreOver, Over
<1>3. CASE Rethrow \/ MergeParts \/ WriteProvenance \/ RemoveWorkDir \/ WriteFails
  BY <1>0, <1>3 DEF Rethrow, MergeParts, WriteProvenance, RemoveWorkDir, WriteFails,
    AllFinished, ThreadsAreOver, Over, files
<1>4. CASE NextDate
  BY <1>0, <1>4 DEF NextDate, AllFinished, ThreadsAreOver, Over
<1>5. CASE UNCHANGED pool
  BY <1>0, <1>5 DEF pool, files, ThreadsAreOver, Over
<1> QED
  BY <1>1, <1>2, <1>3, <1>4, <1>5 DEF PoolNext, Works, Handles, Plans

LEMMA PoolInvIsKept == PoolInv /\ [PoolNext]_pool => PoolInv'
<1> SUFFICES ASSUME PoolInv, [PoolNext]_pool PROVE PoolInv'
  OBVIOUS
<1>1. PoolTypeOK' /\ Protocol'
  BY TypesArePreserved, ProtocolIsKept DEF PoolInv
<1>2. SomeoneHas' /\ DatesBefore' /\ NothingInvented'
  BY SomeoneStillHas, DatesBeforeAreKept, NothingIsInvented
<1>3. TakenInOrder' /\ AllOfIt' /\ ThreadsAreOver'
  BY TakenStaysInOrder, AllOfItIsKept, ThreadsStayOver
<1> QED BY <1>1, <1>2, <1>3 DEF PoolInv
-----------------------------------------------------------------------------
LEMMA PlanningStarts == PoolInit => Planner!Init
  BY DEF PoolInit, Planner!Init, Outcome

(* Every step of the pool is one of PlanStations, or shows nothing of it. *)
LEMMA PlanningGoesOn ==
  ASSUME PoolInv, [PoolNext]_pool PROVE [Planner!Next]_(Planner!vars)
<1>1. ASSUME NEW w \in Workers, HandOut(w) PROVE Planner!Next
  <2> DEFINE job == <<Max(remaining), date>>
  <2>1. Max(remaining) \in remaining /\ Max(remaining) \in Stations
    BY <1>1, NextStation DEF HandOut, PoolInv, PoolTypeOK
  <2>2. job \in Jobs /\ job \notin taken
    <3>1. date \in Dates /\ date \in Nat
      BY DEF PoolInv, PoolTypeOK, Dates
    <3>2. job \notin Stations \X (1 .. date - 1)
      BY <3>1
    <3>3. job \notin (Stations \ remaining) \X {date}
      BY <2>1
    <3> QED BY <2>1, <3>1, <3>2, <3>3 DEF PoolInv, TakenInOrder, Jobs
  <2>3. /\ taken' = taken \cup {job} /\ output' = output /\ phase' = phase
        /\ phase \in {"planning", "stopping"}
    BY <1>1 DEF HandOut, Hears, result
  <2>4. Planner!Take(job)
    BY <2>2, <2>3 DEF Planner!Take, Outcome
  <2> QED BY <2>2, <2>4 DEF Planner!Next
<1>2. CASE MergeParts
  <2>1. taken = Jobs /\ output' = UNION {Found[job] : job \in Jobs}
    BY <1>2, AllIsTaken, PartsAreAll DEF MergeParts
  <2>2. phase = "planning" /\ phase' = "noting" /\ taken' = taken
    BY <1>2 DEF MergeParts, AllFinished
  <2>3. Planner!Write
    BY <2>1, <2>2 DEF Planner!Write, Outcome
  <2> QED BY <2>3 DEF Planner!Next
<1>3. CASE RemoveWorkDir
  <2>1. taken' = taken /\ output' = output
    BY <1>3 DEF RemoveWorkDir, result
  <2>2. CASE phase = "finishing"
    <3>1. phase' = "planned" /\ taken = Jobs
          /\ output = UNION {Found[job] : job \in Jobs}
      BY <1>3, <2>2 DEF RemoveWorkDir, PoolInv, AllOfIt
    <3>2. Planner!Succeed
      BY <2>1, <2>2, <3>1 DEF Planner!Succeed, Outcome
    <3> QED BY <3>2 DEF Planner!Next
  <2>3. CASE phase = "failing"
    <3>1. phase' = "failed"
      BY <1>3, <2>3 DEF RemoveWorkDir
    <3>2. Planner!Fail
      BY <2>1, <2>3, <3>1 DEF Planner!Fail, Outcome
    <3> QED BY <3>2 DEF Planner!Next
  <2> QED BY <1>3, <2>2, <2>3 DEF RemoveWorkDir
<1>4. ASSUME UNCHANGED <<taken, output>>,
             phase' = phase \/ {phase, phase'} \cap {"planned", "failed"} = {}
      PROVE  UNCHANGED Planner!vars
  BY <1>4 DEF Planner!vars, Outcome
<1>5. ASSUME NEW w \in Workers,
             \/ Works(w) \/ Dies(w) \/ TellNothingIsLeft(w) \/ Finished(w)
             \/ NoticeDeath(w) \/ Terminates(w)
      PROVE  UNCHANGED Planner!vars
  <2>1. /\ UNCHANGED <<taken, output>>
        /\ phase' = phase \/ (phase = "planning" /\ phase' = "stopping")
    <3>1. CASE Works(w)
      BY <3>1 DEF Works, Start, Take, Stored, Closed, files, result
    <3>2. CASE Dies(w) \/ TellNothingIsLeft(w) \/ Finished(w)
      BY <3>2 DEF Dies, TellNothingIsLeft, Finished, channels, files, result
    <3>3. CASE NoticeDeath(w) \/ Terminates(w)
      BY <3>3 DEF NoticeDeath, Terminates, channels, files, result
    <3> QED BY <1>5, <3>1, <3>2, <3>3
  <2> QED BY <1>4, <2>1
<1>6. CASE Rethrow \/ NextDate \/ WriteProvenance \/ WriteFails
  <2>1. /\ UNCHANGED <<taken, output>>
        /\ phase \in {"stopping", "planning", "noting"}
        /\ phase' \in {"failing", "planning", "finishing"}
    BY <1>6 DEF Rethrow, NextDate, WriteProvenance, WriteFails, AllFinished, result
  <2> QED BY <1>4, <2>1
<1>7. CASE UNCHANGED pool
  BY <1>4, <1>7 DEF pool, result
<1> QED BY <1>1, <1>2, <1>3, <1>5, <1>6, <1>7 DEF PoolNext, Handles, Plans
-----------------------------------------------------------------------------
(* The merge begins when the shard is planned, and reads what was written. *)
ReadsWhatWasPlanned ==
  stage # "waiting" =>
    phase = "planned" /\ \A i \in DOMAIN inputs : Genuine(inputs[i])

Invariant == PoolInv /\ Inv /\ ReadsWhatWasPlanned

LEMMA InvariantHolds == Spec => []Invariant
<1>1. Init => Invariant
  <2> SUFFICES ASSUME Init PROVE Invariant
    OBVIOUS
  <2>1. PoolInv /\ Inv
    BY PoolInitHolds, InitHolds DEF Init
  <2>2. ReadsWhatWasPlanned
    BY DEF Init, MergeInit, ReadsWhatWasPlanned
  <2> QED BY <2>1, <2>2 DEF Invariant
<1>2. Invariant /\ [Next]_vars => Invariant'
  <2> SUFFICES ASSUME Invariant, [Next]_vars PROVE Invariant'
    OBVIOUS
  <2>1. [PoolNext]_pool /\ [Opens \/ MergeNext]_merge
    BY DEF Next, vars, OpenShards, Opens
  <2>2. PoolInv' /\ Inv'
    BY <2>1, PoolInvIsKept, StepHolds DEF Invariant
  <2>3. CASE OpenShards
    <3>1. /\ phase' = "planned" /\ output' = output
          /\ \A i \in DOMAIN inputs' : Genuine(inputs'[i])
      BY <2>3 DEF OpenShards, Open, pool, result
    <3>2. \A shard : Genuine(shard) => Genuine(shard)'
      BY <3>1 DEF Genuine
    <3>3. ReadsWhatWasPlanned'
      BY <3>1, <3>2 DEF ReadsWhatWasPlanned, Genuine
    <3> QED BY <2>2, <3>3 DEF Invariant
  <2>4. CASE ~OpenShards
    <3>1. (stage' # "waiting" => stage # "waiting") /\ inputs' = inputs
      BY <2>4 DEF Next, vars, merge, MergeNext, Advance, Finish, ReadFails
    <3>2. phase = "planned" => phase' = phase /\ output' = output
      <4> SUFFICES ASSUME phase = "planned"
                   PROVE  phase' = phase /\ output' = output
        OBVIOUS
      <4>1. \A w \in Workers : thread[w] \in {"dead", "finished"}
        BY DEF Invariant, PoolInv, ThreadsAreOver, Over
      <4>2. ASSUME NEW w \in Workers PROVE ~Works(w) /\ ~Dies(w)
        BY <4>1 DEF Works, Start, Take, Stored, Closed, Dies, Alive
      <4>3. ASSUME NEW w \in Workers PROVE ~Handles(w)
        BY DEF Handles, HandOut, TellNothingIsLeft, Finished, Hears, NoticeDeath,
          Terminates
      <4>4. ~Plans /\ ~WriteFails
        BY DEF Plans, Rethrow, NextDate, MergeParts, WriteProvenance, RemoveWorkDir,
          WriteFails, AllFinished
      <4> QED BY <2>1, <4>2, <4>3, <4>4 DEF PoolNext, pool, result
    <3>3. ASSUME stage' # "waiting" PROVE phase' = "planned" /\ output' = output
                 /\ \A i \in DOMAIN inputs : Genuine(inputs[i])
      BY <3>1, <3>2, <3>3 DEF Invariant, ReadsWhatWasPlanned
    <3>4. ReadsWhatWasPlanned'
      BY <3>1, <3>3 DEF ReadsWhatWasPlanned, Genuine
    <3> QED BY <2>2, <3>4 DEF Invariant
  <2> QED BY <2>3, <2>4
<1> QED BY <1>1, <1>2, PTL DEF Spec

(***************************************************************************)
(* planOnWorkers and merge are well typed: no worker is sent what is no    *)
(* station of its shard, and no date is planned past the last.             *)
(***************************************************************************)
THEOREM TypeInvariant == Spec => []TypeOK
<1>1. Invariant => TypeOK
  BY DEF Invariant, PoolInv, Inv, TypeOK
<1> QED BY <1>1, InvariantHolds, PTL

(***************************************************************************)
(* planOnWorkers: the work directory is there for as long as some worker   *)
(* holds its file in it open, whichever of them die and when.              *)
(***************************************************************************)
THEOREM NoFileIsTakenAway == Spec => []NoFileTakenAway
<1>1. Invariant => NoFileTakenAway
  BY DEF Invariant, PoolInv, ThreadsAreOver, NoFileTakenAway
<1> QED BY <1>1, InvariantHolds, PTL

(***************************************************************************)
(* plan: the pool's every step is a step of PlanStations or a stutter, so  *)
(* no station is planned twice for a date and a shard that is delivered is *)
(* whole.  It is PlansTheShard without its fairness.                       *)
(***************************************************************************)
THEOREM ThePoolPlans == Spec => Planner!Init /\ [][Planner!Next]_(Planner!vars)
<1>1. Init => Planner!Init
  BY PlanningStarts DEF Init
<1>2. Invariant /\ [Next]_vars => [Planner!Next]_(Planner!vars)
  <2> SUFFICES ASSUME Invariant, [Next]_vars
               PROVE  [Planner!Next]_(Planner!vars)
    OBVIOUS
  <2>1. [PoolNext]_pool
    BY DEF Next, vars, OpenShards
  <2> QED BY <2>1, PlanningGoesOn DEF Invariant
<1> QED BY <1>1, <1>2, InvariantHolds, PTL DEF Spec

(***************************************************************************)
(* merge: among whatever else goes on in the build, what is written is in  *)
(* order and what a merge that succeeds wrote is the union of its shards.  *)
(***************************************************************************)
THEOREM TheBuildMergesTheUnion == Spec => []MergeIsTheUnion
<1>1. Invariant => MergeIsTheUnion
  BY InvImpliesTheUnion DEF Invariant
<1> QED BY <1>1, InvariantHolds, PTL

(* Every station has its place in one of the shards. *)
LEMMA ShardsCoverTheStations ==
  \A s \in 1 .. StationCount : \E n \in 1 .. ShardCount : s \in Shard(n)
<1> SUFFICES ASSUME NEW s \in 1 .. StationCount
             PROVE  \E n \in 1 .. ShardCount : s \in Shard(n)
  OBVIOUS
<1>1. ShardCount \in Nat /\ ShardCount > 0 /\ s - 1 \in Nat
  BY CountsAssumption
<1>2. (s - 1) % ShardCount \in 0 .. ShardCount - 1
  BY <1>1
<1> DEFINE n == ((s - 1) % ShardCount) + 1
<1>3. n \in 1 .. ShardCount /\ (s - 1) % ShardCount = n - 1
  BY <1>1, <1>2
<1> QED BY <1>3 DEF Shard

(***************************************************************************)
(* The nightly build, for any feed and any split of it: the shards of one  *)
(* run, all of them given, merge to every pattern that any station has on  *)
(* any date, and to nothing else.                                          *)
(***************************************************************************)
THEOREM TonightIsWhole == Spec => []MergedIsTonight
<1>1. Invariant => MergedIsTonight
  <2> DEFINE numbers == {inputs[i].number : i \in DOMAIN inputs}
  <2> SUFFICES ASSUME Invariant, stage = "merged", numbers = 1 .. ShardCount,
                      \A i \in DOMAIN inputs : inputs[i].run = Tonight
               PROVE  Range(merged) = UNION {Found[job] : job \in DOMAIN Found}
    BY DEF MergedIsTonight
  <2>1. Range(merged) = UNION {Range(inputs[i].patterns) : i \in DOMAIN inputs}
    BY InvImpliesTheUnion DEF Invariant, MergeIsTheUnion, MergedWhole
  <2>2. output = PatternsOf(1)
    BY DEF Invariant, ReadsWhatWasPlanned, PoolInv, AllOfIt, Jobs, Stations,
           PatternsOf
  <2>3. \A i \in DOMAIN inputs : Range(inputs[i].patterns) = PatternsOf(inputs[i].number)
    BY <2>2 DEF Invariant, ReadsWhatWasPlanned, Genuine
  <2>4. Range(merged) = UNION {PatternsOf(n) : n \in 1 .. ShardCount}
    BY <2>1, <2>3
  <2>5. DOMAIN Found = (1 .. StationCount) \X Dates
    BY FoundAssumption DEF Dates
  <2>6. ASSUME NEW job \in DOMAIN Found
        PROVE  \E n \in 1 .. ShardCount : job \in Shard(n) \X Dates
    BY <2>5, ShardsCoverTheStations
  <2>7. \A n : Shard(n) \X Dates \subseteq DOMAIN Found
    BY <2>5 DEF Shard
  <2> QED BY <2>4, <2>6, <2>7 DEF PatternsOf
<1> QED BY <1>1, InvariantHolds, PTL
=============================================================================
