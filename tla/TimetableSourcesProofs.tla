------------------------ MODULE TimetableSourcesProofs ------------------------
(***************************************************************************)
(* Proofs about the importer and the file source reading the same feeds,   *)
(* for any trains, any number of feeds and records and any limit on the    *)
(* buffers.  The inductive invariant says of each key what the database    *)
(* holds, what waits to be sent and what was written; then come the        *)
(* statements, the records read, the file source, the steps and the        *)
(* theorems.                                                               *)
(***************************************************************************)
EXTENDS TimetableSources, FiniteSetTheorems, WellFoundedInduction, TLAPS

(* The actions a row is buffered under. *)
Acts == {"N", "R", "D"}

TableRow(keys) ==
  [id : Nat \ {0}, key : keys, live : BOOLEAN, n : Nat, calls : Calls("schedule")]

StopRow == [id : Nat, schedule : Nat, n : Nat, calls : Calls("schedule")]

(***************************************************************************)
(* The statement of an action sent and not yet run, and the rows of that   *)
(* action the database is still to be given: those sent, or those held     *)
(* back.                                                                   *)
(***************************************************************************)
SentFor(file, action) == {sent \in inFlight : sent.file = file /\ sent.action = action}

Only(sent) == CHOOSE one \in sent : TRUE

Waiting(file) ==
  [action \in Acts |->
     IF SentFor(file, action) # {}
     THEN Only(SentFor(file, action)).rows
     ELSE buffers[file][action]]

(***************************************************************************)
(* The keys of a table, and what an id is for: the rows held and the rows  *)
(* waiting to be inserted follow one another in the order they were read,  *)
(* and no two of them have one id.                                         *)
(***************************************************************************)
Unique(rows) ==
  \A row, other \in rows : row.id = other.id \/ row.key = other.key => row = other

InOrder(batch) ==
  \A i, j \in DOMAIN batch : i < j => batch[i].id < batch[j].id

Elements(batch) == {batch[i] : i \in DOMAIN batch}

All(rows, waiting) == rows \cup Elements(waiting["N"]) \cup Elements(waiting["R"])

IdsAreFresh(rows, waiting, last, read) ==
  /\ InOrder(waiting["N"]) /\ InOrder(waiting["R"])
  /\ \A row \in rows :
       \A other \in Elements(waiting["N"]) \cup Elements(waiting["R"]) : row.id # other.id
  /\ \A row \in Elements(waiting["N"]) :
       \A other \in Elements(waiting["R"]) : row.id # other.id
  /\ \A row \in All(rows, waiting) : row.id <= last /\ row.n <= read
  /\ \A row, other \in All(rows, waiting) : row.n < other.n <=> row.id < other.id

(***************************************************************************)
(* What a batch has to say of a key.  Of several inserts the first counts, *)
(* of several replacements the last.                                       *)
(***************************************************************************)
Mentions(batch, key) == \E i \in DOMAIN batch : batch[i].key = key

First(batch, key, row) ==
  \E i \in DOMAIN batch :
    /\ batch[i].key = key /\ Row(batch[i]) = row
    /\ \A j \in DOMAIN batch : j < i => batch[j].key # key

Final(batch, key, row) ==
  \E i \in DOMAIN batch :
    /\ batch[i].key = key /\ Row(batch[i]) = row
    /\ \A j \in DOMAIN batch : i < j => batch[j].key # key

LeftOf(key, rows) == {Row(row) : row \in RowsOf(key, rows)}

(***************************************************************************)
(* A key that the feed in hand did not both delete and give a row.  A      *)
(* deletion is in the database or waits; of a replacement either the last  *)
(* of those waiting is the row that was written, or it is there; and an    *)
(* insert counts only where there is nothing.                              *)
(***************************************************************************)
KeyIsRight(key, rows, waiting, given, written) ==
  LET should == RowsOf(key, written)
      is == LeftOf(key, rows)
  IN
  /\ <<key, "D">> \in given => should = {} /\ (Mentions(waiting["D"], key) \/ is = {})
  /\ <<key, "R">> \in given =>
       \E row \in should :
         /\ should = {row}
         /\ IF Mentions(waiting["R"], key) THEN Final(waiting["R"], key, row) ELSE is = {row}
  /\ <<key, "D">> \notin given /\ <<key, "R">> \notin given =>
       IF is = {} /\ Mentions(waiting["N"], key)
       THEN \E row \in should : should = {row} /\ First(waiting["N"], key, row)
       ELSE is = should

KeysAreRight(keys, rows, waiting, given, clash, written) ==
  \A key \in keys :
    /\ \A action \in Acts : Mentions(waiting[action], key) => <<key, action>> \in given
    /\ <<key, "D">> \in given /\ (<<key, "N">> \in given \/ <<key, "R">> \in given) => key \in clash
    /\ key \notin clash => KeyIsRight(key, rows, waiting, given, written)

(***************************************************************************)
(* The stops of a schedule, held or waiting, are its own, and a schedule   *)
(* that has calls has its stop.                                            *)
(***************************************************************************)
StopsAreTheirs(rows, waiting, last, stops, lastStop) ==
  /\ \A stop \in stops : stop.id <= lastStop /\ stop.schedule <= last
  /\ \A row \in All(rows, waiting) :
       /\ \A stop \in stops : stop.schedule = row.id => stop.n = row.n /\ stop.calls = row.calls
       /\ row.calls # "none" <=> \E stop \in stops : stop.schedule = row.id

NoOrphans(rows, stops) == \A stop \in stops : \E row \in rows : row.id = stop.schedule

Typed(keys, rows, waiting) ==
  /\ IsFiniteSet(rows) /\ rows \subseteq TableRow(keys) /\ Unique(rows)
  /\ waiting \in [Acts -> Seq(TableRow(keys))]

(* Where the importer stands with a file. *)
IsRight(keys, rows, waiting, last, read, given, clash, written, stops, lastStop) ==
  /\ Typed(keys, rows, waiting)
  /\ IdsAreFresh(rows, waiting, last, read)
  /\ KeysAreRight(keys, rows, waiting, given, clash, written)
  /\ IsFiniteSet(stops) /\ stops \subseteq StopRow
  /\ StopsAreTheirs(rows, waiting, last, stops, lastStop)

ImportIsRight(file) ==
  IsRight(Keys(file), db[file], Waiting(file), lastId[file], records,
          actions[file], clashed[file], asWritten[file],
          db[StopTable(file)], lastId[StopTable(file)])

(***************************************************************************)
(* What the timetable wants of the rows written, and what the file source  *)
(* has.                                                                    *)
(***************************************************************************)
Wanted(key, written, file) ==
  {<<row.n, row.calls>> : row \in {r \in RowsOf(key, written) :
      r.live /\ (r.calls = "station" \/ (r.calls = "none" /\ file = "schedule"))}}

Has(key, schedules) ==
  {<<schedule.n, schedule.calls>> : schedule \in {s \in schedules : s.key = key}}

(***************************************************************************)
(* Where the file source stands with a file: unless the key is shadowed it *)
(* has of each what is wanted of the rows as written, in order.            *)
(***************************************************************************)
SourceRow(file) ==
  [id : Nat \ {0}, file : {file}, key : Keys(file), n : Nat, calls : Calls("schedule")]

Mine(file) == kept[file] \cup {schedule \in pending : schedule.file = file}

SourceIsRight(file) ==
  /\ \A key \in Keys(file) \ shadowed[file] :
       Has(key, Stored[file]) = Wanted(key, asWritten[file], file)
  /\ Mine(file) \subseteq SourceRow(file)
  /\ \A one \in Mine(file) : one.id <= sourceId[file] /\ one.n <= records
  /\ \A one, other \in Mine(file) : one.n < other.n <=> one.id < other.id
  /\ \A schedule \in kept[file] : Yields(schedule)

(* Where the readers are, and what that says of what they hold. *)
Shapes ==
  /\ DOMAIN db = Tables
  /\ DOMAIN buffers = Files /\ \A file \in Files : DOMAIN buffers[file] = Acts
  /\ DOMAIN kept = Files
  /\ DOMAIN asWritten = Files /\ DOMAIN actions = Files
  /\ DOMAIN clashed = Files /\ DOMAIN shadowed = Files

WhereItIs ==
  /\ \A one, other \in pending : one = other
  /\ \A schedule \in pending : stage \in Files /\ schedule.file = stage
  /\ \A sent \in inFlight :
       /\ sent.file \in Files /\ sent.action \in Acts /\ sent.rows # <<>>
       /\ sent.file = "z_schedule" => stage = "closing"
       /\ stage = "closing" \/ (stage = "z_schedule" /\ sent.file = "schedule")
  /\ \A one, other \in inFlight :
       one.file = other.file /\ one.action = other.action => one = other
  /\ \A file \in Files : \A action \in Acts : Len(buffers[file][action]) < FlushLimit
  /\ stage # "schedule" => buffers["schedule"] = Nothing["schedule"]
  /\ stage # "z_schedule" => buffers["z_schedule"] = Nothing["z_schedule"]
  /\ lastId \in [Counted -> Nat]
  /\ feeds = 0 =>
       /\ stage = "between feeds" /\ records = 0 /\ pending = {}
       /\ kept = [file \in Files |-> {}] /\ asWritten = [file \in Files |-> {}]
       /\ clashed = asWritten /\ shadowed = asWritten

(* The inductive invariant. *)
IInv ==
  /\ TypeOK
  /\ Shapes
  /\ WhereItIs
  /\ feeds > 0 => \A file \in Files : ImportIsRight(file) /\ SourceIsRight(file)
  /\ feeds > 0 /\ stage = "between feeds" =>
       \A file \in Files : NoOrphans(db[file], db[StopTable(file)])
-----------------------------------------------------------------------------
(* A set of naturals has a least. *)
LEMMA LeastExists ==
  ASSUME NEW S \in SUBSET Nat, S # {}
  PROVE  \E x \in S : \A y \in S : x <= y
<1>1. PICK x \in S : \A y \in S : ~(<<y, x>> \in OpToRel(<, Nat))
  BY NatLessThanWellFounded, WFMin
<1>2. \A y \in S : ~(y < x)
  BY <1>1 DEF OpToRel
<1> QED BY <1>2

(* A set of naturals with 0 and every successor has them all. *)
LEMMA SetInduction ==
  ASSUME NEW S \in SUBSET Nat, 0 \in S, \A n \in S : n + 1 \in S
  PROVE  \A n \in Nat : n \in S
<1> SUFFICES ASSUME Nat \ S # {} PROVE FALSE
  OBVIOUS
<1>1. PICK n \in Nat \ S : \A y \in Nat \ S : n <= y
  <2>1. Nat \ S \in SUBSET Nat
    OBVIOUS
  <2> QED BY <2>1, LeastExists
<1>2. n # 0 /\ n - 1 \in Nat /\ ~(n <= n - 1) /\ (n - 1) + 1 = n
  BY <1>1
<1>3. n - 1 \in S
  BY <1>1, <1>2
<1> QED BY <1>1, <1>2, <1>3

(***************************************************************************)
(* Statements.  A batch leaves a table after each of its rows.             *)
(***************************************************************************)
RowByRow(after, action, rows, batch, m) ==
  after = [k \in 0 .. m |->
             IF k = 0 THEN rows ELSE Taken(action, after[k - 1], batch[k])]

(* There is such a function, however long the batch. *)
LEMMA RowByRowExists ==
  ASSUME NEW action, NEW rows, NEW batch, NEW m \in Nat
  PROVE  \E after : RowByRow(after, action, rows, batch, m)
<1> DEFINE S == {k \in Nat : \E after : RowByRow(after, action, rows, batch, k)}
<1>1. 0 \in S
  <2> DEFINE f == [n \in 0 .. 0 |-> rows]
  <2>1. \A n \in 0 .. 0 : n = 0
    OBVIOUS
  <2>2. f = [n \in 0 .. 0 |-> IF n = 0 THEN rows ELSE Taken(action, f[n - 1], batch[n])]
    BY <2>1
  <2> QED BY <2>2 DEF RowByRow
<1>2. ASSUME NEW k \in S PROVE k + 1 \in S
  <2>1. PICK f : RowByRow(f, action, rows, batch, k)
    OBVIOUS
  <2> DEFINE last == Taken(action, f[k], batch[k + 1])
             g == [n \in 0 .. k + 1 |-> IF n = k + 1 THEN last ELSE f[n]]
  <2>2. k \in Nat /\ DOMAIN g = 0 .. k + 1 /\ g = [n \in 0 .. k + 1 |-> g[n]]
    OBVIOUS
  <2>3. ASSUME NEW n \in 0 .. k + 1
        PROVE  g[n] = IF n = 0 THEN rows ELSE Taken(action, g[n - 1], batch[n])
    <3>1. CASE n = k + 1
      <4>1. g[n] = last /\ n # 0 /\ n - 1 = k /\ g[k] = f[k]
        BY <2>2, <3>1
      <4> HIDE DEF g
      <4> QED BY <3>1, <4>1
    <3>2. CASE n # k + 1
      <4>1. g[n] = f[n] /\ n \in 0 .. k /\ (n # 0 => g[n - 1] = f[n - 1])
        BY <2>2, <3>2
      <4>2. f[n] = IF n = 0 THEN rows ELSE Taken(action, f[n - 1], batch[n])
        BY <2>1, <4>1 DEF RowByRow
      <4> HIDE DEF g
      <4> QED BY <4>1, <4>2
    <3> QED BY <3>1, <3>2
  <2> HIDE DEF g
  <2>4. RowByRow(g, action, rows, batch, k + 1)
    BY <2>2, <2>3 DEF RowByRow
  <2> QED BY <2>2, <2>4
<1>3. S \in SUBSET Nat
  OBVIOUS
<1>4. m \in S
  <2> HIDE DEF S
  <2> QED BY <1>1, <1>2, <1>3, SetInduction
<1> QED BY <1>4

(* A statement takes its rows one by one. *)
LEMMA QueryIs ==
  ASSUME NEW action, NEW rows, NEW batch, Len(batch) \in Nat
  PROVE  \E after :
           /\ after[0] = rows
           /\ \A k \in 1 .. Len(batch) : after[k] = Taken(action, after[k - 1], batch[k])
           /\ Query(action, rows, batch) = after[Len(batch)]
<1> DEFINE m == Len(batch)
           f == CHOOSE g : g = [k \in 0 .. m |->
                  IF k = 0 THEN rows ELSE Taken(action, g[k - 1], batch[k])]
<1>1. Query(action, rows, batch) = f[m]
  BY Zenon DEF Query
<1>2. \E g : g = [k \in 0 .. m |->
                IF k = 0 THEN rows ELSE Taken(action, g[k - 1], batch[k])]
  <2>1. \E g : RowByRow(g, action, rows, batch, m)
    BY RowByRowExists
  <2> QED BY <2>1 DEF RowByRow
<1>3. RowByRow(f, action, rows, batch, m)
  BY <1>2 DEF RowByRow
<1> HIDE DEF f
<1>4. \A n \in 1 .. m : n \in 0 .. m /\ n # 0
  OBVIOUS
<1>5. 0 \in 0 .. m
  OBVIOUS
<1>6. f[0] = rows /\ \A k \in 1 .. m : f[k] = Taken(action, f[k - 1], batch[k])
  BY <1>3, <1>4, <1>5 DEF RowByRow
<1> QED BY <1>1, <1>6

(***************************************************************************)
(* One row of a statement: what it leaves of the row's key, and of the     *)
(* others.                                                                 *)
(***************************************************************************)
TakesOne(keys, action, rows, row, then) ==
  /\ then \subseteq rows \cup {row}
  /\ action = "D" => then \subseteq rows
  /\ IsFiniteSet(then)
  /\ Unique(then)
  /\ \A key \in keys \ {row.key} : RowsOf(key, then) = RowsOf(key, rows)
  /\ action = "N" =>
       RowsOf(row.key, then) = IF RowsOf(row.key, rows) = {} THEN {row} ELSE RowsOf(row.key, rows)
  /\ action = "R" => RowsOf(row.key, then) = {row}
  /\ action = "D" => RowsOf(row.key, then) = {}

(* It is taken so when its id is not that of another. *)
LEMMA TakenIs ==
  ASSUME NEW keys, NEW action \in Acts, NEW rows \in SUBSET TableRow(keys), IsFiniteSet(rows),
         Unique(rows), NEW row \in TableRow(keys),
         action # "D" => \A other \in rows : other.id # row.id
  PROVE  TakesOne(keys, action, rows, row, Taken(action, rows, row))
<1> SUFFICES /\ Taken(action, rows, row) \subseteq rows \cup {row}
             /\ action = "D" => Taken(action, rows, row) \subseteq rows
             /\ IsFiniteSet(Taken(action, rows, row))
             /\ Unique(Taken(action, rows, row))
             /\ \A key \in keys \ {row.key} :
                  RowsOf(key, Taken(action, rows, row)) = RowsOf(key, rows)
             /\ action = "N" =>
                  RowsOf(row.key, Taken(action, rows, row))
                    = IF RowsOf(row.key, rows) = {} THEN {row} ELSE RowsOf(row.key, rows)
             /\ action = "R" => RowsOf(row.key, Taken(action, rows, row)) = {row}
             /\ action = "D" => RowsOf(row.key, Taken(action, rows, row)) = {}
  BY DEF TakesOne
<1> DEFINE after == Taken(action, rows, row)
<1>1. CASE action = "N"
  <2>0. \A other \in rows : other.id # row.id
    BY <1>1
  <2>1. after = IF \E other \in rows : other.key = row.key THEN rows ELSE rows \cup {row}
    BY <1>1 DEF Taken, InsertIgnore
  <2>2. IsFiniteSet(rows \cup {row})
    BY FS_AddElement
  <2>3. CASE \E other \in rows : other.key = row.key
    <3>1. after = rows /\ RowsOf(row.key, rows) # {}
      BY <2>1, <2>3 DEF RowsOf
    <3> QED BY <1>1, <3>1
  <2>4. CASE ~\E other \in rows : other.key = row.key
    <3>1. after = rows \cup {row} /\ RowsOf(row.key, rows) = {}
      BY <2>1, <2>4 DEF RowsOf
    <3>2. Unique(after)
      BY <2>0, <2>4, <3>1 DEF Unique
    <3>3. RowsOf(row.key, after) = {row}
      BY <3>1 DEF RowsOf
    <3>4. \A key \in keys \ {row.key} : RowsOf(key, after) = RowsOf(key, rows)
      BY <3>1 DEF RowsOf
    <3> QED BY <1>1, <2>2, <3>1, <3>2, <3>3, <3>4
  <2> QED BY <2>3, <2>4
<1>2. CASE action = "R"
  <2>0. \A other \in rows : other.id # row.id
    BY <1>2
  <2> DEFINE rest == {other \in rows : other.key # row.key}
  <2>1. after = rest \cup {row}
    BY <1>2 DEF Taken, ReplaceInto
  <2>2. IsFiniteSet(rest)
    BY FS_Subset
  <2>3. IsFiniteSet(rest \cup {row})
    BY <2>2, FS_AddElement
  <2>4. Unique(after)
    BY <2>0, <2>1 DEF Unique
  <2>5. RowsOf(row.key, after) = {row}
    BY <2>1 DEF RowsOf
  <2>6. \A key \in keys \ {row.key} : RowsOf(key, after) = RowsOf(key, rows)
    BY <2>1 DEF RowsOf
  <2> QED BY <1>2, <2>1, <2>3, <2>4, <2>5, <2>6
<1>3. CASE action = "D"
  <2>1. after = {other \in rows : other.key # row.key}
    BY <1>3 DEF Taken, Delete
  <2>2. IsFiniteSet(after)
    BY <2>1, FS_Subset
  <2>3. Unique(after)
    BY <2>1 DEF Unique
  <2>4. RowsOf(row.key, after) = {}
    BY <2>1 DEF RowsOf
  <2>5. \A key \in keys \ {row.key} : RowsOf(key, after) = RowsOf(key, rows)
    BY <2>1 DEF RowsOf
  <2> QED BY <1>3, <2>1, <2>2, <2>3, <2>4, <2>5
<1> QED BY <1>1, <1>2, <1>3 DEF Acts

(* What the first k rows of a batch leave of a table. *)
Leaves(after, keys, action, rows, batch, k) ==
  /\ after \subseteq rows \cup {batch[i] : i \in 1 .. k}
  /\ action = "D" => after \subseteq rows
  /\ IsFiniteSet(after) /\ Unique(after)
  /\ \A key \in keys :
       \/ (\A i \in 1 .. k : batch[i].key # key) /\ RowsOf(key, after) = RowsOf(key, rows)
       \/ /\ action = "D"
          /\ \E i \in 1 .. k : batch[i].key = key
          /\ RowsOf(key, after) = {}
       \/ /\ action = "R"
          /\ \E i \in 1 .. k :
               /\ batch[i].key = key /\ \A j \in 1 .. k : i < j => batch[j].key # key
               /\ RowsOf(key, after) = {batch[i]}
       \/ /\ action = "N" /\ RowsOf(key, rows) = {}
          /\ \E i \in 1 .. k :
               /\ batch[i].key = key /\ \A j \in 1 .. k : j < i => batch[j].key # key
               /\ RowsOf(key, after) = {batch[i]}
       \/ /\ action = "N" /\ RowsOf(key, rows) # {}
          /\ RowsOf(key, after) = RowsOf(key, rows)

(* A statement whose rows have ids of their own. *)
CanRun(keys, action, rows, batch) ==
  /\ action \in Acts
  /\ rows \subseteq TableRow(keys) /\ IsFiniteSet(rows) /\ Unique(rows)
  /\ batch \in Seq(TableRow(keys))
  /\ action # "D" =>
       InOrder(batch) /\ \A row \in rows : \A i \in 1 .. Len(batch) : row.id # batch[i].id

(* One more row of the batch. *)
LEMMA LeavesNext ==
  ASSUME NEW keys, NEW action, NEW rows, NEW batch, CanRun(keys, action, rows, batch),
         NEW k \in Nat, k + 1 <= Len(batch), NEW after,
         Leaves(after, keys, action, rows, batch, k)
  PROVE  Leaves(Taken(action, after, batch[k + 1]), keys, action, rows, batch, k + 1)
<1> DEFINE row == batch[k + 1]
           then == Taken(action, after, row)
<1>1. /\ Len(batch) \in Nat /\ k + 1 \in 1 .. Len(batch) /\ DOMAIN batch = 1 .. Len(batch)
      /\ \A i \in 1 .. Len(batch) : batch[i] \in TableRow(keys)
      /\ action \in Acts
  BY DEF CanRun
<1>2. /\ \A i \in 1 .. k : i \in 1 .. k + 1 /\ i \in 1 .. Len(batch) /\ i < k + 1 /\ ~(k + 1 < i)
      /\ \A i \in 1 .. k + 1 : i \in 1 .. k \/ i = k + 1
      /\ k + 1 \in 1 .. k + 1 /\ ~(k + 1 < k + 1)
  BY <1>1
<1>3. row \in TableRow(keys) /\ row.key \in keys
  BY <1>1 DEF TableRow
<1>4. after \in SUBSET TableRow(keys) /\ IsFiniteSet(after) /\ Unique(after)
  BY <1>1, <1>2 DEF Leaves, CanRun
<1>5. action # "D" => \A other \in after : other.id # row.id
  <2> SUFFICES ASSUME action # "D", NEW other \in after PROVE other.id # row.id
    OBVIOUS
  <2>1. CASE other \in rows
    BY <1>1, <2>1 DEF CanRun
  <2>2. CASE other \in {batch[i] : i \in 1 .. k}
    <3>1. PICK i \in 1 .. k : other = batch[i]
      BY <2>2
    <3>2. batch[i].id < row.id
      BY <1>1, <1>2 DEF CanRun, InOrder
    <3>3. batch[i].id \in Nat /\ row.id \in Nat
      BY <1>1, <1>2, <1>3 DEF TableRow
    <3> QED BY <3>1, <3>2, <3>3
  <2> QED BY <2>1, <2>2 DEF Leaves
<1>6. /\ then \subseteq after \cup {row}
      /\ action = "D" => then \subseteq after
      /\ IsFiniteSet(then) /\ Unique(then)
      /\ \A key \in keys \ {row.key} : RowsOf(key, then) = RowsOf(key, after)
      /\ action = "N" => RowsOf(row.key, then) = IF RowsOf(row.key, after) = {} THEN {row} ELSE RowsOf(row.key, after)
      /\ action = "R" => RowsOf(row.key, then) = {row}
      /\ action = "D" => RowsOf(row.key, then) = {}
  <2>1. TakesOne(keys, action, after, row, then)
    BY <1>1, <1>3, <1>4, <1>5, TakenIs
  <2> QED BY <2>1 DEF TakesOne
<1>7. then \subseteq rows \cup {batch[i] : i \in 1 .. k + 1}
  BY <1>2, <1>6 DEF Leaves
<1>8. action = "D" => then \subseteq rows
  BY <1>6 DEF Leaves
<1> DEFINE Key(those, key, n) ==
       \/ (\A i \in 1 .. n : batch[i].key # key) /\ RowsOf(key, those) = RowsOf(key, rows)
       \/ /\ action = "D"
          /\ \E i \in 1 .. n : batch[i].key = key
          /\ RowsOf(key, those) = {}
       \/ /\ action = "R"
          /\ \E i \in 1 .. n :
               /\ batch[i].key = key /\ \A j \in 1 .. n : i < j => batch[j].key # key
               /\ RowsOf(key, those) = {batch[i]}
       \/ /\ action = "N" /\ RowsOf(key, rows) = {}
          /\ \E i \in 1 .. n :
               /\ batch[i].key = key /\ \A j \in 1 .. n : j < i => batch[j].key # key
               /\ RowsOf(key, those) = {batch[i]}
       \/ /\ action = "N" /\ RowsOf(key, rows) # {}
          /\ RowsOf(key, those) = RowsOf(key, rows)
<1>9. ASSUME NEW key \in keys PROVE Key(then, key, k + 1)
  <2>1. Key(after, key, k)
    BY DEF Leaves
  <2> HIDE DEF row, then
  <2>2. CASE key # row.key
    <3>1. RowsOf(key, then) = RowsOf(key, after) /\ batch[k + 1].key # key
      BY <1>6, <2>2 DEF row
    <3> QED BY <1>2, <2>1, <3>1
  <2>3. CASE key = row.key
    <3>0. batch[k + 1].key = key /\ batch[k + 1] = row
      BY <2>3 DEF row
    <3>1. CASE action = "D"
      BY <1>2, <1>6, <2>3, <3>0, <3>1
    <3>2. CASE action = "R"
      <4>1. \A j \in 1 .. k + 1 : ~(k + 1 < j)
        BY <1>2
      <4> QED BY <1>2, <1>6, <2>3, <3>0, <3>2, <4>1
    <3>3. CASE action = "N" /\ RowsOf(key, rows) # {}
      <4>1. RowsOf(key, after) = RowsOf(key, rows)
        BY <2>1, <3>3
      <4> QED BY <1>6, <2>3, <3>3, <4>1
    <3>4. CASE action = "N" /\ RowsOf(key, rows) = {}
      <4>1. CASE \A i \in 1 .. k : batch[i].key # key
        <5>1. RowsOf(key, after) = {}
          BY <2>1, <3>4, <4>1
        <5>2. RowsOf(key, then) = {batch[k + 1]}
          BY <1>6, <2>3, <3>0, <3>4, <5>1
        <5>3. \A j \in 1 .. k + 1 : j < k + 1 => batch[j].key # key
          BY <1>2, <4>1
        <5> QED BY <1>2, <3>0, <3>4, <5>2, <5>3
      <4>2. CASE ~\A i \in 1 .. k : batch[i].key # key
        <5>1. PICK i \in 1 .. k :
                /\ batch[i].key = key /\ \A j \in 1 .. k : j < i => batch[j].key # key
                /\ RowsOf(key, after) = {batch[i]}
          BY <2>1, <3>4, <4>2
        <5>2. RowsOf(key, then) = {batch[i]}
          BY <1>6, <2>3, <3>4, <5>1
        <5>3. \A j \in 1 .. k + 1 : j < i => batch[j].key # key
          BY <1>2, <5>1
        <5> QED BY <1>2, <3>4, <5>1, <5>2, <5>3
      <4> QED BY <4>1, <4>2
    <3> QED BY <1>1, <3>1, <3>2, <3>3, <3>4 DEF Acts
  <2> QED BY <2>2, <2>3
<1> HIDE DEF row
<1> QED BY <1>6, <1>7, <1>8, <1>9 DEF Leaves, row

(* What a whole statement leaves. *)
LEMMA QueryLeaves ==
  ASSUME NEW keys, NEW action, NEW rows, NEW batch, CanRun(keys, action, rows, batch)
  PROVE  Leaves(Query(action, rows, batch), keys, action, rows, batch, Len(batch))
<1> DEFINE m == Len(batch)
<1>0. m \in Nat
  BY DEF CanRun
<1>1. PICK after :
        /\ after[0] = rows
        /\ \A k \in 1 .. m : after[k] = Taken(action, after[k - 1], batch[k])
        /\ Query(action, rows, batch) = after[m]
  BY <1>0, QueryIs
<1> DEFINE S == {k \in Nat : k <= m => Leaves(after[k], keys, action, rows, batch, k)}
<1>2. 0 \in S
  <2>1. 1 .. 0 = {}
    OBVIOUS
  <2> QED BY <1>1, <2>1 DEF Leaves, CanRun
<1>3. ASSUME NEW k \in S PROVE k + 1 \in S
  <2> SUFFICES ASSUME k + 1 <= m PROVE Leaves(after[k + 1], keys, action, rows, batch, k + 1)
    OBVIOUS
  <2>1. k \in Nat /\ k <= m /\ k + 1 \in 1 .. m /\ (k + 1) - 1 = k
    BY <1>0
  <2>2. after[k + 1] = Taken(action, after[k], batch[k + 1])
    BY <1>1, <2>1
  <2>3. Leaves(after[k], keys, action, rows, batch, k)
    BY <2>1
  <2> HIDE DEF S
  <2> QED BY <2>1, <2>2, <2>3, LeavesNext
<1>4. m \in S
  <2>1. S \in SUBSET Nat
    OBVIOUS
  <2> HIDE DEF S
  <2> QED BY <1>0, <1>2, <1>3, <2>1, SetInduction
<1> QED BY <1>0, <1>1, <1>4
-----------------------------------------------------------------------------
(***************************************************************************)
(* A statement sent takes what waits under its action, and nothing waits   *)
(* there after it.                                                         *)
(***************************************************************************)
After(action, rows, waiting) == Query(action, rows, waiting[action])

Rest(action, waiting) == [waiting EXCEPT ![action] = <<>>]

(* What waits, and may be sent. *)
LEMMA WaitingCanRun ==
  ASSUME NEW keys, NEW rows, NEW waiting, Typed(keys, rows, waiting),
         NEW last, NEW read, IdsAreFresh(rows, waiting, last, read), NEW action \in Acts
  PROVE  CanRun(keys, action, rows, waiting[action])
<1>1. waiting[action] \in Seq(TableRow(keys))
  BY DEF Typed
<1>2. DOMAIN waiting[action] = 1 .. Len(waiting[action])
  BY <1>1
<1>3. ASSUME action # "D"
      PROVE  InOrder(waiting[action]) /\ \A row \in rows : \A i \in 1 .. Len(waiting[action]) : row.id # waiting[action][i].id
  <2>1. action \in {"N", "R"}
    BY <1>3 DEF Acts
  <2> QED BY <1>2, <2>1 DEF IdsAreFresh, Elements
<1> QED BY <1>1, <1>3 DEF CanRun, Typed

(* The other actions wait on. *)
LEMMA RestIs ==
  ASSUME NEW waiting, DOMAIN waiting = Acts, NEW action \in Acts
  PROVE  /\ Rest(action, waiting)[action] = <<>>
         /\ \A other \in Acts \ {action} : Rest(action, waiting)[other] = waiting[other]
         /\ Elements(Rest(action, waiting)[action]) = {}
<1>1. DOMAIN <<>> = {}
  OBVIOUS
<1>2. /\ Rest(action, waiting)[action] = <<>>
      /\ \A other \in Acts \ {action} : Rest(action, waiting)[other] = waiting[other]
  BY DEF Rest
<1> QED BY <1>1, <1>2 DEF Elements

(* What still waits are rows of the table. *)
LEMMA RestIsTyped ==
  ASSUME NEW keys, NEW waiting \in [Acts -> Seq(TableRow(keys))], NEW action \in Acts
  PROVE  Rest(action, waiting) \in [Acts -> Seq(TableRow(keys))]
<1>1. <<>> \in Seq(TableRow(keys))
  OBVIOUS
<1> QED BY <1>1 DEF Rest

(* A statement brings no row that did not wait. *)
LEMMA RunKeepsTypes ==
  ASSUME NEW keys, NEW rows, NEW waiting, Typed(keys, rows, waiting),
         NEW last, NEW read, IdsAreFresh(rows, waiting, last, read), NEW action \in Acts
  PROVE  /\ Typed(keys, After(action, rows, waiting), Rest(action, waiting))
         /\ After(action, rows, waiting) \subseteq rows \cup Elements(waiting[action])
         /\ action = "D" => After(action, rows, waiting) \subseteq rows
         /\ All(After(action, rows, waiting), Rest(action, waiting)) \subseteq All(rows, waiting)
<1> DEFINE then == After(action, rows, waiting)
           batch == waiting[action]
<1>1. batch \in Seq(TableRow(keys)) /\ DOMAIN batch = 1 .. Len(batch)
      /\ \A i \in DOMAIN batch : batch[i] \in TableRow(keys)
  BY DEF Typed
<1>2. Leaves(then, keys, action, rows, batch, Len(batch))
  BY WaitingCanRun, QueryLeaves DEF After
<1>3. Elements(batch) = {batch[i] : i \in 1 .. Len(batch)}
  BY <1>1 DEF Elements
<1>4. /\ then \subseteq rows \cup Elements(batch)
      /\ action = "D" => then \subseteq rows
      /\ IsFiniteSet(then) /\ Unique(then)
  BY <1>2, <1>3 DEF Leaves
<1>5. then \subseteq TableRow(keys)
  BY <1>1, <1>4 DEF Elements, Typed
<1> HIDE DEF then, batch
<1>6. Typed(keys, then, Rest(action, waiting))
  BY <1>4, <1>5, RestIsTyped DEF Typed
<1>7. All(then, Rest(action, waiting)) \subseteq All(rows, waiting)
  <2>0. /\ Elements(Rest(action, waiting)[action]) = {}
        /\ \A other \in Acts \ {action} : Rest(action, waiting)[other] = waiting[other]
    BY RestIs DEF Typed
  <2>1. \A other \in Acts : Elements(Rest(action, waiting)[other]) \subseteq Elements(waiting[other])
    BY <2>0
  <2>2. action # "D" => Elements(batch) \subseteq All(rows, waiting)
    BY DEF Acts, All, batch
  <2>3. then \subseteq All(rows, waiting)
    BY <1>4, <2>2 DEF All
  <2> QED BY <2>1, <2>3 DEF All, Acts
<1> QED BY <1>4, <1>6, <1>7 DEF then, batch

(* So the order of the ids is as it was ... *)
LEMMA RunKeepsIds ==
  ASSUME NEW keys, NEW rows, NEW waiting, Typed(keys, rows, waiting),
         NEW last, NEW read, IdsAreFresh(rows, waiting, last, read), NEW action \in Acts
  PROVE  IdsAreFresh(After(action, rows, waiting), Rest(action, waiting), last, read)
<1> DEFINE then == After(action, rows, waiting)
           rest == Rest(action, waiting)
<1>1. /\ then \subseteq rows \cup Elements(waiting[action])
      /\ action = "D" => then \subseteq rows
      /\ All(then, rest) \subseteq All(rows, waiting)
  BY RunKeepsTypes
<1>2. /\ rest[action] = <<>> /\ Elements(rest[action]) = {}
      /\ \A other \in Acts \ {action} : rest[other] = waiting[other]
  BY RestIs DEF Typed
<1> HIDE DEF then, rest
<1>3. \A other \in {"N", "R"} : InOrder(rest[other])
  <2>1. InOrder(<<>>)
    BY DEF InOrder
  <2> QED BY <1>2, <2>1 DEF IdsAreFresh, Acts
<1>4. \A row \in then : \A other \in Elements(rest["N"]) \cup Elements(rest["R"]) : row.id # other.id
  <2>1. CASE action = "N"
    BY <1>1, <1>2, <2>1 DEF IdsAreFresh, Acts
  <2>2. CASE action = "R"
    BY <1>1, <1>2, <2>2 DEF IdsAreFresh, Acts
  <2>3. CASE action = "D"
    BY <1>1, <1>2, <2>3 DEF IdsAreFresh, Acts
  <2> QED BY <2>1, <2>2, <2>3 DEF Acts
<1>5. \A row \in Elements(rest["N"]) : \A other \in Elements(rest["R"]) : row.id # other.id
  BY <1>2 DEF IdsAreFresh, Acts
<1>6. /\ \A row \in All(then, rest) : row.id <= last /\ row.n <= read
      /\ \A row, other \in All(then, rest) : row.n < other.n <=> row.id < other.id
  BY <1>1 DEF IdsAreFresh
<1> QED BY <1>3, <1>4, <1>5, <1>6 DEF IdsAreFresh, then, rest

(* ... and every row that is left has its stops. *)
LEMMA RunKeepsStops ==
  ASSUME NEW keys, NEW rows, NEW waiting, Typed(keys, rows, waiting),
         NEW last, NEW read, IdsAreFresh(rows, waiting, last, read), NEW action \in Acts,
         NEW stops, NEW lastStop, StopsAreTheirs(rows, waiting, last, stops, lastStop)
  PROVE  StopsAreTheirs(After(action, rows, waiting), Rest(action, waiting), last, stops, lastStop)
<1>1. All(After(action, rows, waiting), Rest(action, waiting)) \subseteq All(rows, waiting)
  BY RunKeepsTypes
<1> QED BY <1>1 DEF StopsAreTheirs

(* What a statement does to the rows of one key. *)
LEMMA RunsOnAKey ==
  ASSUME NEW keys, NEW rows, NEW waiting, Typed(keys, rows, waiting),
         NEW last, NEW read, IdsAreFresh(rows, waiting, last, read), NEW action \in Acts,
         NEW key \in keys
  PROVE  LET is == LeftOf(key, rows)
             then == LeftOf(key, After(action, rows, waiting))
         IN
         /\ ~Mentions(waiting[action], key) => then = is
         /\ action = "D" /\ Mentions(waiting[action], key) => then = {}
         /\ action = "R" /\ Mentions(waiting[action], key) =>
              \A row : Final(waiting[action], key, row) => then = {row}
         /\ action = "N" /\ is # {} => then = is
         /\ action = "N" /\ is = {} /\ Mentions(waiting[action], key) =>
              \A row : First(waiting[action], key, row) => then = {row}
<1> DEFINE is == LeftOf(key, rows)
           after == After(action, rows, waiting)
           then == LeftOf(key, after)
           batch == waiting[action]
<1>1. batch \in Seq(TableRow(keys)) /\ DOMAIN batch = 1 .. Len(batch) /\ Len(batch) \in Nat
  BY DEF Typed
<1>2. Leaves(after, keys, action, rows, batch, Len(batch))
  BY WaitingCanRun, QueryLeaves DEF After
<1> HIDE DEF after, batch
<1>3. \/ (\A i \in DOMAIN batch : batch[i].key # key) /\ RowsOf(key, after) = RowsOf(key, rows)
      \/ /\ action = "D"
         /\ \E i \in DOMAIN batch : batch[i].key = key
         /\ RowsOf(key, after) = {}
      \/ /\ action = "R"
         /\ \E i \in DOMAIN batch :
              /\ batch[i].key = key /\ \A j \in DOMAIN batch : i < j => batch[j].key # key
              /\ RowsOf(key, after) = {batch[i]}
      \/ /\ action = "N" /\ RowsOf(key, rows) = {}
         /\ \E i \in DOMAIN batch :
              /\ batch[i].key = key /\ \A j \in DOMAIN batch : j < i => batch[j].key # key
              /\ RowsOf(key, after) = {batch[i]}
      \/ /\ action = "N" /\ RowsOf(key, rows) # {}
         /\ RowsOf(key, after) = RowsOf(key, rows)
  BY <1>1, <1>2 DEF Leaves
<1>4. RowsOf(key, after) = RowsOf(key, rows) => then = is
  BY DEF LeftOf
<1>5. RowsOf(key, rows) = {} <=> is = {}
  BY DEF LeftOf
<1>6. RowsOf(key, after) = {} => then = {}
  BY DEF LeftOf
<1>7. \A row : RowsOf(key, after) = {row} => then = {Row(row)}
  BY DEF LeftOf
<1> HIDE DEF is, then
<1>8. ~Mentions(batch, key) => then = is
  BY <1>3, <1>4 DEF Mentions
<1>9. action = "D" /\ Mentions(batch, key) => then = {}
  BY <1>3, <1>6 DEF Mentions
<1>10. ASSUME action = "R", Mentions(batch, key), NEW row, Final(batch, key, row) PROVE then = {row}
  <2>1. PICK i \in DOMAIN batch :
          /\ batch[i].key = key /\ \A j \in DOMAIN batch : i < j => batch[j].key # key
          /\ RowsOf(key, after) = {batch[i]}
    BY <1>3, <1>10 DEF Mentions
  <2>2. PICK l \in DOMAIN batch :
          batch[l].key = key /\ Row(batch[l]) = row /\ \A j \in DOMAIN batch : l < j => batch[j].key # key
    BY <1>10 DEF Final
  <2>3. i = l
    BY <1>1, <2>1, <2>2
  <2> QED BY <1>7, <2>1, <2>2, <2>3
<1>11. action = "N" /\ is # {} => then = is
  BY <1>3, <1>4, <1>5
<1>12. ASSUME action = "N", is = {}, Mentions(batch, key), NEW row, First(batch, key, row) PROVE then = {row}
  <2>1. PICK i \in DOMAIN batch :
          /\ batch[i].key = key /\ \A j \in DOMAIN batch : j < i => batch[j].key # key
          /\ RowsOf(key, after) = {batch[i]}
    BY <1>3, <1>5, <1>12 DEF Mentions
  <2>2. PICK l \in DOMAIN batch :
          batch[l].key = key /\ Row(batch[l]) = row /\ \A j \in DOMAIN batch : j < l => batch[j].key # key
    BY <1>12 DEF First
  <2>3. i = l
    BY <1>1, <2>1, <2>2
  <2> QED BY <1>7, <2>1, <2>2, <2>3
<1> QED BY <1>8, <1>9, <1>10, <1>11, <1>12 DEF is, then, batch, after

(***************************************************************************)
(* Whichever statement runs first, each key is as near to what was written *)
(* as before: the others of its feed say nothing of it, or say the same.   *)
(***************************************************************************)
LEMMA RunKeepsKeys ==
  ASSUME NEW keys, NEW rows, NEW waiting, Typed(keys, rows, waiting),
         NEW last, NEW read, IdsAreFresh(rows, waiting, last, read), NEW action \in Acts,
         NEW given, NEW clash, NEW written, KeysAreRight(keys, rows, waiting, given, clash, written)
  PROVE  KeysAreRight(keys, After(action, rows, waiting), Rest(action, waiting), given, clash, written)
<1> DEFINE after == After(action, rows, waiting)
           rest == Rest(action, waiting)
<1> SUFFICES ASSUME NEW key \in keys
             PROVE  /\ \A a \in Acts : Mentions(rest[a], key) => <<key, a>> \in given
                    /\ <<key, "D">> \in given /\ (<<key, "N">> \in given \/ <<key, "R">> \in given) => key \in clash
                    /\ key \notin clash => KeyIsRight(key, after, rest, given, written)
  BY DEF KeysAreRight
<1>1. /\ rest[action] = <<>> /\ ~Mentions(rest[action], key)
      /\ \A other \in Acts \ {action} : rest[other] = waiting[other]
  <2> HIDE DEF rest
  <2>1. rest = Rest(action, waiting)
    BY DEF rest
  <2>2. rest[action] = <<>> /\ \A other \in Acts \ {action} : rest[other] = waiting[other]
    BY <2>1, RestIs DEF Typed
  <2>3. DOMAIN <<>> = {}
    OBVIOUS
  <2> QED BY <2>2, <2>3 DEF Mentions
<1> DEFINE is == LeftOf(key, rows)
           then == LeftOf(key, after)
<1>2. /\ ~Mentions(waiting[action], key) => then = is
      /\ action = "D" /\ Mentions(waiting[action], key) => then = {}
      /\ action = "R" /\ Mentions(waiting[action], key) =>
           \A row : Final(waiting[action], key, row) => then = {row}
      /\ action = "N" /\ is # {} => then = is
      /\ action = "N" /\ is = {} /\ Mentions(waiting[action], key) =>
           \A row : First(waiting[action], key, row) => then = {row}
  BY RunsOnAKey
<1>3. /\ \A a \in Acts : Mentions(waiting[a], key) => <<key, a>> \in given
      /\ <<key, "D">> \in given /\ (<<key, "N">> \in given \/ <<key, "R">> \in given) => key \in clash
      /\ key \notin clash => KeyIsRight(key, rows, waiting, given, written)
  BY DEF KeysAreRight
<1>4. \A a \in Acts : Mentions(rest[a], key) => <<key, a>> \in given
  BY <1>1, <1>3
<1>5. ASSUME key \notin clash PROVE KeyIsRight(key, after, rest, given, written)
  <2> DEFINE should == RowsOf(key, written)
  <2>1. /\ <<key, "D">> \in given => should = {} /\ (Mentions(waiting["D"], key) \/ is = {})
        /\ <<key, "R">> \in given =>
             \E row \in should : /\ should = {row}
                  /\ IF Mentions(waiting["R"], key) THEN Final(waiting["R"], key, row) ELSE is = {row}
        /\ <<key, "D">> \notin given /\ <<key, "R">> \notin given =>
             IF is = {} /\ Mentions(waiting["N"], key)
             THEN \E row \in should : should = {row} /\ First(waiting["N"], key, row)
             ELSE is = should
    BY <1>3, <1>5 DEF KeyIsRight
  <2> SUFFICES
        /\ <<key, "D">> \in given => should = {} /\ (Mentions(rest["D"], key) \/ then = {})
        /\ <<key, "R">> \in given =>
             \E row \in should : /\ should = {row}
                  /\ IF Mentions(rest["R"], key) THEN Final(rest["R"], key, row) ELSE then = {row}
        /\ <<key, "D">> \notin given /\ <<key, "R">> \notin given =>
             IF then = {} /\ Mentions(rest["N"], key)
             THEN \E row \in should : should = {row} /\ First(rest["N"], key, row)
             ELSE then = should
    BY DEF KeyIsRight
  <2> HIDE DEF after, rest, is, then, should
  <2>2. CASE action = "D"
    <3>1. rest["N"] = waiting["N"] /\ rest["R"] = waiting["R"]
      BY <1>1, <2>2 DEF Acts
    <3>2. CASE <<key, "D">> \in given
      BY <1>1, <1>2, <1>3, <1>5, <2>1, <2>2, <3>1, <3>2
    <3>3. CASE <<key, "D">> \notin given
      <4>1. then = is
        BY <1>2, <1>3, <2>2, <3>3 DEF Acts
      <4> QED BY <2>1, <3>1, <3>3, <4>1
    <3> QED BY <3>2, <3>3
  <2>3. CASE action = "R"
    <3>1. rest["N"] = waiting["N"] /\ rest["D"] = waiting["D"]
      BY <1>1, <2>3 DEF Acts
    <3>2. CASE <<key, "R">> \in given
      <4>1. <<key, "D">> \notin given
        BY <1>3, <1>5, <3>2
      <4>2. PICK row \in should : /\ should = {row}
                  /\ IF Mentions(waiting["R"], key) THEN Final(waiting["R"], key, row) ELSE is = {row}
        BY <2>1, <3>2
      <4>3. then = {row}
        BY <1>2, <2>3, <4>2
      <4> QED BY <1>1, <2>3, <3>2, <4>1, <4>2, <4>3
    <3>3. CASE <<key, "R">> \notin given
      <4>1. then = is
        BY <1>2, <1>3, <2>3, <3>3 DEF Acts
      <4> QED BY <2>1, <3>1, <3>3, <4>1
    <3> QED BY <3>2, <3>3
  <2>4. CASE action = "N"
    <3>1. rest["D"] = waiting["D"] /\ rest["R"] = waiting["R"]
      BY <1>1, <2>4 DEF Acts
    <3>2. CASE <<key, "D">> \in given
      <4>1. ~Mentions(waiting["N"], key) /\ <<key, "R">> \notin given
        BY <1>3, <1>5, <3>2 DEF Acts
      <4> QED BY <1>2, <2>1, <2>4, <3>1, <3>2, <4>1
    <3>3. CASE <<key, "R">> \in given
      <4>1. <<key, "D">> \notin given
        BY <1>3, <1>5, <3>3
      <4>2. PICK row \in should : /\ should = {row}
                  /\ IF Mentions(waiting["R"], key) THEN Final(waiting["R"], key, row) ELSE is = {row}
        BY <2>1, <3>3
      <4>3. is = {row} => then = {row}
        BY <1>2, <2>4
      <4> QED BY <3>1, <3>3, <4>1, <4>2, <4>3
    <3>4. CASE <<key, "D">> \notin given /\ <<key, "R">> \notin given
      <4>1. CASE is = {} /\ Mentions(waiting["N"], key)
        <5>1. PICK row \in should : should = {row} /\ First(waiting["N"], key, row)
          BY <2>1, <3>4, <4>1
        <5>2. then = {row}
          BY <1>2, <2>4, <4>1, <5>1
        <5> QED BY <1>1, <2>4, <3>4, <5>1, <5>2
      <4>2. CASE ~(is = {} /\ Mentions(waiting["N"], key))
        <5>1. is = should /\ then = is
          BY <1>2, <2>1, <2>4, <3>4, <4>2
        <5> QED BY <1>1, <2>4, <3>4, <5>1
      <4> QED BY <4>1, <4>2
    <3> QED BY <3>2, <3>3, <3>4
  <2> QED BY <2>2, <2>3, <2>4 DEF Acts
<1> QED BY <1>3, <1>4, <1>5
-----------------------------------------------------------------------------
(* A record that is read: its row waits under its action. *)
NewRow(record, id) ==
  [id |-> id, key |-> record.key, live |-> record.live, n |-> record.n, calls |-> record.calls]

Push(waiting, record, id) ==
  [waiting EXCEPT ![record.action] = Append(@, NewRow(record, id))]

IsNext(record, keys, read) ==
  /\ record.key \in keys /\ record.action \in Acts /\ record.live \in BOOLEAN
  /\ record.n = read + 1 /\ record.calls \in Calls("schedule")
  /\ record.action = "D" => record.calls = "none"

NextId(last, record) == IF record.action = "D" THEN last ELSE last + 1

Waits(keys, waiting) == waiting \in [Acts -> Seq(TableRow(keys))]

(* One more in a list. *)
LEMMA AppendIs ==
  ASSUME NEW S, NEW batch \in Seq(S), NEW row \in S
  PROVE  /\ Append(batch, row) \in Seq(S)
         /\ Len(batch) \in Nat /\ Len(Append(batch, row)) = Len(batch) + 1
         /\ DOMAIN batch = 1 .. Len(batch)
         /\ DOMAIN Append(batch, row) = 1 .. Len(batch) + 1
         /\ \A i \in 1 .. Len(batch) : Append(batch, row)[i] = batch[i]
         /\ Append(batch, row)[Len(batch) + 1] = row
         /\ Elements(Append(batch, row)) = Elements(batch) \cup {row}
<1>1. /\ Append(batch, row) \in Seq(S)
      /\ Len(batch) \in Nat /\ Len(Append(batch, row)) = Len(batch) + 1
      /\ DOMAIN batch = 1 .. Len(batch)
      /\ DOMAIN Append(batch, row) = 1 .. Len(batch) + 1
      /\ \A i \in 1 .. Len(batch) : Append(batch, row)[i] = batch[i]
      /\ Append(batch, row)[Len(batch) + 1] = row
  OBVIOUS
<1>2. /\ \A i \in 1 .. Len(batch) + 1 : i \in 1 .. Len(batch) \/ i = Len(batch) + 1
      /\ \A i \in 1 .. Len(batch) : i \in 1 .. Len(batch) + 1
      /\ Len(batch) + 1 \in 1 .. Len(batch) + 1
  BY <1>1
<1>3. Elements(Append(batch, row)) = Elements(batch) \cup {row}
  <2>1. PICK more : more = Append(batch, row)
    OBVIOUS
  <2>2. PICK m : m = Len(batch)
    OBVIOUS
  <2>3. Elements(more) = {more[i] : i \in 1 .. m + 1} /\ Elements(batch) = {batch[i] : i \in 1 .. m}
    BY <1>1, <2>1, <2>2 DEF Elements
  <2>4. /\ \A i \in 1 .. m : more[i] = batch[i]
        /\ more[m + 1] = row
    BY <1>1, <2>1, <2>2
  <2>5. /\ \A i \in 1 .. m + 1 : i \in 1 .. m \/ i = m + 1
        /\ \A i \in 1 .. m : i \in 1 .. m + 1
        /\ m + 1 \in 1 .. m + 1
    BY <1>2, <2>2
  <2>6. Elements(more) \subseteq Elements(batch) \cup {row}
    BY ONLY <2>3, <2>4, <2>5
  <2>7. Elements(batch) \cup {row} \subseteq Elements(more)
    BY ONLY <2>3, <2>4, <2>5
  <2> QED BY <2>1, <2>6, <2>7
<1> QED BY <1>1, <1>3

(***************************************************************************)
(* The row waits last under its action, and the other actions as they did. *)
(***************************************************************************)
LEMMA PushIs ==
  ASSUME NEW keys, NEW waiting, Waits(keys, waiting),
         NEW read \in Nat, NEW record, IsNext(record, keys, read), NEW last \in Nat
  PROVE  /\ NewRow(record, last + 1) \in TableRow(keys)
         /\ Push(waiting, record, last + 1) \in [Acts -> Seq(TableRow(keys))]
         /\ Push(waiting, record, last + 1)[record.action]
              = Append(waiting[record.action], NewRow(record, last + 1))
         /\ \A other \in Acts \ {record.action} : Push(waiting, record, last + 1)[other] = waiting[other]
<1> DEFINE row == NewRow(record, last + 1)
<1>1. row \in TableRow(keys)
  BY DEF NewRow, TableRow, IsNext
<1> HIDE DEF row
<1>2. record.action \in Acts
  BY DEF IsNext
<1>3. waiting[record.action] \in Seq(TableRow(keys))
  BY <1>2 DEF Waits
<1>4. Append(waiting[record.action], row) \in Seq(TableRow(keys))
  BY <1>1, <1>3
<1>5. Push(waiting, record, last + 1) = [waiting EXCEPT ![record.action] = Append(waiting[record.action], row)]
  BY DEF Push, row
<1> QED BY <1>1, <1>2, <1>4, <1>5 DEF row, Waits

(* It is a row of the table. *)
LEMMA PushKeepsTypes ==
  ASSUME NEW keys, NEW rows, NEW waiting, Typed(keys, rows, waiting),
         NEW read \in Nat, NEW record, IsNext(record, keys, read), NEW last \in Nat
  PROVE  Typed(keys, rows, Push(waiting, record, last + 1))
BY PushIs DEF Typed, Waits

(* One more row waits under the action of a record. *)
HasOneMore(waiting, record, id, then) ==
  /\ Elements(then[record.action]) = Elements(waiting[record.action]) \cup {NewRow(record, id)}
  /\ \A other \in Acts \ {record.action} : Elements(then[other]) = Elements(waiting[other])

(* That is what waits after a record has been read. *)
LEMMA PushElements ==
  ASSUME NEW keys, NEW waiting, Waits(keys, waiting),
         NEW read \in Nat, NEW record, IsNext(record, keys, read), NEW last \in Nat
  PROVE  HasOneMore(waiting, record, last + 1, Push(waiting, record, last + 1))
<1>1. record.action \in Acts
  BY DEF IsNext
<1>2. waiting[record.action] \in Seq(TableRow(keys))
  BY <1>1 DEF Waits
<1>3. PICK then : then = Push(waiting, record, last + 1)
  OBVIOUS
<1>4. PICK row : row = NewRow(record, last + 1)
  OBVIOUS
<1>5. /\ row \in TableRow(keys)
      /\ then[record.action] = Append(waiting[record.action], row)
      /\ \A other \in Acts \ {record.action} : then[other] = waiting[other]
  BY <1>3, <1>4, PushIs
<1>6. Elements(Append(waiting[record.action], row)) = Elements(waiting[record.action]) \cup {row}
  BY ONLY <1>2, <1>5, AppendIs
<1> QED BY ONLY <1>3, <1>4, <1>5, <1>6 DEF HasOneMore

(***************************************************************************)
(* Its id is above every other, unless it is a deletion, whose row takes   *)
(* none.                                                                   *)
(***************************************************************************)
LEMMA PushKeepsIds ==
  ASSUME NEW keys, NEW rows, NEW waiting, Typed(keys, rows, waiting),
         NEW read \in Nat, NEW record, IsNext(record, keys, read), NEW last \in Nat,
         IdsAreFresh(rows, waiting, last, read)
  PROVE  IdsAreFresh(rows, Push(waiting, record, last + 1), NextId(last, record), read + 1)
<1>0. Waits(keys, waiting) /\ waiting \in [Acts -> Seq(TableRow(keys))] /\ rows \subseteq TableRow(keys)
  BY DEF Typed, Waits
<1>10. /\ Elements(Push(waiting, record, last + 1)[record.action])
            = Elements(waiting[record.action]) \cup {NewRow(record, last + 1)}
       /\ \A other \in Acts \ {record.action} :
            Elements(Push(waiting, record, last + 1)[other]) = Elements(waiting[other])
  <2>1. HasOneMore(waiting, record, last + 1, Push(waiting, record, last + 1))
    BY <1>0, PushElements
  <2> QED BY <2>1 DEF HasOneMore
<1> DEFINE action == record.action
           row == NewRow(record, last + 1)
           then == Push(waiting, record, last + 1)
<1>1. /\ action \in Acts /\ row \in TableRow(keys) /\ row.id = last + 1 /\ row.n = read + 1
  BY <1>0, PushIs DEF IsNext, NewRow
<1>2. /\ Elements(then[action]) = Elements(waiting[action]) \cup {row}
      /\ \A other \in Acts \ {action} : Elements(then[other]) = Elements(waiting[other])
  BY ONLY <1>10
<1>3. /\ then[action] = Append(waiting[action], row)
      /\ \A other \in Acts \ {action} : then[other] = waiting[other]
  BY <1>0, PushIs
<1>4. All(rows, waiting) \subseteq TableRow(keys)
  <2>1. \A a \in Acts : Elements(waiting[a]) \subseteq TableRow(keys)
    BY <1>0 DEF Elements
  <2> QED BY <1>0, <2>1 DEF All, Acts
<1>5. \A other \in All(rows, waiting) :
        /\ other.id \in Nat /\ other.n \in Nat /\ other.id <= last /\ other.n <= read
        /\ other.id < row.id /\ other.n < row.n /\ other.id # row.id
        /\ ~(row.id < other.id) /\ ~(row.n < other.n)
  BY <1>1, <1>4 DEF IdsAreFresh, TableRow
<1> HIDE DEF action, row, then
<1>6. CASE action = "D"
  <2>1. then["N"] = waiting["N"] /\ then["R"] = waiting["R"]
    BY <1>3, <1>6 DEF Acts
  <2>2. All(rows, then) = All(rows, waiting)
    BY <2>1 DEF All
  <2>3. \A other \in All(rows, waiting) : other.n <= read + 1
    BY <1>5
  <2>4. NextId(last, record) = last
    BY <1>6 DEF NextId, action
  <2> QED BY <2>1, <2>2, <2>3, <2>4 DEF IdsAreFresh, then
<1>7. CASE action # "D"
  <2>0. NextId(last, record) = last + 1 /\ action \in {"N", "R"}
    BY <1>1, <1>7 DEF NextId, action, Acts
  <2>1. All(rows, then) = All(rows, waiting) \cup {row}
    BY <1>2, <2>0 DEF All, Acts
  <2>2. \A other \in All(rows, then) : other.id <= last + 1 /\ other.n <= read + 1
    BY <1>1, <1>5, <2>1
  <2>3. \A one, other \in All(rows, then) : one.n < other.n <=> one.id < other.id
    <3> SUFFICES ASSUME NEW one \in All(rows, then), NEW other \in All(rows, then)
                 PROVE one.n < other.n <=> one.id < other.id
      OBVIOUS
    <3>1. CASE one \in All(rows, waiting) /\ other \in All(rows, waiting)
      BY <3>1 DEF IdsAreFresh
    <3>2. CASE one = row /\ other = row
      BY <1>1, <3>2
    <3>3. CASE one = row /\ other \in All(rows, waiting)
      BY <1>5, <3>3
    <3>4. CASE one \in All(rows, waiting) /\ other = row
      BY <1>5, <3>4
    <3> QED BY <2>1, <3>1, <3>2, <3>3, <3>4
  <2>4. InOrder(then[action])
    <3>1. waiting[action] \in Seq(TableRow(keys)) /\ InOrder(waiting[action])
      BY <1>0, <2>0 DEF IdsAreFresh, Acts
    <3>2. /\ Len(waiting[action]) \in Nat /\ DOMAIN waiting[action] = 1 .. Len(waiting[action])
          /\ DOMAIN then[action] = 1 .. Len(waiting[action]) + 1
          /\ \A i \in 1 .. Len(waiting[action]) : then[action][i] = waiting[action][i]
          /\ then[action][Len(waiting[action]) + 1] = row
      BY <1>1, <1>3, <3>1, AppendIs
    <3>3. \A i \in 1 .. Len(waiting[action]) : waiting[action][i].id < row.id
      BY <1>5, <2>0, <3>2 DEF All, Elements
    <3>4. ASSUME NEW i \in 1 .. Len(waiting[action]) + 1, NEW j \in 1 .. Len(waiting[action]) + 1, i < j
          PROVE  then[action][i].id < then[action][j].id
      <4>1. i \in 1 .. Len(waiting[action]) /\ (j = Len(waiting[action]) + 1 \/ j \in 1 .. Len(waiting[action]))
        BY <3>2, <3>4
      <4>2. CASE j = Len(waiting[action]) + 1
        BY <3>2, <3>3, <4>1, <4>2
      <4>3. CASE j \in 1 .. Len(waiting[action])
        BY <3>1, <3>2, <3>4, <4>1, <4>3 DEF InOrder
      <4> QED BY <4>1, <4>2, <4>3
    <3> QED BY <3>2, <3>4 DEF InOrder
  <2>5. \A other \in Acts \ {action} : other # "D" => InOrder(then[other])
    BY <1>3 DEF IdsAreFresh, Acts
  <2>6. \A one \in rows : \A other \in Elements(then["N"]) \cup Elements(then["R"]) : one.id # other.id
    <3>1. \A one \in rows : one.id # row.id
      BY <1>5 DEF All
    <3> QED BY <1>2, <2>0, <3>1 DEF IdsAreFresh, Acts
  <2>7. \A one \in Elements(then["N"]) : \A other \in Elements(then["R"]) : one.id # other.id
    <3>1. \A one \in Elements(waiting["N"]) \cup Elements(waiting["R"]) : one.id # row.id
      BY <1>5 DEF All
    <3> QED BY <1>2, <2>0, <3>1 DEF IdsAreFresh, Acts
  <2>8. InOrder(then["N"]) /\ InOrder(then["R"])
    BY <2>0, <2>4, <2>5 DEF Acts
  <2> QED BY <2>0, <2>2, <2>3, <2>6, <2>7, <2>8 DEF IdsAreFresh, then
<1> QED BY <1>6, <1>7

(* Its stop is inserted at once, under an id nothing has. *)
NewStop(record, id, stopId) ==
  [id |-> stopId, schedule |-> id, n |-> record.n, calls |-> record.calls]

StopsAfter(stops, record, id, stopId) ==
  IF record.calls = "none" THEN stops ELSE stops \cup {NewStop(record, id, stopId)}

NextStopId(lastStop, record) == IF record.calls = "none" THEN lastStop ELSE lastStop + 1

(* The stop is of the new row and no other. *)
LEMMA PushKeepsStops ==
  ASSUME NEW keys, NEW rows, NEW waiting, Typed(keys, rows, waiting),
         NEW read \in Nat, NEW record, IsNext(record, keys, read), NEW last \in Nat,
         IdsAreFresh(rows, waiting, last, read),
         NEW lastStop \in Nat, NEW stops \in SUBSET StopRow, IsFiniteSet(stops),
         StopsAreTheirs(rows, waiting, last, stops, lastStop)
  PROVE  LET then == StopsAfter(stops, record, last + 1, lastStop + 1) IN
         /\ then \subseteq StopRow /\ IsFiniteSet(then)
         /\ StopsAreTheirs(rows, Push(waiting, record, last + 1), NextId(last, record),
                           then, NextStopId(lastStop, record))
<1>0. Waits(keys, waiting) /\ waiting \in [Acts -> Seq(TableRow(keys))] /\ rows \subseteq TableRow(keys)
  BY DEF Typed, Waits
<1>10. /\ Elements(Push(waiting, record, last + 1)[record.action])
            = Elements(waiting[record.action]) \cup {NewRow(record, last + 1)}
       /\ \A other \in Acts \ {record.action} :
            Elements(Push(waiting, record, last + 1)[other]) = Elements(waiting[other])
  <2>1. HasOneMore(waiting, record, last + 1, Push(waiting, record, last + 1))
    BY <1>0, PushElements
  <2> QED BY <2>1 DEF HasOneMore
<1> DEFINE action == record.action
           row == NewRow(record, last + 1)
           waits == Push(waiting, record, last + 1)
           stop == NewStop(record, last + 1, lastStop + 1)
           then == StopsAfter(stops, record, last + 1, lastStop + 1)
<1>1. /\ action \in Acts /\ row.id = last + 1 /\ row.n = read + 1 /\ row.calls = record.calls
      /\ record.n = read + 1
  BY DEF IsNext, NewRow
<1>2. /\ Elements(waits[action]) = Elements(waiting[action]) \cup {row}
      /\ \A other \in Acts \ {action} : Elements(waits[other]) = Elements(waiting[other])
  BY ONLY <1>10
<1>3. /\ stop \in StopRow /\ stop.id = lastStop + 1 /\ stop.schedule = last + 1
      /\ stop.n = read + 1 /\ stop.calls = record.calls
  BY <1>1 DEF NewStop, StopRow, IsNext
<1>4. /\ \A other \in All(rows, waiting) : other.id \in Nat /\ other.id # last + 1
      /\ \A other \in stops : other.schedule # last + 1 /\ other.id <= lastStop + 1 /\ other.schedule <= last + 1
  <2>1. All(rows, waiting) \subseteq TableRow(keys)
    <3>1. \A a \in Acts : Elements(waiting[a]) \subseteq TableRow(keys)
      BY <1>0 DEF Elements
    <3> QED BY <1>0, <3>1 DEF All, Acts
  <2> QED BY <2>1 DEF IdsAreFresh, TableRow, StopsAreTheirs, StopRow
<1> HIDE DEF row, waits, stop, action
<1>5. CASE action = "D"
  <2>1. All(rows, waits) = All(rows, waiting)
    BY <1>2, <1>5 DEF All, Acts
  <2>2. record.calls = "none"
    BY <1>5 DEF IsNext, action
  <2>3. then = stops /\ NextStopId(lastStop, record) = lastStop /\ NextId(last, record) = last
    BY <1>5, <2>2 DEF StopsAfter, NextStopId, NextId, action
  <2> QED BY <2>1, <2>3 DEF StopsAreTheirs, waits
<1>6. CASE action # "D"
  <2>0. NextId(last, record) = last + 1 /\ action \in {"N", "R"}
    BY <1>1, <1>6 DEF NextId, action, Acts
  <2>1. All(rows, waits) = All(rows, waiting) \cup {row}
    BY <1>2, <2>0 DEF All, Acts
  <2>2. CASE record.calls = "none"
    <3>1. then = stops /\ NextStopId(lastStop, record) = lastStop
      BY <2>2 DEF StopsAfter, NextStopId
    <3>2. \A other \in stops : other.id <= lastStop /\ other.schedule <= last + 1
      BY <1>4 DEF StopsAreTheirs
    <3> QED BY <1>1, <1>4, <2>0, <2>1, <2>2, <3>1, <3>2 DEF StopsAreTheirs, waits
  <2>3. CASE record.calls # "none"
    <3>1. then = stops \cup {stop} /\ NextStopId(lastStop, record) = lastStop + 1
      BY <2>3 DEF StopsAfter, NextStopId, stop
    <3>2. then \subseteq StopRow /\ IsFiniteSet(then)
      <4>1. IsFiniteSet(stops \cup {stop})
        BY FS_AddElement
      <4> QED BY <1>3, <3>1, <4>1
    <3>3. \A other \in then : other.id <= lastStop + 1 /\ other.schedule <= last + 1
      BY <1>3, <1>4, <3>1
    <3>4. ASSUME NEW one \in All(rows, waits)
          PROVE  /\ \A other \in then : other.schedule = one.id => other.n = one.n /\ other.calls = one.calls
                 /\ one.calls # "none" <=> \E other \in then : other.schedule = one.id
      <4>1. CASE one = row
        BY <1>1, <1>3, <1>4, <2>3, <3>1, <4>1
      <4>2. CASE one \in All(rows, waiting)
        BY <1>3, <1>4, <3>1, <4>2 DEF StopsAreTheirs
      <4> QED BY <2>1, <4>1, <4>2
    <3> HIDE DEF then
    <3> QED BY <2>0, <3>1, <3>2, <3>3, <3>4 DEF StopsAreTheirs, waits, then
  <2> QED BY <2>2, <2>3
<1> QED BY <1>5, <1>6
-----------------------------------------------------------------------------
(* What the history keeps of the record. *)
GivenAfter(given, record) == given \cup {<<record.key, record.action>>}

ClashAfter(clash, given, record) ==
  IF <<record.key, "D">> \in given /\ given \cap {<<record.key, "N">>, <<record.key, "R">>} # {}
  THEN clash \cup {record.key}
  ELSE IF record.action = "N" THEN clash ELSE clash \ {record.key}

(* A row of another key says nothing of this one. *)
LEMMA AppendOther ==
  ASSUME NEW S, NEW batch \in Seq(S), NEW row \in S, NEW key, row.key # key
  PROVE  /\ Mentions(Append(batch, row), key) <=> Mentions(batch, key)
         /\ \A one : First(Append(batch, row), key, one) <=> First(batch, key, one)
         /\ \A one : Final(Append(batch, row), key, one) <=> Final(batch, key, one)
<1>1. PICK more : more = Append(batch, row)
  OBVIOUS
<1>2. PICK m : m = Len(batch)
  OBVIOUS
<1>3. /\ m \in Nat /\ DOMAIN batch = 1 .. m /\ DOMAIN more = 1 .. m + 1
      /\ \A i \in 1 .. m : more[i] = batch[i]
      /\ more[m + 1] = row
  BY <1>1, <1>2, AppendIs
<1>4. /\ \A i \in 1 .. m + 1 : i \in 1 .. m \/ i = m + 1
      /\ \A i \in 1 .. m : i \in 1 .. m + 1 /\ i < m + 1 /\ ~(m + 1 < i)
      /\ m + 1 \in 1 .. m + 1
  BY <1>3
<1>5. Mentions(more, key) <=> Mentions(batch, key)
  BY <1>3, <1>4 DEF Mentions
<1>6. ASSUME NEW one PROVE First(more, key, one) <=> First(batch, key, one)
  BY <1>3, <1>4 DEF First
<1>7. ASSUME NEW one PROVE Final(more, key, one) <=> Final(batch, key, one)
  BY <1>3, <1>4 DEF Final
<1> QED BY <1>1, <1>5, <1>6, <1>7

(* A row of the key is the last of them, and the first if there was none. *)
LEMMA AppendSame ==
  ASSUME NEW S, NEW batch \in Seq(S), NEW row \in S, NEW key, row.key = key
  PROVE  /\ Mentions(Append(batch, row), key)
         /\ Final(Append(batch, row), key, Row(row))
         /\ \A one : First(batch, key, one) => First(Append(batch, row), key, one)
         /\ ~Mentions(batch, key) => First(Append(batch, row), key, Row(row))
<1>1. PICK more : more = Append(batch, row)
  OBVIOUS
<1>2. PICK m : m = Len(batch)
  OBVIOUS
<1>3. /\ m \in Nat /\ DOMAIN batch = 1 .. m /\ DOMAIN more = 1 .. m + 1
      /\ \A i \in 1 .. m : more[i] = batch[i]
      /\ more[m + 1] = row
  BY <1>1, <1>2, AppendIs
<1>4. /\ \A i \in 1 .. m + 1 : i \in 1 .. m \/ i = m + 1
      /\ \A i \in 1 .. m : i \in 1 .. m + 1 /\ i < m + 1 /\ ~(m + 1 < i)
      /\ m + 1 \in 1 .. m + 1 /\ ~(m + 1 < m + 1)
  BY <1>3
<1>5. Mentions(more, key)
  BY <1>3, <1>4 DEF Mentions
<1>6. Final(more, key, Row(row))
  BY <1>3, <1>4 DEF Final
<1>7. ASSUME NEW one, First(batch, key, one) PROVE First(more, key, one)
  BY <1>3, <1>4, <1>7 DEF First
<1>8. ASSUME ~Mentions(batch, key) PROVE First(more, key, Row(row))
  BY <1>3, <1>4, <1>8 DEF First, Mentions
<1> QED BY <1>1, <1>5, <1>6, <1>7, <1>8

(***************************************************************************)
(* The rows as written change at the key of the record, and there as its   *)
(* action says.                                                            *)
(***************************************************************************)
LEMMA WrittenIs ==
  ASSUME NEW written, NEW record, record.action \in Acts
  PROVE  /\ \A key : key # record.key => RowsOf(key, Written(written, record)) = RowsOf(key, written)
         /\ record.action = "N" /\ RowsOf(record.key, written) # {} => Written(written, record) = written
         /\ record.action = "N" /\ RowsOf(record.key, written) = {} =>
              RowsOf(record.key, Written(written, record)) = {Row(record)}
         /\ record.action = "R" => RowsOf(record.key, Written(written, record)) = {Row(record)}
         /\ record.action = "D" => RowsOf(record.key, Written(written, record)) = {}
<1>1. Row(record).key = record.key
  BY DEF Row
<1>2. CASE record.action = "N"
  BY <1>1, <1>2 DEF Written, Held, RowsOf
<1>3. CASE record.action = "R"
  BY <1>1, <1>3 DEF Written, Without, RowsOf
<1>4. CASE record.action = "D"
  BY <1>1, <1>4 DEF Written, Without, RowsOf
<1> QED BY <1>2, <1>3, <1>4 DEF Acts

(***************************************************************************)
(* A record and the rows as written: what is to come of the key is what    *)
(* the record makes of it, unless its feed deleted the key and gave it a   *)
(* row.                                                                    *)
(***************************************************************************)
LEMMA PushKeepsKeys ==
  ASSUME NEW keys, NEW rows, NEW waiting, Typed(keys, rows, waiting),
         NEW read \in Nat, NEW record, IsNext(record, keys, read), NEW last \in Nat,
         NEW given, NEW clash, NEW written, KeysAreRight(keys, rows, waiting, given, clash, written)
  PROVE  KeysAreRight(keys, rows, Push(waiting, record, last + 1), GivenAfter(given, record),
                      ClashAfter(clash, GivenAfter(given, record), record), Written(written, record))
<1>1. PICK waits : waits = Push(waiting, record, last + 1)
  OBVIOUS
<1>2. PICK row : row = NewRow(record, last + 1)
  OBVIOUS
<1>3. PICK more : more = GivenAfter(given, record)
  OBVIOUS
<1>4. PICK after : after = ClashAfter(clash, more, record)
  OBVIOUS
<1>5. PICK then : then = Written(written, record)
  OBVIOUS
<1>6. PICK action : action = record.action
  OBVIOUS
<1>7. /\ Waits(keys, waiting) /\ action \in Acts
  BY <1>6 DEF Typed, Waits, IsNext
<1>8. /\ row \in TableRow(keys) /\ row.key = record.key /\ Row(row) = Row(record)
      /\ waits[action] = Append(waiting[action], row)
      /\ \A other \in Acts \ {action} : waits[other] = waiting[other]
      /\ waiting[action] \in Seq(TableRow(keys))
  <2>1. /\ row \in TableRow(keys)
        /\ waits[record.action] = Append(waiting[record.action], row)
        /\ \A other \in Acts \ {record.action} : waits[other] = waiting[other]
    BY <1>1, <1>2, <1>7, PushIs
  <2>2. row.key = record.key /\ Row(row) = Row(record)
    BY <1>2 DEF NewRow, Row
  <2> QED BY <1>6, <1>7, <2>1, <2>2 DEF Waits
<1>9. SUFFICES ASSUME NEW key \in keys
               PROVE  /\ \A a \in Acts : Mentions(waits[a], key) => <<key, a>> \in more
                      /\ <<key, "D">> \in more /\ (<<key, "N">> \in more \/ <<key, "R">> \in more) => key \in after
                      /\ key \notin after => KeyIsRight(key, rows, waits, more, then)
  BY <1>1, <1>3, <1>4, <1>5 DEF KeysAreRight
<1>10. /\ \A a \in Acts : Mentions(waiting[a], key) => <<key, a>> \in given
       /\ <<key, "D">> \in given /\ (<<key, "N">> \in given \/ <<key, "R">> \in given) => key \in clash
       /\ key \notin clash => KeyIsRight(key, rows, waiting, given, written)
  BY DEF KeysAreRight
<1>11. CASE key # record.key
  <2>1. \A a \in Acts : <<key, a>> \in more <=> <<key, a>> \in given
    BY <1>3, <1>11 DEF GivenAfter
  <2>2. key \in after <=> key \in clash
    BY <1>4, <1>11 DEF ClashAfter
  <2>3. RowsOf(key, then) = RowsOf(key, written)
    BY <1>5, <1>6, <1>7, <1>11, WrittenIs
  <2>4. /\ Mentions(waits[action], key) <=> Mentions(waiting[action], key)
        /\ \A one : First(waits[action], key, one) <=> First(waiting[action], key, one)
        /\ \A one : Final(waits[action], key, one) <=> Final(waiting[action], key, one)
    <3>1. PICK batch : batch = waiting[action]
      OBVIOUS
    <3>2. batch \in Seq(TableRow(keys)) /\ row \in TableRow(keys) /\ row.key # key
      BY <1>8, <1>11, <3>1
    <3>3. /\ Mentions(Append(batch, row), key) <=> Mentions(batch, key)
          /\ \A one : First(Append(batch, row), key, one) <=> First(batch, key, one)
          /\ \A one : Final(Append(batch, row), key, one) <=> Final(batch, key, one)
      BY ONLY <3>2, AppendOther
    <3> QED BY <1>8, <3>1, <3>3
  <2>5. ASSUME NEW a \in Acts
        PROVE  /\ Mentions(waits[a], key) <=> Mentions(waiting[a], key)
               /\ \A one : First(waits[a], key, one) <=> First(waiting[a], key, one)
               /\ \A one : Final(waits[a], key, one) <=> Final(waiting[a], key, one)
    <3>1. CASE a = action
      BY <2>4, <3>1
    <3>2. CASE a # action
      BY <1>8, <3>2
    <3> QED BY <3>1, <3>2
  <2>6. KeyIsRight(key, rows, waiting, given, written) => KeyIsRight(key, rows, waits, more, then)
    BY <2>1, <2>3, <2>5 DEF KeyIsRight, Acts
  <2> QED BY <1>10, <2>1, <2>2, <2>5, <2>6 DEF Acts
<1>12. CASE key = record.key
  <2>1. \A a \in Acts : <<key, a>> \in more <=> a = action \/ <<key, a>> \in given
    BY <1>3, <1>6, <1>12 DEF GivenAfter
  <2>2. /\ <<key, "D">> \in more /\ (<<key, "N">> \in more \/ <<key, "R">> \in more) => key \in after
        /\ key \notin after /\ action = "N" => key \notin clash
    BY <1>4, <1>6, <1>12 DEF ClashAfter
  <2>3. \A a \in Acts : Mentions(waits[a], key) => <<key, a>> \in more
    <3>1. ASSUME NEW a \in Acts, a # action, Mentions(waits[a], key) PROVE <<key, a>> \in more
      BY <1>8, <1>10, <2>1, <3>1
    <3>2. <<key, action>> \in more
      BY <1>7, <2>1
    <3> QED BY <3>1, <3>2
  <2>4. /\ Mentions(waits[action], key)
        /\ Final(waits[action], key, Row(record))
        /\ \A one : First(waiting[action], key, one) => First(waits[action], key, one)
        /\ ~Mentions(waiting[action], key) => First(waits[action], key, Row(record))
    BY <1>8, <1>12, AppendSame
  <2>5. ASSUME key \notin after PROVE KeyIsRight(key, rows, waits, more, then)
    <3> DEFINE is == LeftOf(key, rows)
               should == RowsOf(key, written)
               shall == RowsOf(key, then)
    <3> SUFFICES
        /\ <<key, "D">> \in more => shall = {} /\ (Mentions(waits["D"], key) \/ is = {})
        /\ <<key, "R">> \in more =>
             \E one \in shall : /\ shall = {one}
                  /\ IF Mentions(waits["R"], key) THEN Final(waits["R"], key, one) ELSE is = {one}
        /\ <<key, "D">> \notin more /\ <<key, "R">> \notin more =>
             IF is = {} /\ Mentions(waits["N"], key)
             THEN \E one \in shall : shall = {one} /\ First(waits["N"], key, one)
             ELSE is = shall
      BY DEF KeyIsRight
    <3> HIDE DEF is
    <3>1. CASE action = "D"
      <4>1. shall = {}
        <5>1. record.action = "D" /\ record.action \in Acts
          BY <1>6, <1>7, <3>1
        <5>2. RowsOf(record.key, Written(written, record)) = {}
          BY ONLY <5>1, WrittenIs
        <5> QED BY <1>5, <1>7, <1>12, <5>2
      <4>2. <<key, "D">> \in more /\ <<key, "R">> \notin more
        BY <2>1, <2>2, <2>5, <3>1 DEF Acts
      <4> QED BY <2>4, <3>1, <4>1, <4>2
    <3>2. CASE action = "R"
      <4>1. shall = {Row(record)}
        <5>1. record.action = "R" /\ record.action \in Acts
          BY <1>6, <1>7, <3>2
        <5>2. RowsOf(record.key, Written(written, record)) = {Row(record)}
          BY ONLY <5>1, WrittenIs
        <5> QED BY <1>5, <1>7, <1>12, <5>2
      <4>2. <<key, "R">> \in more /\ <<key, "D">> \notin more
        BY <2>1, <2>2, <2>5, <3>2 DEF Acts
      <4> QED BY <2>4, <3>2, <4>1, <4>2
    <3>3. CASE action = "N"
      <4>1. /\ <<key, "D">> \notin more /\ <<key, "D">> \notin given
            /\ <<key, "R">> \in more <=> <<key, "R">> \in given
        BY <2>1, <2>2, <2>5, <3>3 DEF Acts
      <4>2. /\ should # {} => shall = should
            /\ should = {} => shall = {Row(record)}
        <5>1. record.action = "N" /\ record.action \in Acts
          BY <1>6, <1>7, <3>3
        <5>2. /\ RowsOf(record.key, written) # {} => Written(written, record) = written
              /\ RowsOf(record.key, written) = {} =>
                   RowsOf(record.key, Written(written, record)) = {Row(record)}
          BY ONLY <5>1, WrittenIs
        <5> QED BY <1>5, <1>7, <1>12, <5>2
      <4>3. /\ <<key, "R">> \in given =>
                 \E one \in should : /\ should = {one}
                      /\ IF Mentions(waiting["R"], key) THEN Final(waiting["R"], key, one) ELSE is = {one}
            /\ <<key, "D">> \notin given /\ <<key, "R">> \notin given =>
                 IF is = {} /\ Mentions(waiting["N"], key)
                 THEN \E one \in should : should = {one} /\ First(waiting["N"], key, one)
                 ELSE is = should
        BY <1>10, <2>2, <2>5, <3>3 DEF KeyIsRight, is
      <4> HIDE DEF should, shall
      <4>4. waits["R"] = waiting["R"]
        BY <1>8, <3>3 DEF Acts
      <4>5. CASE <<key, "R">> \in given
        BY <4>1, <4>2, <4>3, <4>4, <4>5
      <4>6. CASE <<key, "R">> \notin given
        <5>1. CASE is = {} /\ Mentions(waiting["N"], key)
          <6>1. PICK one \in should : should = {one} /\ First(waiting["N"], key, one)
            BY <4>1, <4>3, <4>6, <5>1
          <6> QED BY <2>4, <3>3, <4>1, <4>2, <4>6, <5>1, <6>1
        <5>2. CASE is = {} /\ ~Mentions(waiting["N"], key)
          <6>1. should = {}
            BY <4>1, <4>3, <4>6, <5>2
          <6> QED BY <2>4, <3>3, <4>1, <4>2, <4>6, <5>2, <6>1
        <5>3. CASE is # {}
          <6>1. is = should
            BY <4>1, <4>3, <4>6, <5>3
          <6> QED BY <3>3, <4>1, <4>2, <4>6, <5>3, <6>1
        <5> QED BY <5>1, <5>2, <5>3
      <4> QED BY <4>5, <4>6
    <3> QED BY <1>7, <3>1, <3>2, <3>3 DEF Acts
  <2> QED BY <2>2, <2>3, <2>5
<1> QED BY <1>11, <1>12
-----------------------------------------------------------------------------
(* The file source.  What a map holds once a pending schedule is stored. *)
StoredIn(schedules, new) ==
  {schedule \in schedules : \A other \in new : other.key # schedule.key} \cup new

(* That is how each file is stored. *)
LEMMA StoredIs ==
  ASSUME NEW file \in Files
  PROVE  Stored[file] = StoredIn(kept[file], {schedule \in pending : schedule.file = file /\ Yields(schedule)})
BY DEF Stored, StoredIn

(* Storing nothing changes nothing. *)
LEMMA NothingNewIsStored ==
  ASSUME NEW schedules
  PROVE  StoredIn(schedules, {}) = schedules
BY DEF StoredIn

(* Only schedules that yield something are stored. *)
LEMMA StoredIsMine ==
  ASSUME NEW file \in Files, \A schedule \in kept[file] : Yields(schedule)
  PROVE  /\ Stored[file] \subseteq kept[file] \cup {schedule \in pending : schedule.file = file}
         /\ \A schedule \in Stored[file] : Yields(schedule)
<1> DEFINE new == {schedule \in pending : schedule.file = file /\ Yields(schedule)}
<1>1. Stored[file] \subseteq kept[file] \cup new
  BY StoredIs DEF StoredIn
<1> QED BY <1>1

(* Storing one schedule replaces what its key held and nothing else. *)
LEMMA HasAfterStoring ==
  ASSUME NEW schedules, NEW one
  PROVE  /\ Has(one.key, StoredIn(schedules, {one})) = {<<one.n, one.calls>>}
         /\ \A key : key # one.key => Has(key, StoredIn(schedules, {one})) = Has(key, schedules)
BY DEF Has, StoredIn

(* A key that is dropped is gone, and no other. *)
LEMMA HasWithout ==
  ASSUME NEW schedules, NEW key
  PROVE  /\ Has(key, Without(schedules, key)) = {}
         /\ \A other : other # key => Has(other, Without(schedules, key)) = Has(other, schedules)
         /\ Held(key, schedules) <=> Has(key, schedules) # {}
BY DEF Has, Without, Held

(* What is wanted of a key depends on its own rows. *)
LEMMA WantedIs ==
  ASSUME NEW key, NEW written, NEW file
  PROVE  /\ RowsOf(key, written) = {} => Wanted(key, written, file) = {}
         /\ \A other : RowsOf(key, other) = RowsOf(key, written)
              => Wanted(key, other, file) = Wanted(key, written, file)
<1>1. RowsOf(key, written) = {} => Wanted(key, written, file) = {}
  BY DEF Wanted
<1>2. \A other : RowsOf(key, other) = RowsOf(key, written)
              => Wanted(key, other, file) = Wanted(key, written, file)
  BY DEF Wanted
<1> QED BY <1>1, <1>2

(* What is wanted of the one row of a key. *)
LEMMA WantedOfOne ==
  ASSUME NEW key, NEW written, NEW file, NEW row, RowsOf(key, written) = {row}
  PROVE  Wanted(key, written, file)
           = IF row.live /\ (row.calls = "station" \/ (row.calls = "none" /\ file = "schedule"))
             THEN {<<row.n, row.calls>>} ELSE {}
BY DEF Wanted

(***************************************************************************)
(* What a record does to the map, and what applying it in order does: one  *)
(* key, and the same to both unless the key is shadowed.                   *)
(***************************************************************************)
NewSchedule(record, id) ==
  [id |-> id, file |-> record.file, key |-> record.key, n |-> record.n, calls |-> record.calls]

IsPending(record, schedules) ==
  record.live /\ (record.action = "N" => ~Held(record.key, schedules)) /\ record.action # "D"

PendingAfter(record, schedules, id) ==
  IF IsPending(record, schedules) THEN {NewSchedule(record, id)} ELSE {}

KeptAfter(record, schedules) ==
  IF DropsTheOld(record) THEN Without(schedules, record.key) ELSE schedules

MapAfter(record, schedules, id) ==
  StoredIn(KeptAfter(record, schedules), {schedule \in PendingAfter(record, schedules, id) : Yields(schedule)})

ShadowAfter(shadow, record, written, schedules) ==
  IF record.action # "N"
  THEN shadow \ {record.key}
  ELSE IF record.live /\ Held(record.key, written) /\ ~Held(record.key, schedules)
  THEN shadow \cup {record.key}
  ELSE shadow

(* The record is stored if it is wanted and yields something. *)
LEMMA MapAfterIs ==
  ASSUME NEW record, NEW schedules, NEW id
  PROVE  /\ MapAfter(record, schedules, id) =
              IF IsPending(record, schedules) /\ Yields(NewSchedule(record, id))
              THEN StoredIn(KeptAfter(record, schedules), {NewSchedule(record, id)})
              ELSE KeptAfter(record, schedules)
<1>1. PICK new : new = NewSchedule(record, id)
  OBVIOUS
<1>2. CASE IsPending(record, schedules) /\ Yields(new)
  <2>1. {schedule \in PendingAfter(record, schedules, id) : Yields(schedule)} = {new}
    BY <1>1, <1>2 DEF PendingAfter
  <2> QED BY <1>1, <1>2, <2>1 DEF MapAfter
<1>3. CASE ~(IsPending(record, schedules) /\ Yields(new))
  <2>1. {schedule \in PendingAfter(record, schedules, id) : Yields(schedule)} = {}
    BY <1>1, <1>3 DEF PendingAfter
  <2> QED BY <1>1, <1>3, <2>1, NothingNewIsStored DEF MapAfter
<1> QED BY <1>1, <1>2, <1>3

(* A map that has what is wanted has it after one more record. *)
LEMMA MapTakesARecord ==
  ASSUME NEW keys, NEW read, NEW record, IsNext(record, keys, read), NEW schedules, NEW id,
         NEW written, NEW shadow, NEW file, file = record.file,
         \A key \in keys \ shadow : Has(key, schedules) = Wanted(key, written, file)
  PROVE  \A key \in keys \ ShadowAfter(shadow, record, written, schedules) :
           Has(key, MapAfter(record, schedules, id)) = Wanted(key, Written(written, record), file)
<1>1. PICK map : map = MapAfter(record, schedules, id)
  OBVIOUS
<1>2. PICK new : new = NewSchedule(record, id)
  OBVIOUS
<1>3. PICK then : then = Written(written, record)
  OBVIOUS
<1>4. PICK stays : stays = KeptAfter(record, schedules)
  OBVIOUS
<1>5. SUFFICES ASSUME NEW key \in keys \ ShadowAfter(shadow, record, written, schedules)
               PROVE Has(key, map) = Wanted(key, then, file)
  BY <1>1, <1>3
<1>6. /\ new.key = record.key /\ new.n = record.n /\ new.calls = record.calls
      /\ Row(record).n = record.n /\ Row(record).calls = record.calls /\ Row(record).live = record.live
      /\ Yields(new) <=> record.calls = "station" \/ (record.calls = "none" /\ file = "schedule")
      /\ record.action \in Acts /\ record.live \in BOOLEAN
  BY <1>2 DEF NewSchedule, Row, Yields, IsNext
<1>7. map = IF IsPending(record, schedules) /\ Yields(new) THEN StoredIn(stays, {new}) ELSE stays
  BY <1>1, <1>2, <1>4, MapAfterIs
<1>8. /\ Has(new.key, StoredIn(stays, {new})) = {<<new.n, new.calls>>}
      /\ key # new.key => Has(key, StoredIn(stays, {new})) = Has(key, stays)
  BY HasAfterStoring
<1>9. CASE key # record.key
  <2>1. key \notin shadow
    BY <1>5, <1>9 DEF ShadowAfter
  <2>2. Has(key, stays) = Has(key, schedules)
    BY <1>4, <1>9, HasWithout DEF KeptAfter
  <2>3. Has(key, map) = Has(key, schedules)
    BY <1>6, <1>7, <1>8, <1>9, <2>2
  <2>4. RowsOf(key, then) = RowsOf(key, written)
    BY <1>3, <1>6, <1>9, WrittenIs
  <2>5. Wanted(key, then, file) = Wanted(key, written, file)
    BY <2>4, WantedIs
  <2> QED BY <2>1, <2>3, <2>5
<1>10. CASE key = record.key /\ record.action = "D"
  <2>1. map = Without(schedules, key)
    BY <1>4, <1>7, <1>10 DEF IsPending, KeptAfter, DropsTheOld
  <2>2. RowsOf(key, then) = {}
    BY <1>3, <1>6, <1>10, WrittenIs
  <2> QED BY <2>1, <2>2, HasWithout, WantedIs
<1> DEFINE Wants == record.live /\ (record.calls = "station" \/ (record.calls = "none" /\ file = "schedule"))
           new1 == IF Wants THEN {<<record.n, record.calls>>} ELSE {}
<1>11. RowsOf(key, then) = {Row(record)} => Wanted(key, then, file) = new1
  <2>1. PICK row : row = Row(record)
    OBVIOUS
  <2>2. ASSUME RowsOf(key, then) = {row}
        PROVE  Wanted(key, then, file)
                 = IF row.live /\ (row.calls = "station" \/ (row.calls = "none" /\ file = "schedule"))
                   THEN {<<row.n, row.calls>>} ELSE {}
    BY ONLY <2>2, WantedOfOne
  <2> QED BY <1>6, <2>1, <2>2
<1>12. CASE key = record.key /\ record.action = "R"
  <2>1. RowsOf(key, then) = {Row(record)}
    BY <1>3, <1>6, <1>12, WrittenIs
  <2>2. stays = Without(schedules, key)
    BY <1>4, <1>12 DEF KeptAfter, DropsTheOld
  <2>3. Has(key, stays) = {}
    BY <2>2, HasWithout
  <2>4. IsPending(record, schedules) <=> record.live
    BY <1>12 DEF IsPending
  <2>5. Has(key, map) = new1
    BY <1>6, <1>7, <1>8, <1>12, <2>3, <2>4
  <2> QED BY <1>11, <2>1, <2>5
<1>13. CASE key = record.key /\ record.action = "N"
  <2>1. /\ key \notin shadow
        /\ ~(record.live /\ Held(key, written) /\ ~Held(key, schedules))
    BY <1>5, <1>13 DEF ShadowAfter
  <2>2. Has(key, schedules) = Wanted(key, written, file)
    BY <2>1
  <2>3. stays = schedules
    BY <1>4, <1>13 DEF KeptAfter, DropsTheOld
  <2>4. Held(key, written) <=> RowsOf(key, written) # {}
    BY DEF Held, RowsOf
  <2>5. IsPending(record, schedules) <=> record.live /\ ~Held(key, schedules)
    BY <1>13 DEF IsPending
  <2>6. CASE Held(key, written)
    <3>1. then = written
      BY <1>3, <1>6, <1>13, <2>4, <2>6, WrittenIs
    <3>2. map = schedules
      BY <1>7, <2>1, <2>3, <2>5, <2>6
    <3> QED BY <2>2, <3>1, <3>2
  <2>7. CASE ~Held(key, written)
    <3>1. RowsOf(key, then) = {Row(record)}
      BY <1>3, <1>6, <1>13, <2>4, <2>7, WrittenIs
    <3>2. Has(key, schedules) = {}
      BY <2>2, <2>4, <2>7, WantedIs
    <3>3. ~Held(key, schedules)
      BY <3>2, HasWithout
    <3>4. Has(key, map) = new1
      BY <1>6, <1>7, <1>8, <1>13, <2>3, <2>5, <3>2, <3>3
    <3> QED BY <1>11, <3>1, <3>4
  <2> QED BY <2>6, <2>7
<1> QED BY <1>6, <1>9, <1>10, <1>12, <1>13 DEF Acts
-----------------------------------------------------------------------------
(* The greatest is the one that the fewest are above. *)
LEMMA MaxIsGreatest ==
  ASSUME NEW S \in SUBSET Int, S # {}, IsFiniteSet(S)
  PROVE  Max(S) \in S /\ \A y \in S : y <= Max(S)
<1> DEFINE above(x) == {y \in S : x < y}
           counts == {Cardinality(above(x)) : x \in S}
<1>1. ASSUME NEW x \in S PROVE IsFiniteSet(above(x)) /\ Cardinality(above(x)) \in Nat
  <2>1. above(x) \in SUBSET S
    OBVIOUS
  <2> HIDE DEF above
  <2>2. IsFiniteSet(above(x))
    BY <2>1, FS_Subset
  <2> QED BY <2>2, FS_CardinalityType
<1>2. counts \in SUBSET Nat /\ counts # {}
  <2> HIDE DEF above
  <2> QED BY <1>1
<1>3. PICK least \in counts : \A c \in counts : least <= c
  BY <1>2, LeastExists
<1>4. PICK x \in S : least = Cardinality(above(x))
  <2> HIDE DEF above
  <2> QED BY <1>3
<1>5. ASSUME NEW y \in S PROVE x >= y
  <2> SUFFICES ASSUME x < y PROVE FALSE
    OBVIOUS
  <2>1. x \in Int /\ y \in Int /\ \A z \in S : z \in Int
    OBVIOUS
  <2>2. ~(y < y) /\ \A z \in S : y < z => x < z
    BY <2>1
  <2>3. above(y) \in SUBSET above(x) /\ y \in above(x) /\ y \notin above(y)
    BY <2>2
  <2>4. Cardinality(above(x)) <= Cardinality(above(y))
    BY <1>3, <1>4
  <2> HIDE DEF above
  <2>5. Cardinality(above(y)) <= Cardinality(above(x)) /\ Cardinality(above(y)) # Cardinality(above(x))
    BY <1>1, <2>3, FS_Subset
  <2> QED BY <1>1, <2>4, <2>5
<1>6. \E z \in S : \A y \in S : z >= y
  BY <1>5
<1>7. Max(S) \in S /\ \A y \in S : Max(S) >= y
  BY <1>6 DEF Max
<1> QED BY <1>7

(* A counter goes on above every id of its table. *)
LEMMA MaxIdIs ==
  ASSUME NEW rows, IsFiniteSet(rows), \A row \in rows : row.id \in Nat
  PROVE  MaxId(rows) \in Nat /\ \A row \in rows : row.id <= MaxId(rows)
<1> DEFINE ids == {row.id : row \in rows}
<1>1. IsFiniteSet(ids)
  <2> DEFINE f == [row \in rows |-> row.id]
  <2>1. f \in Surjection(rows, ids)
    BY DEF Surjection
  <2> HIDE DEF f, ids
  <2> QED BY <2>1, FS_Surjection
<1>2. IsFiniteSet(ids \cup {0})
  <2> HIDE DEF ids
  <2> QED BY <1>1, FS_AddElement
<1>3. ids \cup {0} \subseteq Nat /\ ids \cup {0} \in SUBSET Int /\ ids \cup {0} # {}
  OBVIOUS
<1>4. MaxId(rows) \in ids \cup {0} /\ \A y \in ids \cup {0} : y <= MaxId(rows)
  <2>1. PICK all : all = ids \cup {0}
    OBVIOUS
  <2>2. Max(all) \in all /\ \A y \in all : y <= Max(all)
    BY <1>2, <1>3, <2>1, MaxIsGreatest
  <2> QED BY <2>1, <2>2 DEF MaxId
<1> QED BY <1>3, <1>4

(* Nothing waits. *)
Empty == [action \in Acts |-> <<>>]

(* Nothing waits: no row, no key, no order to keep. *)
LEMMA EmptyIs ==
  /\ \A action \in Acts : Empty[action] = <<>> /\ Elements(Empty[action]) = {}
  /\ \A action \in Acts : InOrder(Empty[action])
  /\ \A action \in Acts : \A key : ~Mentions(Empty[action], key)
  /\ \A keys : Empty \in [Acts -> Seq(TableRow(keys))]
  /\ \A rows : All(rows, Empty) = rows
<1>1. DOMAIN <<>> = {}
  OBVIOUS
<1>2. \A action \in Acts : Empty[action] = <<>>
  BY DEF Empty
<1>3. \A action \in Acts : Elements(Empty[action]) = {}
  BY <1>1, <1>2 DEF Elements
<1>4. \A action \in Acts : InOrder(Empty[action])
  BY <1>1, <1>2 DEF InOrder
<1>5. \A action \in Acts : \A key : ~Mentions(Empty[action], key)
  BY <1>1, <1>2 DEF Mentions
<1>6. ASSUME NEW keys PROVE Empty \in [Acts -> Seq(TableRow(keys))]
  <2>1. <<>> \in Seq(TableRow(keys))
    OBVIOUS
  <2> QED BY <2>1 DEF Empty
<1>7. \A rows : All(rows, Empty) = rows
  BY <1>3 DEF All, Acts
<1> QED BY <1>2, <1>3, <1>4, <1>5, <1>6, <1>7

(* A record of the other file is read. *)
LEMMA ReadMoreIsRight ==
  ASSUME NEW keys, NEW rows, NEW waiting, NEW last, NEW read \in Nat, NEW given, NEW clash, NEW written,
         NEW stops, NEW lastStop,
         IsRight(keys, rows, waiting, last, read, given, clash, written, stops, lastStop)
  PROVE  IsRight(keys, rows, waiting, last, read + 1, given, clash, written, stops, lastStop)
<1>1. All(rows, waiting) \subseteq TableRow(keys)
  <2>1. \A a \in Acts : Elements(waiting[a]) \subseteq TableRow(keys)
    BY DEF IsRight, Typed, Elements
  <2> QED BY <2>1 DEF IsRight, Typed, All, Acts
<1>2. \A row \in All(rows, waiting) : row.n \in Nat
  BY <1>1 DEF TableRow
<1>3. IdsAreFresh(rows, waiting, last, read)
  BY DEF IsRight
<1>4. \A row \in All(rows, waiting) : row.n <= read + 1
  BY <1>2, <1>3 DEF IdsAreFresh
<1>5. IdsAreFresh(rows, waiting, last, read + 1)
  BY <1>3, <1>4 DEF IdsAreFresh
<1> QED BY <1>5 DEF IsRight

(* A statement runs. *)
LEMMA RunIsRight ==
  ASSUME NEW keys, NEW rows, NEW waiting, NEW last, NEW read, NEW given, NEW clash, NEW written,
         NEW stops, NEW lastStop,
         IsRight(keys, rows, waiting, last, read, given, clash, written, stops, lastStop),
         NEW action \in Acts
  PROVE  IsRight(keys, After(action, rows, waiting), Rest(action, waiting), last, read,
                 given, clash, written, stops, lastStop)
<1>1. Typed(keys, rows, waiting) /\ IdsAreFresh(rows, waiting, last, read)
  BY DEF IsRight
<1>2. Typed(keys, After(action, rows, waiting), Rest(action, waiting))
  BY <1>1, RunKeepsTypes
<1>3. IdsAreFresh(After(action, rows, waiting), Rest(action, waiting), last, read)
  BY <1>1, RunKeepsIds
<1>4. KeysAreRight(keys, After(action, rows, waiting), Rest(action, waiting), given, clash, written)
  <2>1. KeysAreRight(keys, rows, waiting, given, clash, written)
    BY DEF IsRight
  <2> QED BY <1>1, <2>1, RunKeepsKeys
<1>5. StopsAreTheirs(After(action, rows, waiting), Rest(action, waiting), last, stops, lastStop)
  <2>1. StopsAreTheirs(rows, waiting, last, stops, lastStop)
    BY DEF IsRight
  <2> QED BY <1>1, <2>1, RunKeepsStops
<1> QED BY <1>2, <1>3, <1>4, <1>5 DEF IsRight

(* A record is read, and no buffer is full. *)
LEMMA PushIsRight ==
  ASSUME NEW keys, NEW rows, NEW waiting, NEW last \in Nat, NEW read \in Nat, NEW given, NEW clash, NEW written,
         NEW stops, NEW lastStop \in Nat,
         IsRight(keys, rows, waiting, last, read, given, clash, written, stops, lastStop),
         NEW record, IsNext(record, keys, read)
  PROVE  IsRight(keys, rows, Push(waiting, record, last + 1), NextId(last, record), read + 1,
                 GivenAfter(given, record), ClashAfter(clash, GivenAfter(given, record), record),
                 Written(written, record),
                 StopsAfter(stops, record, last + 1, lastStop + 1), NextStopId(lastStop, record))
<1>1. Typed(keys, rows, waiting) /\ IdsAreFresh(rows, waiting, last, read)
  BY DEF IsRight
<1>2. Typed(keys, rows, Push(waiting, record, last + 1))
  BY <1>1, PushKeepsTypes
<1>3. IdsAreFresh(rows, Push(waiting, record, last + 1), NextId(last, record), read + 1)
  BY <1>1, PushKeepsIds
<1>4. KeysAreRight(keys, rows, Push(waiting, record, last + 1), GivenAfter(given, record),
                   ClashAfter(clash, GivenAfter(given, record), record), Written(written, record))
  <2>1. KeysAreRight(keys, rows, waiting, given, clash, written)
    BY DEF IsRight
  <2> QED BY <1>1, <2>1, PushKeepsKeys
<1>5. /\ StopsAfter(stops, record, last + 1, lastStop + 1) \subseteq StopRow
      /\ IsFiniteSet(StopsAfter(stops, record, last + 1, lastStop + 1))
      /\ StopsAreTheirs(rows, Push(waiting, record, last + 1), NextId(last, record),
                        StopsAfter(stops, record, last + 1, lastStop + 1), NextStopId(lastStop, record))
  <2>1. StopsAreTheirs(rows, waiting, last, stops, lastStop) /\ stops \in SUBSET StopRow /\ IsFiniteSet(stops)
    BY DEF IsRight
  <2> QED BY <1>1, <2>1, PushKeepsStops
<1> QED BY <1>2, <1>3, <1>4, <1>5 DEF IsRight

(* A refresh begins with empty tables. *)
LEMMA FirstOpenIsRight ==
  ASSUME NEW keys, NEW read
  PROVE  IsRight(keys, {}, Empty, 0, read, {}, {}, {}, {}, 0)
<1>1. Typed(keys, {}, Empty)
  BY EmptyIs, FS_EmptySet DEF Typed, Unique
<1>2. All({}, Empty) = {}
  BY EmptyIs
<1>3. IdsAreFresh({}, Empty, 0, read)
  BY <1>2, EmptyIs DEF IdsAreFresh, Acts
<1>4. KeysAreRight(keys, {}, Empty, {}, {}, {})
  BY EmptyIs DEF KeysAreRight, KeyIsRight, LeftOf, RowsOf, Acts
<1>5. StopsAreTheirs({}, Empty, 0, {}, 0)
  BY <1>2 DEF StopsAreTheirs
<1> QED BY <1>1, <1>3, <1>4, <1>5, FS_EmptySet DEF IsRight
-----------------------------------------------------------------------------
(* Between feeds nothing waits and nothing is pending. *)
LEMMA SettledIsAsWritten ==
  ASSUME NEW keys, NEW rows, NEW given, NEW clash, NEW written,
         KeysAreRight(keys, rows, Empty, given, clash, written), NEW key \in keys, key \notin clash
  PROVE  LeftOf(key, rows) = RowsOf(key, written)
<1>1. KeyIsRight(key, rows, Empty, given, written)
  BY DEF KeysAreRight
<1>2. \A action \in Acts : ~Mentions(Empty[action], key)
  BY EmptyIs
<1> QED BY <1>1, <1>2 DEF KeyIsRight, Acts

(***************************************************************************)
(* Another feed is opened: each counter goes on above every id of its      *)
(* table, and no stop is of a schedule above that, as orphans are gone.    *)
(***************************************************************************)
LEMMA NextOpenIsRight ==
  ASSUME NEW keys, NEW rows, NEW last, NEW read, NEW given, NEW clash, NEW written,
         NEW stops, NEW lastStop,
         IsRight(keys, rows, Empty, last, read, given, clash, written, stops, lastStop),
         NoOrphans(rows, stops)
  PROVE  /\ IsRight(keys, rows, Empty, MaxId(rows), read, {}, clash, written, stops, MaxId(stops))
         /\ MaxId(rows) \in Nat /\ MaxId(stops) \in Nat
<1>1. Typed(keys, rows, Empty) /\ IdsAreFresh(rows, Empty, last, read)
  BY DEF IsRight
<1>2. MaxId(rows) \in Nat /\ \A row \in rows : row.id <= MaxId(rows)
  BY <1>1, MaxIdIs DEF Typed, TableRow
<1>3. MaxId(stops) \in Nat /\ \A stop \in stops : stop.id <= MaxId(stops)
  BY MaxIdIs DEF IsRight, StopRow
<1>4. All(rows, Empty) = rows
  BY EmptyIs
<1>5. IdsAreFresh(rows, Empty, MaxId(rows), read)
  BY <1>1, <1>2, <1>4, EmptyIs DEF IdsAreFresh, Acts
<1>6. KeysAreRight(keys, rows, Empty, {}, clash, written)
  <2>1. \A key \in keys \ clash : LeftOf(key, rows) = RowsOf(key, written)
    BY SettledIsAsWritten DEF IsRight
  <2>2. \A key \in keys : \A action \in Acts : ~Mentions(Empty[action], key)
    BY EmptyIs
  <2> QED BY <2>1, <2>2 DEF KeysAreRight, KeyIsRight, Acts
<1>7. StopsAreTheirs(rows, Empty, MaxId(rows), stops, MaxId(stops))
  <2>1. \A stop \in stops : stop.schedule <= MaxId(rows)
    BY <1>2 DEF NoOrphans
  <2> QED BY <1>3, <2>1 DEF IsRight, StopsAreTheirs
<1> QED BY <1>1, <1>2, <1>3, <1>5, <1>6, <1>7 DEF IsRight

(* The stops of the rows that are gone are removed, and those alone. *)
LEMMA FinishIsRight ==
  ASSUME NEW keys, NEW rows, NEW last, NEW read, NEW given, NEW clash, NEW written,
         NEW stops, NEW lastStop,
         IsRight(keys, rows, Empty, last, read, given, clash, written, stops, lastStop),
         NEW left, left = {stop \in stops : \E row \in rows : row.id = stop.schedule}
  PROVE  /\ IsRight(keys, rows, Empty, last, read, given, clash, written, left, lastStop)
         /\ NoOrphans(rows, left)
<1>1. All(rows, Empty) = rows
  BY EmptyIs
<1>2. StopsAreTheirs(rows, Empty, last, left, lastStop)
  BY <1>1 DEF IsRight, StopsAreTheirs
<1>3. IsFiniteSet(left) /\ left \subseteq StopRow
  BY FS_Subset DEF IsRight
<1>4. NoOrphans(rows, left)
  BY DEF NoOrphans
<1> QED BY <1>2, <1>3, <1>4 DEF IsRight
-----------------------------------------------------------------------------
(* The tables are apart from one another. *)
LEMMA TablesApart ==
  /\ \A file \in Files :
       /\ file \in Counted /\ file \in Tables /\ StopTable(file) \in Counted /\ StopTable(file) \in Tables
       /\ ExtraTable(file) \in Tables
       /\ \A other \in Files :
            /\ StopTable(file) # other /\ ExtraTable(file) # other /\ ExtraTable(file) # StopTable(other)
            /\ StopTable(file) = StopTable(other) => file = other
  /\ \A table \in Counted : table \in Tables
BY DEF Counted, Tables, Files, StopTable, ExtraTable

(* Nothing of a file is sent before its end ... *)
LEMMA NoneSentWhileReading ==
  ASSUME WhereItIs, NEW file \in Files, stage = file
  PROVE  \A action \in Acts : SentFor(file, action) = {} /\ Waiting(file)[action] = buffers[file][action]
<1>1. \A sent \in inFlight : sent.file # file
  BY DEF WhereItIs, Files
<1>2. \A action \in Acts : SentFor(file, action) = {}
  BY <1>1 DEF SentFor
<1> QED BY <1>2 DEF Waiting

(* ... what is sent of it waits, and nothing is held back beside it ... *)
LEMMA SentWaits ==
  ASSUME WhereItIs, NEW sent \in inFlight
  PROVE  /\ sent.file \in Files /\ sent.action \in Acts /\ sent.rows # <<>>
         /\ SentFor(sent.file, sent.action) = {sent}
         /\ Waiting(sent.file)[sent.action] = sent.rows
         /\ buffers[sent.file][sent.action] = <<>>
         /\ stage # sent.file /\ stage # "between feeds"
<1>1. /\ sent.file \in Files /\ sent.action \in Acts /\ sent.rows # <<>>
      /\ stage # sent.file /\ stage # "between feeds"
  BY DEF WhereItIs, Files
<1>2. SentFor(sent.file, sent.action) = {sent}
  BY DEF WhereItIs, SentFor
<1>3. Only(SentFor(sent.file, sent.action)) = sent
  BY <1>2 DEF Only
<1>4. Waiting(sent.file)[sent.action] = sent.rows
  BY <1>1, <1>2, <1>3 DEF Waiting
<1>5. buffers[sent.file] = Nothing[sent.file]
  BY <1>1 DEF WhereItIs, Files
<1>6. Nothing[sent.file][sent.action] = <<>>
  BY <1>1 DEF Nothing, Acts
<1> QED BY <1>1, <1>2, <1>4, <1>5, <1>6

(* ... and once all of it has run nothing waits. *)
LEMMA NothingWaits ==
  ASSUME WhereItIs, inFlight = {}, stage \notin Files, NEW file \in Files
  PROVE  Waiting(file) = Empty
<1>1. buffers[file] = Nothing[file]
  BY DEF WhereItIs, Files
<1>2. \A action \in Acts : buffers[file][action] = <<>>
  BY <1>1 DEF Nothing, Acts
<1>3. \A action \in Acts : SentFor(file, action) = {}
  BY DEF SentFor
<1> QED BY <1>2, <1>3 DEF Waiting, Empty

(* Between feeds every statement has run. *)
LEMMA NoneSentBetweenFeeds ==
  ASSUME WhereItIs, stage = "between feeds"
  PROVE  inFlight = {}
BY DEF WhereItIs

(* What a line of the feed is. *)
LEMMA RecordIs ==
  ASSUME stage \in Files, NEW record \in Records(stage)
  PROVE  /\ record.file = stage
         /\ IsNext(record, Keys(stage), records)
<1>1. /\ record.n = records + 1 /\ record.file = stage /\ record.key \in Keys(stage)
      /\ record.action \in Actions(stage) /\ record.live \in BOOLEAN /\ record.calls \in Calls(stage)
      /\ record.action = "D" => record.calls = "none"
  BY DEF Records
<1>2. record.action \in Acts /\ record.calls \in Calls("schedule")
  BY <1>1 DEF Actions, Acts, Calls, Files
<1> QED BY <1>1, <1>2 DEF IsNext

(***************************************************************************)
(* apply of MySQLTable: the row is pushed, and if that fills the buffer    *)
(* the statement runs.  The stop goes to its own table.                    *)
(***************************************************************************)
LEMMA ReadPushes ==
  ASSUME Shapes, WhereItIs, stage \in Files, NEW record \in Records(stage), ImportReads(record)
  PROVE  LET file == record.file
             pushed == Push(Waiting(file), record, lastId[file] + 1)
         IN
         /\ \/ Waiting(file)' = pushed /\ db'[file] = db[file]
            \/ /\ Waiting(file)' = Rest(record.action, pushed)
               /\ db'[file] = After(record.action, db[file], pushed)
         /\ lastId'[file] = NextId(lastId[file], record)
         /\ lastId'[StopTable(file)] = NextStopId(lastId[StopTable(file)], record)
         /\ record.calls = "none" => db'[StopTable(file)] = db[StopTable(file)]
         /\ record.calls # "none" =>
              db'[StopTable(file)] = InsertIgnoreById(db[StopTable(file)],
                NewStop(record, lastId[file] + 1, lastId[StopTable(file)] + 1))
<1> DEFINE file == record.file
           action == record.action
           pushed == Push(Waiting(file), record, lastId[file] + 1)
           row == NewRow(record, lastId[file] + 1)
           stop == NewStop(record, lastId[file] + 1, lastId[StopTable(file)] + 1)
           batch == Append(buffers[file][action], row)
           full == Len(batch) >= FlushLimit
<1>1. /\ file \in Files /\ file = stage /\ action \in Acts
      /\ file \in Counted /\ file \in Tables /\ StopTable(file) \in Counted /\ StopTable(file) \in Tables
      /\ StopTable(file) # file /\ ExtraTable(file) # file /\ ExtraTable(file) # StopTable(file)
  BY RecordIs, TablesApart DEF IsNext
<1>2. /\ lastId' = [table \in Counted |->
           IF table \in (IF action # "D" THEN {file} ELSE {}) \cup (IF record.calls # "none" THEN {StopTable(file)} ELSE {})
           THEN lastId[table] + 1 ELSE lastId[table]]
      /\ buffers' = [buffers EXCEPT ![file][action] = IF full THEN <<>> ELSE batch]
      /\ db' = [table \in Tables |->
           CASE table = file /\ full -> Query(action, db[table], batch)
             [] table = StopTable(file) /\ record.calls # "none" -> InsertIgnoreById(db[table], stop)
             [] table = ExtraTable(file) /\ action # "D" ->
                  db[table] \cup {[schedule |-> lastId[file] + 1, n |-> record.n]}
             [] OTHER -> db[table]]
      /\ inFlight' = inFlight
  BY DEF ImportReads, NewRow, NewStop
<1>3. /\ pushed[action] = batch
      /\ \A other \in Acts \ {action} : pushed[other] = buffers[file][other]
      /\ DOMAIN pushed = Acts /\ pushed = [a \in Acts |-> pushed[a]]
  <2>1. \A a \in Acts : Waiting(file)[a] = buffers[file][a]
    BY <1>1, NoneSentWhileReading
  <2>2. DOMAIN Waiting(file) = Acts
    BY DEF Waiting
  <2> HIDE DEF row
  <2>3. pushed = [a \in Acts |-> IF a = action THEN Append(Waiting(file)[action], row) ELSE Waiting(file)[a]]
    BY <2>2 DEF Push, row
  <2> QED BY <1>1, <2>1, <2>3
<1>4. \A a \in Acts : SentFor(file, a)' = {}
  BY <1>1, <1>2, NoneSentWhileReading DEF SentFor
<1>5. \A a \in Acts : Waiting(file)'[a] = buffers'[file][a]
  BY <1>4 DEF Waiting
<1>6. Waiting(file)' = [a \in Acts |-> Waiting(file)'[a]]
  BY DEF Waiting
<1> HIDE DEF pushed, row, stop, batch, full, file, action
<1>7. /\ buffers'[file][action] = IF full THEN <<>> ELSE batch
      /\ \A other \in Acts \ {action} : buffers'[file][other] = buffers[file][other]
  BY <1>1, <1>2 DEF Shapes
<1>8. ASSUME full
      PROVE  Waiting(file)' = Rest(action, pushed) /\ db'[file] = After(action, db[file], pushed)
  <2>1. \A a \in Acts : Waiting(file)'[a] = IF a = action THEN <<>> ELSE pushed[a]
    BY <1>3, <1>5, <1>7, <1>8
  <2>2. Rest(action, pushed) = [a \in Acts |-> IF a = action THEN <<>> ELSE pushed[a]]
    BY <1>3 DEF Rest
  <2>3. Waiting(file)' = Rest(action, pushed)
    BY <1>6, <2>1, <2>2
  <2>4. db'[file] = After(action, db[file], pushed)
    BY <1>1, <1>2, <1>3, <1>8 DEF After
  <2> QED BY <2>3, <2>4
<1>9. ASSUME ~full
      PROVE  Waiting(file)' = pushed /\ db'[file] = db[file]
  <2>1. \A a \in Acts : Waiting(file)'[a] = pushed[a]
    BY <1>3, <1>5, <1>7, <1>9
  <2>2. Waiting(file)' = pushed
    BY <1>3, <1>6, <2>1
  <2>3. db'[file] = db[file]
    BY <1>1, <1>2, <1>9
  <2> QED BY <2>2, <2>3
<1>10. /\ lastId'[file] = IF action = "D" THEN lastId[file] ELSE lastId[file] + 1
       /\ lastId'[StopTable(file)] = IF record.calls = "none" THEN lastId[StopTable(file)] ELSE lastId[StopTable(file)] + 1
  BY <1>1, <1>2
<1>11. /\ record.calls = "none" => db'[StopTable(file)] = db[StopTable(file)]
       /\ record.calls # "none" => db'[StopTable(file)] = InsertIgnoreById(db[StopTable(file)], stop)
  BY <1>1, <1>2
<1>12. \/ Waiting(file)' = pushed /\ db'[file] = db[file]
       \/ Waiting(file)' = Rest(action, pushed) /\ db'[file] = After(action, db[file], pushed)
  BY <1>8, <1>9
<1> QED BY <1>10, <1>11, <1>12 DEF file, pushed, stop, action, NextId, NextStopId

(* The other file of the feed, and its tables. *)
LEMMA ReadLeavesTheOther ==
  ASSUME Shapes, NEW record, record.file \in Files, ImportReads(record), HistoryReads(record),
         NEW file \in Files, file # record.file
  PROVE  /\ Waiting(file)' = Waiting(file)
         /\ db'[file] = db[file] /\ db'[StopTable(file)] = db[StopTable(file)]
         /\ lastId'[file] = lastId[file] /\ lastId'[StopTable(file)] = lastId[StopTable(file)]
         /\ asWritten'[file] = asWritten[file] /\ actions'[file] = actions[file]
         /\ clashed'[file] = clashed[file] /\ shadowed'[file] = shadowed[file]
<1>1. /\ file \in Counted /\ file \in Tables /\ StopTable(file) \in Counted /\ StopTable(file) \in Tables
      /\ StopTable(file) # record.file /\ file # StopTable(record.file) /\ file # ExtraTable(record.file)
      /\ StopTable(file) # ExtraTable(record.file) /\ StopTable(file) # StopTable(record.file)
  BY TablesApart
<1>2. inFlight' = inFlight /\ buffers'[file] = buffers[file]
  BY DEF ImportReads, Shapes
<1>3. Waiting(file)' = Waiting(file)
  BY <1>2 DEF Waiting, SentFor
<1>4. /\ db'[file] = db[file] /\ db'[StopTable(file)] = db[StopTable(file)]
      /\ lastId'[file] = lastId[file] /\ lastId'[StopTable(file)] = lastId[StopTable(file)]
  BY <1>1 DEF ImportReads
<1>5. /\ asWritten'[file] = asWritten[file] /\ actions'[file] = actions[file]
      /\ clashed'[file] = clashed[file] /\ shadowed'[file] = shadowed[file]
  BY DEF HistoryReads, Shapes
<1> QED BY <1>3, <1>4, <1>5

(* A record leaves the importer right with both files. *)
LEMMA ReadKeepsImport ==
  ASSUME TypeOK, Shapes, WhereItIs, stage \in Files, NEW record \in Records(stage),
         ReadRecord(record), ImportReads(record), HistoryReads(record),
         NEW file \in Files, ImportIsRight(file)
  PROVE  ImportIsRight(file)'
<1>0. records \in Nat /\ records' = records + 1
  <2>1. records \in 0 .. MaxRecords /\ MaxRecords \in Nat
    BY FeedAssumption DEF TypeOK, FeedTypeOK
  <2> QED BY <2>1 DEF ReadRecord
<1>1. record.file = stage /\ record.file \in Files
  BY RecordIs
<1>2. CASE file # record.file
  <2>1. /\ Waiting(file)' = Waiting(file)
        /\ db'[file] = db[file] /\ db'[StopTable(file)] = db[StopTable(file)]
        /\ lastId'[file] = lastId[file] /\ lastId'[StopTable(file)] = lastId[StopTable(file)]
        /\ asWritten'[file] = asWritten[file] /\ actions'[file] = actions[file]
        /\ clashed'[file] = clashed[file]
    BY <1>1, <1>2, ReadLeavesTheOther
  <2>2. IsRight(Keys(file), db[file], Waiting(file), lastId[file], records,
                actions[file], clashed[file], asWritten[file],
                db[StopTable(file)], lastId[StopTable(file)])
    BY DEF ImportIsRight
  <2>3. IsRight(Keys(file), db[file], Waiting(file), lastId[file], records + 1,
                actions[file], clashed[file], asWritten[file],
                db[StopTable(file)], lastId[StopTable(file)])
    BY ONLY <1>0, <2>2, ReadMoreIsRight
  <2> QED BY <1>0, <2>1, <2>3 DEF ImportIsRight
<1>3. CASE file = record.file
  <2>1. PICK rows, waiting, last, given, clash, written, stops, lastStop :
          /\ rows = db[file] /\ waiting = Waiting(file) /\ last = lastId[file]
          /\ given = actions[file] /\ clash = clashed[file] /\ written = asWritten[file]
          /\ stops = db[StopTable(file)] /\ lastStop = lastId[StopTable(file)]
    OBVIOUS
  <2>2. PICK pushed : pushed = Push(waiting, record, last + 1)
    OBVIOUS
  <2>3. /\ \/ Waiting(file)' = pushed /\ db'[file] = rows
           \/ /\ Waiting(file)' = Rest(record.action, pushed)
              /\ db'[file] = After(record.action, rows, pushed)
        /\ lastId'[file] = NextId(last, record)
        /\ lastId'[StopTable(file)] = NextStopId(lastStop, record)
        /\ record.calls = "none" => db'[StopTable(file)] = stops
        /\ record.calls # "none" =>
             db'[StopTable(file)] = InsertIgnoreById(stops, NewStop(record, last + 1, lastStop + 1))
    BY <1>3, <2>1, <2>2, ReadPushes
  <2>4. last \in Nat /\ lastStop \in Nat
    BY <2>1, TablesApart DEF TypeOK, ImportTypeOK
  <2>5. IsRight(Keys(file), rows, waiting, last, records, given, clash, written, stops, lastStop)
    BY <2>1 DEF ImportIsRight
  <2>6. IsNext(record, Keys(file), records) /\ record.action \in Acts
    BY <1>1, <1>3, RecordIs DEF IsNext
  <2>7. IsRight(Keys(file), rows, Push(waiting, record, last + 1), NextId(last, record), records + 1,
                 GivenAfter(given, record), ClashAfter(clash, GivenAfter(given, record), record),
                 Written(written, record),
                 StopsAfter(stops, record, last + 1, lastStop + 1), NextStopId(lastStop, record))
    BY ONLY <1>0, <2>4, <2>5, <2>6, PushIsRight
  <2>8. db'[StopTable(file)] = StopsAfter(stops, record, last + 1, lastStop + 1)
    <3>1. \A stop \in stops : stop.id # lastStop + 1
      BY <2>4, <2>5 DEF IsRight, StopsAreTheirs, StopRow
    <3>2. NewStop(record, last + 1, lastStop + 1).id = lastStop + 1
      BY DEF NewStop
    <3> QED BY <2>3, <3>1, <3>2 DEF StopsAfter, InsertIgnoreById
  <2>9. /\ actions'[file] = GivenAfter(given, record)
        /\ clashed'[file] = ClashAfter(clash, actions'[file], record)
        /\ asWritten'[file] = Written(written, record)
    BY <1>1, <1>3, <2>1 DEF HistoryReads, Shapes, GivenAfter, ClashAfter
  <2>10. PICK then, thenGiven, thenClash, thenWritten, thenStops, thenStop :
           /\ then = NextId(last, record) /\ thenGiven = GivenAfter(given, record)
           /\ thenClash = ClashAfter(clash, thenGiven, record) /\ thenWritten = Written(written, record)
           /\ thenStops = StopsAfter(stops, record, last + 1, lastStop + 1) /\ thenStop = NextStopId(lastStop, record)
    OBVIOUS
  <2>11. IsRight(Keys(file), rows, pushed, then, records + 1, thenGiven, thenClash, thenWritten, thenStops, thenStop)
    BY <2>2, <2>7, <2>10
  <2>12. IsRight(Keys(file), After(record.action, rows, pushed), Rest(record.action, pushed), then, records + 1,
                 thenGiven, thenClash, thenWritten, thenStops, thenStop)
    BY ONLY <2>6, <2>11, RunIsRight
  <2>13. IsRight(Keys(file), db'[file], Waiting(file)', then, records + 1, thenGiven, thenClash, thenWritten, thenStops, thenStop)
    BY <2>3, <2>11, <2>12
  <2> QED BY <1>0, <2>3, <2>8, <2>9, <2>10, <2>13 DEF ImportIsRight
<1> QED BY <1>2, <1>3

(* What was held back is sent: it waits still. *)
LEMMA CloseKeepsWaiting ==
  ASSUME Shapes, WhereItIs, NEW file \in Files, stage = file, ImportCloses(file), NEW other \in Files
  PROVE  Waiting(other)' = Waiting(other)
<1>0. /\ inFlight' = inFlight \cup
           {[file |-> file, action |-> action, rows |-> buffers[file][action]] :
              action \in {a \in Acts : buffers[file][a] # <<>>}}
      /\ buffers' = [buffers EXCEPT ![file] = Nothing[file]]
  BY DEF ImportCloses, Shapes
<1>1. CASE other # file
  <2>1. buffers'[other] = buffers[other]
    BY <1>0, <1>1
  <2>2. \A action \in Acts : SentFor(other, action)' = SentFor(other, action)
    BY <1>0, <1>1 DEF SentFor
  <2> QED BY <2>1, <2>2 DEF Waiting
<1>2. CASE other = file
  <2>1. SUFFICES ASSUME NEW action \in Acts PROVE Waiting(file)'[action] = Waiting(file)[action]
    BY <1>2 DEF Waiting
  <2>2. SentFor(file, action) = {} /\ Waiting(file)[action] = buffers[file][action]
    BY NoneSentWhileReading
  <2>3. buffers'[file][action] = <<>>
    BY <1>0 DEF Shapes, Nothing, Acts
  <2>4. CASE buffers[file][action] = <<>>
    <3>1. SentFor(file, action)' = {}
      BY <1>0, <2>2, <2>4 DEF SentFor
    <3> QED BY <2>2, <2>3, <2>4, <3>1 DEF Waiting
  <2>5. CASE buffers[file][action] # <<>>
    <3>1. PICK sent : sent = [file |-> file, action |-> action, rows |-> buffers[file][action]]
      OBVIOUS
    <3>2. SentFor(file, action)' = {sent}
      BY <1>0, <2>2, <2>5, <3>1 DEF SentFor
    <3>3. Only(SentFor(file, action)') = sent
      BY <3>2 DEF Only
    <3> QED BY <2>2, <3>1, <3>2, <3>3 DEF Waiting
  <2> QED BY <2>4, <2>5
<1> QED BY <1>1, <1>2

(* So the end of a file leaves the importer right. *)
LEMMA CloseKeepsImport ==
  ASSUME Shapes, WhereItIs, NEW file \in Files, EndFile(file), ImportCloses(file), UNCHANGED historyVars,
         NEW other \in Files, ImportIsRight(other)
  PROVE  ImportIsRight(other)'
<1>1. Waiting(other)' = Waiting(other)
  BY CloseKeepsWaiting DEF EndFile
<1>2. UNCHANGED <<db, lastId, asWritten, actions, clashed, shadowed, records>>
  BY DEF ImportCloses, historyVars, EndFile
<1> QED BY <1>1, <1>2 DEF ImportIsRight

(* A statement of the pool runs, in whatever order. *)
LEMMA RunKeepsImport ==
  ASSUME Shapes, WhereItIs, StatementRuns, UNCHANGED <<feedVars, historyVars>>,
         NEW file \in Files, ImportIsRight(file)
  PROVE  ImportIsRight(file)'
<1>1. PICK sent \in inFlight :
        /\ db' = [db EXCEPT ![sent.file] = Query(sent.action, @, sent.rows)]
        /\ inFlight' = inFlight \ {sent}
        /\ UNCHANGED <<lastId, buffers>>
  BY DEF StatementRuns
<1>2. /\ sent.file \in Files /\ sent.action \in Acts
      /\ SentFor(sent.file, sent.action) = {sent}
      /\ Waiting(sent.file)[sent.action] = sent.rows
      /\ buffers[sent.file][sent.action] = <<>>
  BY SentWaits
<1>3. /\ file \in Tables /\ StopTable(file) \in Tables /\ StopTable(file) # sent.file
  BY <1>2, TablesApart
<1>4. UNCHANGED <<asWritten, actions, clashed, shadowed, records, lastId>> /\ db'[StopTable(file)] = db[StopTable(file)]
  BY <1>1, <1>3 DEF historyVars, feedVars
<1>5. CASE file # sent.file
  <2>1. \A action \in Acts : SentFor(file, action)' = SentFor(file, action)
    BY <1>1, <1>5 DEF SentFor
  <2>2. Waiting(file)' = Waiting(file)
    BY <1>1, <2>1 DEF Waiting
  <2>3. db'[file] = db[file]
    BY <1>1, <1>3, <1>5
  <2> QED BY <1>4, <2>2, <2>3 DEF ImportIsRight
<1>6. CASE file = sent.file
  <2>1. PICK waiting, action : waiting = Waiting(file) /\ action = sent.action
    OBVIOUS
  <2>2. \A a \in Acts : Waiting(file)'[a] = IF a = action THEN <<>> ELSE waiting[a]
    <3>1. SentFor(file, action)' = {}
      BY <1>1, <1>2, <1>6, <2>1 DEF SentFor
    <3>2. \A a \in Acts \ {action} : SentFor(file, a)' = SentFor(file, a)
      BY <1>1, <2>1 DEF SentFor
    <3> QED BY <1>1, <1>2, <1>6, <2>1, <3>1, <3>2 DEF Waiting
  <2>3. Waiting(file)' = Rest(action, waiting)
    <3>1. DOMAIN waiting = Acts
      BY <2>1 DEF Waiting
    <3>2. Rest(action, waiting) = [a \in Acts |-> IF a = action THEN <<>> ELSE waiting[a]]
      BY <3>1 DEF Rest
    <3>3. Waiting(file)' = [a \in Acts |-> Waiting(file)'[a]]
      BY DEF Waiting
    <3> QED BY <2>2, <3>2, <3>3
  <2>4. db'[file] = After(action, db[file], waiting)
    BY <1>1, <1>2, <1>3, <1>6, <2>1 DEF Shapes, After
  <2>5. IsRight(Keys(file), db[file], waiting, lastId[file], records,
                actions[file], clashed[file], asWritten[file], db[StopTable(file)], lastId[StopTable(file)])
    BY <2>1 DEF ImportIsRight
  <2>6. IsRight(Keys(file), After(action, db[file], waiting), Rest(action, waiting), lastId[file], records,
                actions[file], clashed[file], asWritten[file], db[StopTable(file)], lastId[StopTable(file)])
    BY <1>2, <2>1, <2>5, RunIsRight
  <2> QED BY <1>4, <2>3, <2>4, <2>6 DEF ImportIsRight
<1> QED BY <1>5, <1>6

(* removeOrphanStopTimes, once every statement has run. *)
LEMMA FinishKeepsImport ==
  ASSUME Shapes, WhereItIs, stage = "closing", ImportFinishes, EndFeed, UNCHANGED historyVars,
         NEW file \in Files, ImportIsRight(file)
  PROVE  ImportIsRight(file)' /\ NoOrphans(db[file], db[StopTable(file)])'
<1>1. inFlight = {} /\ UNCHANGED <<buffers, inFlight, lastId, records, asWritten, actions, clashed>> /\ db' = WithoutOrphans
  BY DEF ImportFinishes, EndFeed, historyVars
<1>2. Waiting(file) = Empty
  BY <1>1, NothingWaits DEF Files
<1>3. Waiting(file)' = Waiting(file)
  BY <1>1 DEF Waiting, SentFor
<1>4. /\ db'[file] = db[file]
      /\ db'[StopTable(file)] = {stop \in db[StopTable(file)] : \E row \in db[file] : row.id = stop.schedule}
  <2>1. CASE file = "schedule"
    BY <1>1, <2>1, TablesApart DEF WithoutOrphans, StopTable, Orphan
  <2>2. CASE file = "z_schedule"
    BY <1>1, <2>2, TablesApart DEF WithoutOrphans, StopTable, Orphan
  <2> QED BY <2>1, <2>2 DEF Files
<1>5. IsRight(Keys(file), db[file], Empty, lastId[file], records,
              actions[file], clashed[file], asWritten[file], db[StopTable(file)], lastId[StopTable(file)])
  BY <1>2 DEF ImportIsRight
<1>6. /\ IsRight(Keys(file), db[file], Empty, lastId[file], records,
                 actions[file], clashed[file], asWritten[file], db'[StopTable(file)], lastId[StopTable(file)])
      /\ NoOrphans(db[file], db'[StopTable(file)])
  BY <1>4, <1>5, FinishIsRight
<1> QED BY <1>1, <1>2, <1>3, <1>4, <1>6 DEF ImportIsRight

(* setupSchema and restoreIdCounters. *)
LEMMA OpenKeepsImport ==
  ASSUME Shapes, WhereItIs, OpenFeed, ImportOpens,
         actions' = [file \in Files |-> {}], UNCHANGED <<asWritten, clashed, shadowed>>,
         NEW file \in Files, feeds \in Nat,
         feeds > 0 => ImportIsRight(file) /\ NoOrphans(db[file], db[StopTable(file)])
  PROVE  ImportIsRight(file)' /\ lastId'[file] \in Nat /\ lastId'[StopTable(file)] \in Nat
<1>1. /\ stage = "between feeds" /\ inFlight = {} /\ UNCHANGED <<buffers, inFlight, records>>
      /\ file \in Tables /\ StopTable(file) \in Tables /\ file \in Counted /\ StopTable(file) \in Counted
  BY NoneSentBetweenFeeds, TablesApart DEF OpenFeed, ImportOpens
<1>2. Waiting(file) = Empty
  BY <1>1, NothingWaits DEF Files
<1>3. Waiting(file)' = Empty
  <2>1. Waiting(file)' = Waiting(file)
    BY <1>1 DEF Waiting, SentFor
  <2> QED BY <1>2, <2>1
<1>4. /\ lastId'[file] = MaxId(db'[file]) /\ lastId'[StopTable(file)] = MaxId(db'[StopTable(file)])
      /\ actions'[file] = {}
  BY <1>1 DEF ImportOpens, RestoredIds
<1>5. CASE feeds = 0
  <2>1. db'[file] = {} /\ db'[StopTable(file)] = {} /\ asWritten'[file] = {} /\ clashed'[file] = {}
    BY <1>1, <1>5 DEF ImportOpens, Refresh, WhereItIs
  <2>2. MaxId({}) = 0
    <3>1. MaxId({}) = Max({0})
      <4>1. {row.id : row \in {}} \cup {0} = {0}
        OBVIOUS
      <4> QED BY <4>1 DEF MaxId
    <3>2. IsFiniteSet({0}) /\ {0} \in SUBSET Int /\ {0} # {}
      <4>1. IsFiniteSet({0})
        BY FS_Singleton
      <4> QED BY <4>1
    <3>3. Max({0}) \in {0}
      BY <3>2, MaxIsGreatest
    <3> QED BY <3>1, <3>3
  <2>3. IsRight(Keys(file), {}, Empty, 0, records, {}, {}, {}, {}, 0)
    BY FirstOpenIsRight
  <2>4. lastId'[file] = 0 /\ lastId'[StopTable(file)] = 0
    BY <1>4, <2>1, <2>2
  <2>5. IsRight(Keys(file), db'[file], Waiting(file)', lastId'[file], records',
                actions'[file], clashed'[file], asWritten'[file], db'[StopTable(file)], lastId'[StopTable(file)])
    BY <1>1, <1>3, <1>4, <2>1, <2>3, <2>4
  <2> QED BY <2>4, <2>5 DEF ImportIsRight
<1>6. CASE feeds > 0
  <2>1. db' = db
    BY <1>6 DEF ImportOpens, Refresh
  <2>2. IsRight(Keys(file), db[file], Empty, lastId[file], records,
                actions[file], clashed[file], asWritten[file], db[StopTable(file)], lastId[StopTable(file)])
    BY <1>2, <1>6 DEF ImportIsRight
  <2>3. /\ IsRight(Keys(file), db[file], Empty, MaxId(db[file]), records,
                   {}, clashed[file], asWritten[file], db[StopTable(file)], MaxId(db[StopTable(file)]))
        /\ MaxId(db[file]) \in Nat /\ MaxId(db[StopTable(file)]) \in Nat
    BY <1>6, <2>2, NextOpenIsRight
  <2> QED BY <1>1, <1>3, <1>4, <2>1, <2>3 DEF ImportIsRight
<1>7. feeds = 0 \/ feeds > 0
  OBVIOUS
<1> QED BY <1>5, <1>6, <1>7

(* startSchedule: what it does to the map of its file. *)
LEMMA ReadMapsTheRecord ==
  ASSUME TypeOK, Shapes, stage \in Files, NEW record \in Records(stage),
         SourceReads(record), HistoryReads(record), NEW file, file = record.file
  PROVE  /\ kept'[file] = KeptAfter(record, Stored[file])
         /\ pending' = PendingAfter(record, Stored[file], sourceId[file] + 1)
         /\ Stored'[file] = MapAfter(record, Stored[file], sourceId[file] + 1)
         /\ sourceId'[file] = NextId(sourceId[file], record)
         /\ shadowed'[file] = ShadowAfter(shadowed[file], record, asWritten[file], Stored[file])
         /\ asWritten'[file] = Written(asWritten[file], record)
<1>0. file \in Files /\ DOMAIN Stored = Files /\ DOMAIN sourceId = Files
  BY RecordIs DEF Stored, TypeOK, SourceTypeOK
<1>1. kept'[file] = KeptAfter(record, Stored[file])
  BY <1>0 DEF SourceReads, KeptAfter
<1>2. pending' = PendingAfter(record, Stored[file], sourceId[file] + 1)
  <2>1. NewSchedule(record, sourceId[file] + 1)
          = [id |-> Number(record), file |-> record.file, key |-> record.key, n |-> record.n, calls |-> record.calls]
    BY DEF NewSchedule, Number
  <2>2. IsPending(record, Stored[file]) <=>
          /\ record.live /\ (record.action = "N" => ~Held(record.key, Stored[record.file]))
          /\ record.action # "D"
    BY DEF IsPending
  <2> QED BY <2>1, <2>2 DEF SourceReads, PendingAfter
<1>3. \A schedule \in pending' : schedule.file = file
  BY <1>2 DEF PendingAfter, NewSchedule
<1>4. Stored'[file] = MapAfter(record, Stored[file], sourceId[file] + 1)
  <2>1. PICK map, id : map = Stored[file] /\ id = sourceId[file] + 1
    OBVIOUS
  <2>2. Stored'[file] = StoredIn(kept'[file], {schedule \in pending' : schedule.file = file /\ Yields(schedule)})
    BY <1>0 DEF Stored, StoredIn
  <2>3. {schedule \in pending' : schedule.file = file /\ Yields(schedule)} = {schedule \in pending' : Yields(schedule)}
    BY <1>3
  <2>4. MapAfter(record, map, id) = StoredIn(kept'[file], {schedule \in pending' : Yields(schedule)})
    BY <1>1, <1>2, <2>1 DEF MapAfter
  <2> QED BY <2>1, <2>2, <2>3, <2>4
<1>5. sourceId'[file] = NextId(sourceId[file], record)
  BY <1>0 DEF SourceReads, NextId
<1>6. /\ shadowed'[file] = ShadowAfter(shadowed[file], record, asWritten[file], Stored[file])
      /\ asWritten'[file] = Written(asWritten[file], record)
  BY <1>0 DEF HistoryReads, Shapes, ShadowAfter
<1> QED BY <1>1, <1>2, <1>4, <1>5, <1>6

(* A record leaves the file source right with both files. *)
LEMMA ReadKeepsSource ==
  ASSUME TypeOK, Shapes, stage \in Files, NEW record \in Records(stage),
         ReadRecord(record), SourceReads(record), HistoryReads(record),
         NEW file \in Files, SourceIsRight(file)
  PROVE  SourceIsRight(file)'
<1>0. records \in Nat /\ records' = records + 1
  <2>1. records \in 0 .. MaxRecords /\ MaxRecords \in Nat
    BY FeedAssumption DEF TypeOK, FeedTypeOK
  <2> QED BY <2>1 DEF ReadRecord
<1>1. record.file = stage /\ record.file \in Files /\ IsNext(record, Keys(stage), records)
  BY RecordIs
<1>2. /\ Stored[file] \subseteq Mine(file)
      /\ \A schedule \in Stored[file] : Yields(schedule)
  BY StoredIsMine DEF Mine, SourceIsRight
<1>3. sourceId[file] \in Nat /\ DOMAIN sourceId = Files
  BY DEF TypeOK, SourceTypeOK
<1>4. \A one \in Mine(file) :
        /\ one.id \in Nat /\ one.n \in Nat /\ one.id <= sourceId[file] /\ one.n <= records
        /\ one.id < sourceId[file] + 1 /\ one.n < records + 1 /\ one.n <= records + 1 /\ one.id <= sourceId[file] + 1
  <2>1. \A one \in Mine(file) : /\ one.id \in Nat /\ one.n \in Nat /\ one.id <= sourceId[file] /\ one.n <= records
    BY DEF SourceIsRight, SourceRow
  <2> QED BY <1>0, <1>3, <2>1
<1>5. CASE file # record.file
  <2>1. /\ kept'[file] = Stored[file] /\ sourceId'[file] = sourceId[file]
        /\ asWritten'[file] = asWritten[file] /\ shadowed'[file] = shadowed[file]
    BY <1>1, <1>3, <1>5 DEF SourceReads, HistoryReads, Shapes, Stored
  <2>2. \A schedule \in pending' : schedule.file # file
    BY <1>5 DEF SourceReads
  <2>3. Stored'[file] = Stored[file]
    <3>1. Stored'[file] = StoredIn(kept'[file], {schedule \in pending' : schedule.file = file /\ Yields(schedule)})
      BY DEF Stored, StoredIn
    <3>2. {schedule \in pending' : schedule.file = file /\ Yields(schedule)} = {}
      BY <2>2
    <3> QED BY <2>1, <3>1, <3>2, NothingNewIsStored
  <2>4. Mine(file)' = Stored[file]
    BY <2>1, <2>2 DEF Mine
  <2>5. \A key \in Keys(file) \ shadowed[file] : Has(key, Stored[file]) = Wanted(key, asWritten[file], file)
    BY DEF SourceIsRight
  <2>6. /\ \A one, other \in Mine(file) : one.n < other.n <=> one.id < other.id
        /\ Mine(file) \subseteq SourceRow(file)
    BY DEF SourceIsRight
  <2> QED BY <1>0, <1>2, <1>4, <2>1, <2>3, <2>4, <2>5, <2>6 DEF SourceIsRight
<1>6. CASE file = record.file
  <2>1. PICK map, id, shadow, written :
          map = Stored[file] /\ id = sourceId[file] + 1 /\ shadow = shadowed[file] /\ written = asWritten[file]
    OBVIOUS
  <2>2. /\ kept'[file] = KeptAfter(record, map)
        /\ pending' = PendingAfter(record, map, id)
        /\ Stored'[file] = MapAfter(record, map, id)
        /\ sourceId'[file] = NextId(sourceId[file], record)
        /\ shadowed'[file] = ShadowAfter(shadow, record, written, map)
        /\ asWritten'[file] = Written(written, record)
    BY <1>6, <2>1, ReadMapsTheRecord
  <2>3. \A key \in Keys(file) \ shadow : Has(key, map) = Wanted(key, written, file)
    BY <2>1 DEF SourceIsRight
  <2>4. \A key \in Keys(file) \ shadowed'[file] : Has(key, Stored'[file]) = Wanted(key, asWritten'[file], file)
    <3>1. IsNext(record, Keys(file), records)
      BY <1>1, <1>6
    <3>2. \A key \in Keys(file) \ ShadowAfter(shadow, record, written, map) :
            Has(key, MapAfter(record, map, id)) = Wanted(key, Written(written, record), file)
      BY ONLY <1>6, <2>3, <3>1, MapTakesARecord
    <3> QED BY <2>2, <3>2
  <2>5. PICK new : new = NewSchedule(record, id)
    OBVIOUS
  <2>6. /\ new \in SourceRow(file) /\ new.id = sourceId[file] + 1 /\ new.n = records + 1
    BY <1>0, <1>1, <1>3, <1>6, <2>1, <2>5 DEF NewSchedule, SourceRow, IsNext
  <2>7. KeptAfter(record, map) \subseteq map
    BY DEF KeptAfter, Without
  <2>8. Mine(file)' \subseteq Mine(file) \cup (IF record.action = "D" THEN {} ELSE {new})
    <3>1. pending' \subseteq (IF record.action = "D" THEN {} ELSE {new})
      BY <2>2, <2>5 DEF PendingAfter, IsPending
    <3> QED BY <1>2, <2>1, <2>2, <2>7, <3>1 DEF Mine
  <2>9. \A schedule \in kept'[file] : Yields(schedule)
    BY <1>2, <2>1, <2>2, <2>7
  <2>10. Mine(file) \subseteq SourceRow(file) /\ \A one, other \in Mine(file) : one.n < other.n <=> one.id < other.id
    BY DEF SourceIsRight
  <2>11. Mine(file)' \subseteq SourceRow(file)
    BY <2>6, <2>8, <2>10
  <2>12. \A one \in Mine(file)' : one.id <= sourceId'[file] /\ one.n <= records'
    <3>1. CASE record.action = "D"
      BY <1>0, <1>4, <2>2, <2>8, <3>1 DEF NextId
    <3>2. CASE record.action # "D"
      BY <1>0, <1>3, <1>4, <2>2, <2>6, <2>8, <3>2 DEF NextId
    <3> QED BY <3>1, <3>2
  <2>13. ASSUME NEW one \in Mine(file)', NEW other \in Mine(file)' PROVE one.n < other.n <=> one.id < other.id
    <3>1. CASE one \in Mine(file) /\ other \in Mine(file)
      BY <2>10, <3>1
    <3>2. CASE one = new /\ other = new
      BY <1>0, <1>3, <2>6, <3>2
    <3>3. CASE one \in Mine(file) /\ other = new
      BY <1>4, <2>6, <3>3
    <3>4. CASE one = new /\ other \in Mine(file)
      <4>1. ~(new.n < other.n) /\ ~(new.id < other.id)
        BY <1>0, <1>3, <1>4, <2>6, <3>4
      <4> QED BY <3>4, <4>1
    <3> QED BY <2>8, <3>1, <3>2, <3>3, <3>4
  <2> QED BY <2>4, <2>9, <2>11, <2>12, <2>13 DEF SourceIsRight
<1> QED BY <1>5, <1>6

(* endOfFile stores what was pending. *)
LEMMA EndKeepsSource ==
  ASSUME SourceEndsFile, UNCHANGED <<records, asWritten, shadowed>>, NEW file \in Files, SourceIsRight(file)
  PROVE  SourceIsRight(file)'
<1>1. /\ kept'[file] = Stored[file] /\ pending' = {} /\ sourceId' = sourceId
  BY DEF SourceEndsFile
<1>2. /\ Stored[file] \subseteq Mine(file)
      /\ \A schedule \in Stored[file] : Yields(schedule)
  BY StoredIsMine DEF Mine, SourceIsRight
<1>3. Stored'[file] = Stored[file]
  <2>1. Stored'[file] = StoredIn(kept'[file], {schedule \in pending' : schedule.file = file /\ Yields(schedule)})
    BY DEF Stored, StoredIn
  <2>2. {schedule \in pending' : schedule.file = file /\ Yields(schedule)} = {}
    BY <1>1
  <2> QED BY <1>1, <2>1, <2>2, NothingNewIsStored
<1>4. Mine(file)' = Stored[file]
  BY <1>1 DEF Mine
<1> QED BY <1>1, <1>2, <1>3, <1>4 DEF SourceIsRight

(* Nothing read is nothing wanted. *)
LEMMA NothingReadIsRight ==
  ASSUME NEW file \in Files, kept = [f \in Files |-> {}], pending = {}, asWritten = [f \in Files |-> {}]
  PROVE  SourceIsRight(file)
<1>1. Stored[file] = {} /\ Mine(file) = {} /\ kept[file] = {} /\ asWritten[file] = {}
  BY DEF Stored, Mine
<1>2. \A key : Has(key, {}) = {} /\ Wanted(key, {}, file) = {}
  BY DEF Has, Wanted, RowsOf
<1> QED BY <1>1, <1>2 DEF SourceIsRight
-----------------------------------------------------------------------------
(* The stages are apart from one another. *)
LEMMA FilesApart ==
  /\ "between feeds" \notin Files /\ "closing" \notin Files
  /\ "schedule" \in Files /\ "z_schedule" \in Files
  /\ \A file \in Files : file = "schedule" \/ file = "z_schedule"
BY DEF Files

(* The numbers the readers have got to. *)
LEMMA FeedsAreNumbers ==
  ASSUME TypeOK
  PROVE  feeds \in Nat /\ records \in Nat
<1>1. feeds \in 0 .. MaxFeeds /\ MaxFeeds \in Nat
  BY FeedAssumption DEF TypeOK, FeedTypeOK
<1>2. records \in 0 .. MaxRecords /\ MaxRecords \in Nat
  BY FeedAssumption DEF TypeOK, FeedTypeOK
<1>3. feeds \in Nat
  BY <1>1
<1>4. records \in Nat
  BY <1>2
<1> QED BY <1>3, <1>4

(* Nothing held back fills no buffer. *)
LEMMA NothingIs ==
  \A file \in Files : \A action \in Acts : Nothing[file][action] = <<>> /\ Len(Nothing[file][action]) < FlushLimit
BY FlushAssumption DEF Nothing, Acts

(* The types follow from the rest of the invariant. *)
LEMMA TypesFollow ==
  ASSUME FeedTypeOK', WhereItIs', sourceId' \in [Files -> Nat],
         \A file \in Files : ImportIsRight(file)' /\ SourceIsRight(file)'
  PROVE  TypeOK'
<1>1. ASSUME NEW file \in Files
      PROVE  /\ \A row \in db'[file] : row.id \in Nat \ {0} /\ row.key \in Keys(file)
             /\ \A row, other \in db'[file] :
                  row.id = other.id \/ row.key = other.key => row = other
  <2>1. Typed(Keys(file), db'[file], Waiting(file)')
    BY DEF ImportIsRight, IsRight
  <2> QED BY <2>1 DEF Typed, TableRow, Unique
<1>2. ImportTypeOK'
  BY <1>1 DEF ImportTypeOK, WhereItIs, Acts
<1>3. ASSUME NEW file \in Files, NEW schedule \in kept'[file]
      PROVE  schedule.file = file /\ schedule.key \in Keys(file) /\ Yields(schedule)
  <2>1. schedule \in SourceRow(file)
    BY DEF SourceIsRight, Mine
  <2>2. Yields(schedule)
    BY DEF SourceIsRight
  <2> QED BY <2>1, <2>2 DEF SourceRow
<1>4. SourceTypeOK'
  BY <1>3 DEF SourceTypeOK, WhereItIs
<1> QED BY <1>2, <1>4 DEF TypeOK

(* A feed is opened between feeds, with nothing under way. *)
LEMMA OpenKeepsPlace ==
  ASSUME TypeOK, Shapes, WhereItIs, OpenFeed, ImportOpens,
         actions' = [file \in Files |-> {}], UNCHANGED <<sourceVars, asWritten, clashed, shadowed>>,
         \A file \in Files : lastId'[file] \in Nat /\ lastId'[StopTable(file)] \in Nat
  PROVE  Shapes' /\ WhereItIs' /\ feeds' > 0
<1>1. /\ stage = "between feeds" /\ stage' = "schedule" /\ feeds' = feeds + 1 /\ feeds' > 0 /\ feeds' # 0
      /\ inFlight = {} /\ pending = {} /\ UNCHANGED <<buffers, inFlight, kept, pending>>
  <2>1. /\ stage = "between feeds" /\ stage' = "schedule" /\ feeds' = feeds + 1
        /\ UNCHANGED <<buffers, inFlight, kept, pending>>
    BY DEF OpenFeed, ImportOpens, sourceVars
  <2>2. feeds' > 0 /\ feeds' # 0
    <3>1. feeds \in Nat
      BY FeedsAreNumbers
    <3>2. feeds' = feeds + 1
      BY <2>1
    <3> QED BY <3>1, <3>2
  <2>3. inFlight = {} /\ pending = {}
    BY <2>1, NoneSentBetweenFeeds, FilesApart DEF WhereItIs
  <2> QED BY <2>1, <2>2, <2>3
<1>2. DOMAIN db' = Tables
  BY DEF ImportOpens, Shapes
<1>3. Shapes'
  BY <1>1, <1>2 DEF Shapes
<1>4. lastId' \in [Counted -> Nat]
  <2>1. DOMAIN lastId' = Counted /\ lastId' = [table \in Counted |-> lastId'[table]]
    BY DEF ImportOpens, RestoredIds
  <2>2. \A table \in Counted : lastId'[table] \in Nat
    BY DEF Counted
  <2> QED BY <2>1, <2>2
<1>5. \A file \in Files : buffers'[file] = buffers[file] /\ \A action \in Acts : Len(buffers'[file][action]) < FlushLimit
  BY <1>1 DEF WhereItIs
<1>6. buffers'["z_schedule"] = Nothing["z_schedule"]
  BY <1>1 DEF WhereItIs
<1>7. WhereItIs'
  BY <1>1, <1>4, <1>5, <1>6 DEF WhereItIs
<1> QED BY <1>1, <1>3, <1>7

(* A buffer is sent before it holds more than the limit. *)
LEMMA ReadKeepsPlace ==
  ASSUME TypeOK, Shapes, WhereItIs, stage \in Files, NEW record \in Records(stage),
         ReadRecord(record), ImportReads(record), SourceReads(record), HistoryReads(record),
         \A file \in Files : ImportIsRight(file)
  PROVE  Shapes' /\ WhereItIs'
<1>1. /\ record.file = stage /\ record.file \in Files /\ record.action \in Acts
      /\ stage' = stage /\ feeds' = feeds /\ inFlight' = inFlight /\ feeds # 0
  BY RecordIs, FilesApart DEF IsNext, ReadRecord, ImportReads, WhereItIs
<1>2. Shapes'
  BY DEF Shapes, ImportReads, SourceReads, Stored, HistoryReads
<1>3. /\ \A one, other \in pending' : one = other
      /\ \A schedule \in pending' : stage' \in Files /\ schedule.file = stage'
  BY <1>1 DEF SourceReads
<1>4. lastId' \in [Counted -> Nat]
  <2>1. lastId \in [Counted -> Nat]
    BY DEF WhereItIs
  <2> QED BY <2>1 DEF ImportReads
<1> DEFINE file == record.file
           action == record.action
           row == NewRow(record, lastId[file] + 1)
           batch == Append(buffers[file][action], row)
<1>5. /\ \A other \in Files \ {file} : buffers'[other] = buffers[other]
      /\ \A other \in Acts \ {action} : buffers'[file][other] = buffers[file][other]
      /\ buffers'[file][action] = IF Len(batch) >= FlushLimit THEN <<>> ELSE batch
  BY <1>1 DEF ImportReads, Shapes, NewRow
<1>6. Len(batch) \in Nat
  <2>1. Waiting(file)[action] \in Seq(TableRow(Keys(file)))
    BY <1>1 DEF ImportIsRight, IsRight, Typed
  <2>2. Waiting(file)[action] = buffers[file][action]
    BY <1>1, NoneSentWhileReading
  <2>3. \A a \in Files : lastId[a] \in Nat
    BY TablesApart DEF WhereItIs
  <2>4. row \in TableRow(Keys(file))
    <3>1. IsNext(record, Keys(file), records)
      BY <1>1, RecordIs
    <3>2. lastId[file] + 1 \in Nat \ {0} /\ record.n \in Nat
      BY <1>1, <2>3, <3>1, FeedsAreNumbers DEF IsNext
    <3>3. record.key \in Keys(file) /\ record.live \in BOOLEAN /\ record.calls \in Calls("schedule")
      BY <1>1, <3>1 DEF IsNext
    <3> QED BY <3>2, <3>3 DEF NewRow, TableRow
  <2>5. batch \in Seq(TableRow(Keys(file)))
    <3> HIDE DEF row
    <3> QED BY <2>1, <2>2, <2>4
  <2> HIDE DEF batch
  <2> QED BY <2>5
<1>7. Len(<<>>) < FlushLimit /\ FlushLimit \in Nat
  BY FlushAssumption
<1> HIDE DEF batch, file, action
<1>8. \A other \in Files : \A a \in Acts : Len(buffers'[other][a]) < FlushLimit
  <2>1. Len(buffers'[file][action]) < FlushLimit
    BY <1>5, <1>6, <1>7
  <2> QED BY <1>5, <2>1 DEF WhereItIs
<1>9. /\ stage' # "schedule" => buffers'["schedule"] = Nothing["schedule"]
      /\ stage' # "z_schedule" => buffers'["z_schedule"] = Nothing["z_schedule"]
  BY <1>1, <1>5, FilesApart DEF WhereItIs, file
<1>10. /\ \A sent \in inFlight' :
            /\ sent.file \in Files /\ sent.action \in Acts /\ sent.rows # <<>>
            /\ sent.file = "z_schedule" => stage' = "closing"
            /\ stage' = "closing" \/ (stage' = "z_schedule" /\ sent.file = "schedule")
       /\ \A one, other \in inFlight' : one.file = other.file /\ one.action = other.action => one = other
  BY <1>1 DEF WhereItIs
<1>11. WhereItIs'
  BY <1>1, <1>3, <1>4, <1>8, <1>9, <1>10 DEF WhereItIs
<1> QED BY <1>2, <1>11

(***************************************************************************)
(* The end of a file sends one statement for each action, and none of that *)
(* file was under way.                                                     *)
(***************************************************************************)
LEMMA CloseKeepsPlace ==
  ASSUME TypeOK, Shapes, WhereItIs, NEW file \in Files, EndFile(file), ImportCloses(file), SourceEndsFile,
         UNCHANGED historyVars
  PROVE  Shapes' /\ WhereItIs'
<1>1. /\ stage = file /\ feeds' = feeds /\ feeds # 0
      /\ stage' = IF file = "schedule" THEN "z_schedule" ELSE "closing"
      /\ pending' = {} /\ db' = db /\ lastId' = lastId
      /\ UNCHANGED <<asWritten, actions, clashed, shadowed>>
      /\ inFlight' = inFlight \cup
           {[file |-> file, action |-> action, rows |-> buffers[file][action]] :
              action \in {a \in Acts : buffers[file][a] # <<>>}}
      /\ buffers' = [buffers EXCEPT ![file] = Nothing[file]]
  BY FilesApart DEF EndFile, SourceEndsFile, historyVars, ImportCloses, Shapes, WhereItIs
<1>2. Shapes'
  BY <1>1 DEF Shapes, Nothing, SourceEndsFile, Stored, Acts
<1>3. \A other \in Files : buffers'[other] = IF other = file THEN Nothing[file] ELSE buffers[other]
  BY <1>1 DEF Shapes
<1>4. \A other \in Files : \A action \in Acts : Len(buffers'[other][action]) < FlushLimit
  BY <1>3, NothingIs DEF WhereItIs
<1>5. \A sent \in inFlight : sent.file # file
  BY <1>1, FilesApart DEF WhereItIs
<1>6. ASSUME NEW sent \in inFlight'
      PROVE  /\ sent.file \in Files /\ sent.action \in Acts /\ sent.rows # <<>>
             /\ sent.file = "z_schedule" => stage' = "closing"
             /\ stage' = "closing" \/ (stage' = "z_schedule" /\ sent.file = "schedule")
  <2>1. CASE sent \in inFlight
    BY <1>1, <1>5, <2>1, FilesApart DEF WhereItIs
  <2>2. CASE sent \notin inFlight
    <3>1. PICK action \in Acts : buffers[file][action] # <<>> /\ sent = [file |-> file, action |-> action, rows |-> buffers[file][action]]
      BY <1>1, <2>2
    <3> QED BY <1>1, <3>1, FilesApart
  <2> QED BY <2>1, <2>2
<1>7. ASSUME NEW one \in inFlight', NEW other \in inFlight', one.file = other.file, one.action = other.action
      PROVE  one = other
  <2>1. CASE one \in inFlight /\ other \in inFlight
    BY <1>7, <2>1 DEF WhereItIs
  <2>2. CASE one \notin inFlight
    <3>1. PICK action \in Acts : one = [file |-> file, action |-> action, rows |-> buffers[file][action]]
      BY <1>1, <2>2
    <3>2. other \notin inFlight
      BY <1>5, <1>7, <3>1
    <3>3. PICK a \in Acts : other = [file |-> file, action |-> a, rows |-> buffers[file][a]]
      BY <1>1, <3>2
    <3> QED BY <1>7, <3>1, <3>3
  <2>3. CASE other \notin inFlight
    <3>1. PICK action \in Acts : other = [file |-> file, action |-> action, rows |-> buffers[file][action]]
      BY <1>1, <2>3
    <3>2. one \notin inFlight
      BY <1>5, <1>7, <3>1
    <3>3. PICK a \in Acts : one = [file |-> file, action |-> a, rows |-> buffers[file][a]]
      BY <1>1, <3>2
    <3> QED BY <1>7, <3>1, <3>3
  <2> QED BY <2>1, <2>2, <2>3
<1>8. /\ stage' # "schedule" => buffers'["schedule"] = Nothing["schedule"]
      /\ stage' # "z_schedule" => buffers'["z_schedule"] = Nothing["z_schedule"]
  BY <1>1, <1>3, FilesApart DEF WhereItIs
<1>9. lastId' \in [Counted -> Nat]
  BY <1>1 DEF WhereItIs
<1>10. WhereItIs'
  BY <1>1, <1>4, <1>6, <1>7, <1>8, <1>9 DEF WhereItIs
<1> QED BY <1>2, <1>10

(* There is one statement less. *)
LEMMA RunKeepsPlace ==
  ASSUME Shapes, WhereItIs, StatementRuns, UNCHANGED <<feedVars, sourceVars, historyVars>>
  PROVE  Shapes' /\ WhereItIs' /\ feeds # 0 /\ stage # "between feeds"
<1>1. /\ inFlight' \subseteq inFlight /\ UNCHANGED <<lastId, buffers, stage, feeds, records, kept, pending, asWritten, actions, clashed, shadowed>>
      /\ DOMAIN db' = DOMAIN db /\ inFlight # {}
  BY DEF StatementRuns, feedVars, sourceVars, historyVars
<1>2. feeds # 0 /\ stage # "between feeds"
  BY <1>1 DEF WhereItIs
<1>3. Shapes'
  BY <1>1 DEF Shapes
<1>4. WhereItIs'
  BY <1>1, <1>2 DEF WhereItIs
<1> QED BY <1>2, <1>3, <1>4

(* An import ends with nothing under way. *)
LEMMA FinishKeepsPlace ==
  ASSUME Shapes, WhereItIs, EndFeed, ImportFinishes, UNCHANGED <<sourceVars, historyVars>>
  PROVE  Shapes' /\ WhereItIs' /\ feeds # 0
<1>1. /\ inFlight = {} /\ stage = "closing" /\ stage' = "between feeds"
      /\ UNCHANGED <<lastId, buffers, inFlight, feeds, records, kept, pending, asWritten, actions, clashed, shadowed>>
      /\ DOMAIN db' = Tables
  BY DEF EndFeed, ImportFinishes, WithoutOrphans, sourceVars, historyVars
<1>2. pending = {} /\ feeds # 0
  BY <1>1, FilesApart DEF WhereItIs
<1>3. Shapes'
  BY <1>1 DEF Shapes
<1>4. WhereItIs'
  BY <1>1, <1>2 DEF WhereItIs
<1> QED BY <1>2, <1>3, <1>4

(* A feed has been opened, or not. *)
LEMMA FeedsOpen ==
  ASSUME TypeOK
  PROVE  feeds # 0 <=> feeds > 0
<1>1. feeds \in Nat
  BY FeedsAreNumbers
<1> QED BY ONLY <1>1

(* The invariant holds before any feed, whatever the database holds. *)
LEMMA InitIsRight ==
  ASSUME Init
  PROVE  IInv
<1>1. /\ stage = "between feeds" /\ feeds = 0 /\ records = 0
      /\ db \in {[table \in Tables |-> {}]} \cup {LongAgo(key) : key \in Trains}
      /\ lastId = [table \in Counted |-> 0] /\ buffers = Nothing /\ inFlight = {}
      /\ kept = [file \in Files |-> {}] /\ pending = {} /\ sourceId = [file \in Files |-> 0]
      /\ asWritten = [file \in Files |-> {}] /\ actions = [file \in Files |-> {}]
      /\ clashed = [file \in Files |-> {}] /\ shadowed = [file \in Files |-> {}]
  BY DEF Init, FeedInit, ImportInit, SourceInit, HistoryInit
<1>2. /\ DOMAIN db = Tables
      /\ \A file \in Files : \A row \in db[file] :
           row.id = 1 /\ row.key \in Keys(file) /\ \A other \in db[file] : row = other
  <2>1. CASE db = [table \in Tables |-> {}]
    BY <2>1, TablesApart
  <2>2. ASSUME NEW key \in Trains, db = LongAgo(key)
        PROVE  /\ DOMAIN db = Tables
               /\ \A file \in Files : \A row \in db[file] :
                    row.id = 1 /\ row.key \in Keys(file) /\ \A other \in db[file] : row = other
    <3>1. DOMAIN db = Tables
      BY <2>2 DEF LongAgo
    <3>2. db["schedule"] = {[id |-> 1, key |-> key, live |-> TRUE, n |-> 0, calls |-> "station"]} /\ db["z_schedule"] = {}
      BY <2>2, TablesApart, FilesApart DEF LongAgo
    <3>3. key \in Keys("schedule")
      BY DEF Keys
    <3>4. \A row \in db["schedule"] : row.id = 1 /\ row.key = key
      BY <3>2
    <3>5. \A row \in db["schedule"] : \A other \in db["schedule"] : row = other
      BY <3>2
    <3>6. ASSUME NEW file \in Files, NEW row \in db[file]
          PROVE  row.id = 1 /\ row.key \in Keys(file) /\ \A other \in db[file] : row = other
      <4>1. file = "schedule"
        BY <3>2, <3>6, FilesApart
      <4> QED BY <3>3, <3>4, <3>5, <3>6, <4>1
    <3> QED BY <3>1, <3>6
  <2> QED BY <1>1, <2>1, <2>2
<1>3. \A file \in Files : \A action \in Acts : buffers[file][action] = <<>> /\ Len(buffers[file][action]) < FlushLimit
  BY <1>1, NothingIs
<1>4. Shapes
  BY <1>1, <1>2 DEF Shapes, Nothing, Acts
<1>5. lastId \in [Counted -> Nat] /\ sourceId \in [Files -> Nat]
  BY <1>1
<1>6. WhereItIs
  BY <1>1, <1>3, <1>5 DEF WhereItIs
<1>7. ImportTypeOK
  <2>0. inFlight = {}
    BY <1>1
  <2>1. 1 \in Nat \ {0}
    OBVIOUS
  <2>2. \A file \in Files : \A row \in db[file] : row.id \in Nat \ {0} /\ row.key \in Keys(file)
    BY <1>2, <2>1
  <2>3. \A file \in Files : \A row, other \in db[file] : row = other
    BY <1>2
  <2>4. \A file \in Files : \A action \in {"N", "R", "D"} : Len(buffers[file][action]) < FlushLimit
    BY <1>3 DEF Acts
  <2> QED BY <1>5, <2>0, <2>2, <2>3, <2>4 DEF ImportTypeOK
<1>8. SourceTypeOK
  BY <1>1, <1>5 DEF SourceTypeOK
<1>9. FeedTypeOK
  <2>1. MaxFeeds \in Nat /\ MaxRecords \in Nat
    BY FeedAssumption
  <2>2. 0 \in 0 .. MaxFeeds /\ 0 \in 0 .. MaxRecords
    BY ONLY <2>1
  <2> QED BY <1>1, <2>2 DEF FeedTypeOK
<1>10. ~(feeds > 0)
  <2>1. feeds = 0
    BY <1>1
  <2> QED BY ONLY <2>1
<1> QED BY <1>4, <1>6, <1>7, <1>8, <1>9, <1>10 DEF IInv, TypeOK

(* Opening a feed keeps the invariant. *)
LEMMA OpenKeepsInvariant ==
  ASSUME IInv, Open
  PROVE  IInv'
<1>1. /\ TypeOK /\ Shapes /\ WhereItIs /\ OpenFeed /\ ImportOpens
      /\ actions' = [file \in Files |-> {}] /\ UNCHANGED <<sourceVars, asWritten, clashed, shadowed>>
      /\ stage = "between feeds" /\ stage' = "schedule" /\ feeds < MaxFeeds /\ feeds' = feeds + 1 /\ records' = records
  BY DEF IInv, Open, OpenFeed
<1>2. \A file \in Files : feeds > 0 => ImportIsRight(file) /\ SourceIsRight(file) /\ NoOrphans(db[file], db[StopTable(file)])
  BY <1>1 DEF IInv
<1>3. \A file \in Files : ImportIsRight(file)' /\ lastId'[file] \in Nat /\ lastId'[StopTable(file)] \in Nat
  BY <1>1, <1>2, FeedsAreNumbers, OpenKeepsImport
<1>4. \A file \in Files : SourceIsRight(file)'
  <2>1. SUFFICES ASSUME NEW file \in Files PROVE SourceIsRight(file)'
    OBVIOUS
  <2>2. SourceIsRight(file)
    <3>1. CASE feeds > 0
      BY <1>2, <3>1
    <3>2. CASE feeds = 0
      BY <1>1, <3>2, NothingReadIsRight DEF WhereItIs
    <3> QED BY <1>1, <3>1, <3>2, FeedsOpen
  <2> QED BY <1>1, <2>2 DEF SourceIsRight, Stored, Mine, sourceVars
<1>5. Shapes' /\ WhereItIs' /\ feeds' > 0
  BY <1>1, <1>3, OpenKeepsPlace
<1>6. FeedTypeOK'
  <2>1. feeds \in 0 .. MaxFeeds /\ MaxFeeds \in Nat /\ records \in 0 .. MaxRecords
    BY <1>1, FeedAssumption DEF TypeOK, FeedTypeOK
  <2>2. feeds' \in 0 .. MaxFeeds
    <3>1. feeds < MaxFeeds /\ feeds' = feeds + 1
      BY <1>1
    <3>2. feeds \in 0 .. MaxFeeds /\ MaxFeeds \in Nat
      BY <2>1
    <3> QED BY ONLY <3>1, <3>2
  <2> QED BY <1>1, <2>1, <2>2, FilesApart DEF FeedTypeOK
<1>7. TypeOK'
  <2>1. sourceId' \in [Files -> Nat]
    BY <1>1 DEF TypeOK, SourceTypeOK, sourceVars
  <2> QED BY <1>3, <1>4, <1>5, <1>6, <2>1, TypesFollow
<1> QED BY <1>1, <1>3, <1>4, <1>5, <1>7 DEF IInv

(* Reading a record keeps it. *)
LEMMA ReadKeepsInvariant ==
  ASSUME IInv, Read
  PROVE  IInv'
<1>1. PICK record \in Records(stage) :
        /\ ReadRecord(record) /\ ImportReads(record) /\ SourceReads(record) /\ HistoryReads(record)
  BY DEF Read, NextRecord
<1>2. /\ TypeOK /\ Shapes /\ WhereItIs /\ stage \in Files /\ stage' = stage /\ feeds' = feeds
      /\ records < MaxRecords /\ records' = records + 1
  BY <1>1 DEF IInv, Read, ReadRecord
<1>3. feeds > 0
  <2>1. feeds # 0
    BY <1>2, FilesApart DEF WhereItIs
  <2> QED BY <1>2, <2>1, FeedsOpen
<1>4. \A file \in Files : ImportIsRight(file) /\ SourceIsRight(file)
  BY <1>3 DEF IInv
<1>5. \A file \in Files : ImportIsRight(file)'
  BY <1>1, <1>2, <1>4, ReadKeepsImport
<1>6. \A file \in Files : SourceIsRight(file)'
  BY <1>1, <1>2, <1>4, ReadKeepsSource
<1>7. Shapes' /\ WhereItIs'
  BY <1>1, <1>2, <1>4, ReadKeepsPlace
<1>8. FeedTypeOK'
  <2>1. feeds \in 0 .. MaxFeeds /\ records \in 0 .. MaxRecords /\ MaxRecords \in Nat
    BY <1>2, FeedAssumption DEF TypeOK, FeedTypeOK
  <2>2. records' \in 0 .. MaxRecords
    BY <1>2, <2>1
  <2> QED BY <1>2, <2>1, <2>2, FilesApart DEF FeedTypeOK
<1>9. TypeOK'
  <2>1. sourceId \in [Files -> Nat] /\ record.file \in Files
    BY <1>2, RecordIs DEF TypeOK, SourceTypeOK
  <2>2. sourceId' \in [Files -> Nat]
    BY <1>1, <2>1 DEF SourceReads
  <2> QED BY <1>5, <1>6, <1>7, <1>8, <2>2, TypesFollow
<1> QED BY <1>2, <1>5, <1>6, <1>7, <1>9, FilesApart DEF IInv

(* The end of a file keeps it. *)
LEMMA CloseKeepsInvariant ==
  ASSUME IInv, Close
  PROVE  IInv'
<1>1. PICK file \in Files : EndFile(file) /\ ImportCloses(file) /\ SourceEndsFile /\ UNCHANGED historyVars
  BY DEF Close
<1>2. /\ TypeOK /\ Shapes /\ WhereItIs /\ stage = file /\ feeds' = feeds /\ records' = records
      /\ stage' \in Files \cup {"closing"} /\ sourceId' = sourceId
      /\ UNCHANGED <<asWritten, shadowed>>
  BY <1>1, FilesApart DEF IInv, EndFile, SourceEndsFile, historyVars
<1>3. feeds > 0
  <2>1. feeds # 0
    BY <1>2, FilesApart DEF WhereItIs
  <2> QED BY <1>2, <2>1, FeedsOpen
<1>4. \A other \in Files : ImportIsRight(other) /\ SourceIsRight(other)
  BY <1>3 DEF IInv
<1>5. \A other \in Files : ImportIsRight(other)'
  BY <1>1, <1>2, <1>4, CloseKeepsImport
<1>6. \A other \in Files : SourceIsRight(other)'
  BY <1>1, <1>2, <1>4, EndKeepsSource
<1>7. Shapes' /\ WhereItIs'
  BY <1>1, <1>2, CloseKeepsPlace
<1>8. FeedTypeOK'
  BY <1>2 DEF TypeOK, FeedTypeOK
<1>9. TypeOK'
  <2>1. sourceId' \in [Files -> Nat]
    BY <1>2 DEF TypeOK, SourceTypeOK
  <2> QED BY <1>5, <1>6, <1>7, <1>8, <2>1, TypesFollow
<1> QED BY <1>2, <1>5, <1>6, <1>7, <1>9, FilesApart DEF IInv

(* A statement keeps it. *)
LEMMA RunKeepsInvariant ==
  ASSUME IInv, Run
  PROVE  IInv'
<1>1. /\ TypeOK /\ Shapes /\ WhereItIs /\ StatementRuns /\ UNCHANGED <<feedVars, sourceVars, historyVars>>
      /\ UNCHANGED <<stage, feeds, records, kept, pending, sourceId, asWritten, shadowed>>
  BY DEF IInv, Run, feedVars, sourceVars, historyVars
<1>2. Shapes' /\ WhereItIs' /\ feeds # 0 /\ stage # "between feeds"
  BY <1>1, RunKeepsPlace
<1>3. feeds > 0
  BY <1>1, <1>2, FeedsOpen
<1>4. \A file \in Files : ImportIsRight(file) /\ SourceIsRight(file)
  BY <1>3 DEF IInv
<1>5. \A file \in Files : ImportIsRight(file)'
  BY <1>1, <1>4, RunKeepsImport
<1>6. \A file \in Files : SourceIsRight(file)'
  BY <1>1, <1>4 DEF SourceIsRight, Stored, Mine
<1>7. FeedTypeOK'
  BY <1>1 DEF TypeOK, FeedTypeOK
<1>8. TypeOK'
  <2>1. sourceId' \in [Files -> Nat]
    BY <1>1 DEF TypeOK, SourceTypeOK
  <2> QED BY <1>2, <1>5, <1>6, <1>7, <2>1, TypesFollow
<1> QED BY <1>1, <1>2, <1>5, <1>6, <1>8 DEF IInv

(* The end of an import keeps it. *)
LEMMA FinishKeepsInvariant ==
  ASSUME IInv, Finish
  PROVE  IInv'
<1>1. /\ TypeOK /\ Shapes /\ WhereItIs /\ EndFeed /\ ImportFinishes /\ UNCHANGED <<sourceVars, historyVars>>
      /\ stage = "closing" /\ stage' = "between feeds"
      /\ UNCHANGED <<feeds, records, kept, pending, sourceId, asWritten, shadowed>>
  BY DEF IInv, Finish, EndFeed, sourceVars, historyVars
<1>2. Shapes' /\ WhereItIs' /\ feeds # 0
  BY <1>1, FinishKeepsPlace
<1>3. feeds > 0
  BY <1>1, <1>2, FeedsOpen
<1>4. \A file \in Files : ImportIsRight(file) /\ SourceIsRight(file)
  BY <1>3 DEF IInv
<1>5. \A file \in Files : ImportIsRight(file)' /\ NoOrphans(db[file], db[StopTable(file)])'
  BY <1>1, <1>4, FinishKeepsImport
<1>6. \A file \in Files : SourceIsRight(file)'
  BY <1>1, <1>4 DEF SourceIsRight, Stored, Mine
<1>7. FeedTypeOK'
  BY <1>1 DEF TypeOK, FeedTypeOK
<1>8. TypeOK'
  <2>1. sourceId' \in [Files -> Nat]
    BY <1>1 DEF TypeOK, SourceTypeOK
  <2> QED BY <1>2, <1>5, <1>6, <1>7, <2>1, TypesFollow
<1> QED BY <1>1, <1>2, <1>5, <1>6, <1>8 DEF IInv

(* A step that changes nothing keeps it. *)
LEMMA StutterKeepsInvariant ==
  ASSUME IInv, UNCHANGED vars
  PROVE  IInv'
<1>1. UNCHANGED <<stage, feeds, records, db, lastId, buffers, inFlight, kept, pending, sourceId,
                  asWritten, actions, clashed, shadowed>>
  BY DEF vars, feedVars, importVars, sourceVars, historyVars
<1>2. \A file \in Files : Waiting(file)' = Waiting(file)
  BY <1>1 DEF Waiting, SentFor
<1>3. \A file \in Files : ImportIsRight(file)' <=> ImportIsRight(file)
  BY <1>1, <1>2 DEF ImportIsRight
<1>4. \A file \in Files : SourceIsRight(file)' <=> SourceIsRight(file)
  BY <1>1 DEF SourceIsRight, Stored, Mine
<1>5. TypeOK'
  BY <1>1 DEF IInv, TypeOK, FeedTypeOK, ImportTypeOK, SourceTypeOK
<1>6. Shapes' /\ WhereItIs'
  BY <1>1 DEF IInv, Shapes, WhereItIs
<1> QED BY <1>1, <1>3, <1>4, <1>5, <1>6 DEF IInv

(***************************************************************************)
(* The inductive invariant holds throughout, for any trains, any number of *)
(* feeds and records and any limit on the buffers.                         *)
(***************************************************************************)
THEOREM Invariant == Spec => []IInv
<1>1. Init => IInv
  BY InitIsRight
<1>2. IInv /\ [Next]_vars => IInv'
  <2> SUFFICES ASSUME IInv, [Next]_vars PROVE IInv'
    OBVIOUS
  <2>1. CASE Open
    BY <2>1, OpenKeepsInvariant
  <2>2. CASE Read
    BY <2>2, ReadKeepsInvariant
  <2>3. CASE Close
    BY <2>3, CloseKeepsInvariant
  <2>4. CASE Run
    BY <2>4, RunKeepsInvariant
  <2>5. CASE Finish
    BY <2>5, FinishKeepsInvariant
  <2>6. CASE Done
    BY <2>6, StutterKeepsInvariant DEF Done
  <2>7. CASE UNCHANGED vars
    BY <2>7, StutterKeepsInvariant
  <2> QED BY <2>1, <2>2, <2>3, <2>4, <2>5, <2>6, <2>7 DEF Next
<1> QED BY <1>1, <1>2, PTL DEF Spec
-----------------------------------------------------------------------------
(* Between feeds nothing waits and nothing is pending. *)
LEMMA SettledIs ==
  ASSUME IInv, AllRead, NEW file \in Files
  PROVE  /\ IsRight(Keys(file), db[file], Empty, lastId[file], records,
                    actions[file], clashed[file], asWritten[file], db[StopTable(file)], lastId[StopTable(file)])
         /\ NoOrphans(db[file], db[StopTable(file)])
         /\ SourceIsRight(file)
         /\ Stored[file] = kept[file]
<1>1. stage = "between feeds" /\ feeds > 0 /\ WhereItIs
  BY DEF IInv, AllRead
<1>2. inFlight = {} /\ pending = {}
  BY <1>1, NoneSentBetweenFeeds, FilesApart DEF WhereItIs
<1>3. Waiting(file) = Empty
  BY <1>1, <1>2, FilesApart, NothingWaits
<1>4. ImportIsRight(file) /\ SourceIsRight(file) /\ NoOrphans(db[file], db[StopTable(file)])
  BY <1>1 DEF IInv
<1>5. Stored[file] = kept[file]
  <2>1. {schedule \in pending : schedule.file = file /\ Yields(schedule)} = {}
    BY <1>2
  <2> QED BY <2>1, StoredIs, NothingNewIsStored
<1> QED BY <1>3, <1>4, <1>5 DEF ImportIsRight

(* The stops of a schedule tell whether it is to be had. *)
LEMMA QueriedIs ==
  ASSUME IInv, AllRead, NEW file \in Files, NEW row \in db[file]
  PROVE  /\ {stop.n : stop \in StopsOf(row, file)} = IF row.calls = "none" THEN {} ELSE {row.n}
         /\ row \in Queried(file) <=>
              row.live /\ (row.calls = "station" \/ (row.calls = "none" /\ file = "schedule"))
<1>1. StopsAreTheirs(db[file], Empty, lastId[file], db[StopTable(file)], lastId[StopTable(file)])
  BY SettledIs DEF IsRight
<1>2. /\ \A stop \in db[StopTable(file)] : stop.schedule = row.id => stop.n = row.n /\ stop.calls = row.calls
      /\ row.calls # "none" <=> \E stop \in db[StopTable(file)] : stop.schedule = row.id
  BY <1>1, EmptyIs DEF StopsAreTheirs
<1>3. /\ \A stop \in StopsOf(row, file) : stop.n = row.n /\ stop.calls = row.calls
      /\ row.calls # "none" <=> \E stop \in StopsOf(row, file) : TRUE
  BY <1>2 DEF StopsOf
<1>4. {stop.n : stop \in StopsOf(row, file)} = IF row.calls = "none" THEN {} ELSE {row.n}
  BY <1>3
<1>5. row \in Queried(file) <=>
        row.live /\ (row.calls = "station" \/ (row.calls = "none" /\ file = "schedule"))
  BY <1>3 DEF Queried
<1> QED BY <1>4, <1>5

(* With nothing waiting a key is as it was written. *)
LEMMA ImportedInOrderFollows ==
  ASSUME IInv
  PROVE  ImportedInOrder
<1> SUFFICES ASSUME AllRead, NEW file \in Files, NEW key \in Keys(file) \ clashed[file]
             PROVE  LeftOf(key, db[file]) = RowsOf(key, asWritten[file])
  BY DEF ImportedInOrder, LeftOf, Row
<1>1. KeysAreRight(Keys(file), db[file], Empty, actions[file], clashed[file], asWritten[file])
  BY SettledIs DEF IsRight
<1> QED BY <1>1, SettledIsAsWritten

(* With no orphans every stop is of a schedule there. *)
LEMMA NothingDroppedFollows ==
  ASSUME IInv
  PROVE  NothingDroppedForItsId
<1> SUFFICES ASSUME AllRead, NEW file \in Files
             PROVE  /\ \A row \in db[file] :
                         {stop.n : stop \in StopsOf(row, file)} = IF row.calls = "none" THEN {} ELSE {row.n}
                    /\ \A stop \in db[StopTable(file)] : \E row \in db[file] : row.id = stop.schedule
  BY DEF NothingDroppedForItsId
<1>1. NoOrphans(db[file], db[StopTable(file)])
  BY SettledIs
<1> QED BY <1>1, QueriedIs DEF NoOrphans

(* Both readers have of a key what is wanted of the rows as written. *)
LEMMA SameTrainsFollows ==
  ASSUME IInv
  PROVE  SameTrains
<1> SUFFICES ASSUME AllRead, NEW file \in Files, NEW key \in Keys(file) \ (clashed[file] \cup shadowed[file]),
                    NEW n \in 1 .. records
             PROVE  <<key, n>> \in Imported(file) <=> <<key, n>> \in FromFiles(file)
  BY DEF SameTrains
<1> DEFINE Takes(row) == row.live /\ (row.calls = "station" \/ (row.calls = "none" /\ file = "schedule"))
<1>1. LeftOf(key, db[file]) = RowsOf(key, asWritten[file])
  <2>1. KeysAreRight(Keys(file), db[file], Empty, actions[file], clashed[file], asWritten[file])
    BY SettledIs DEF IsRight
  <2> QED BY <2>1, SettledIsAsWritten
<1>2. Has(key, kept[file]) = Wanted(key, asWritten[file], file)
  BY SettledIs DEF SourceIsRight
<1>3. <<key, n>> \in FromFiles(file) <=> \E calls : <<n, calls>> \in Has(key, kept[file])
  BY DEF FromFiles, Has
<1>4. <<key, n>> \in Imported(file) <=> \E row \in db[file] : row.key = key /\ row.n = n /\ Takes(row)
  <2>1. Queried(file) \subseteq db[file]
    BY DEF Queried
  <2>2. \A row \in db[file] : row \in Queried(file) <=> Takes(row)
    BY QueriedIs
  <2> HIDE DEF Takes
  <2> QED BY <2>1, <2>2 DEF Imported
<1>5. (\E row \in db[file] : row.key = key /\ row.n = n /\ Takes(row))
        <=> \E row \in LeftOf(key, db[file]) : row.n = n /\ Takes(row)
  <2>1. \A row : Row(row).n = row.n /\ (Takes(Row(row)) <=> Takes(row))
    BY DEF Row
  <2>2. LeftOf(key, db[file]) = {Row(row) : row \in {r \in db[file] : r.key = key}}
    BY DEF LeftOf, RowsOf
  <2> HIDE DEF Takes
  <2>3. ASSUME NEW row \in db[file], row.key = key, row.n = n, Takes(row)
        PROVE  \E left \in LeftOf(key, db[file]) : left.n = n /\ Takes(left)
    <3>1. Row(row) \in LeftOf(key, db[file])
      BY <2>2, <2>3
    <3> QED BY <2>1, <2>3, <3>1
  <2>4. ASSUME NEW left \in LeftOf(key, db[file]), left.n = n, Takes(left)
        PROVE  \E row \in db[file] : row.key = key /\ row.n = n /\ Takes(row)
    <3>1. PICK row \in db[file] : row.key = key /\ left = Row(row)
      BY <2>2, <2>4
    <3> QED BY <2>1, <2>4, <3>1
  <2> QED BY <2>3, <2>4
<1>6. (\E calls : <<n, calls>> \in Wanted(key, asWritten[file], file))
        <=> \E row \in RowsOf(key, asWritten[file]) : row.n = n /\ Takes(row)
  BY DEF Wanted
<1> HIDE DEF Takes
<1> QED BY <1>1, <1>2, <1>3, <1>4, <1>5, <1>6

(* Both readers number the trains in the order they were read. *)
LEMMA SameOrderFollows ==
  ASSUME IInv
  PROVE  SameOrder
<1> SUFFICES ASSUME AllRead, NEW file \in Files, NEW one \in kept[file], NEW other \in kept[file],
                    NEW row \in Queried(file), NEW following \in Queried(file),
                    one.n = row.n, other.n = following.n
             PROVE  one.id < other.id <=> row.id < following.id
  BY DEF SameOrder
<1>1. one.n < other.n <=> one.id < other.id
  BY SettledIs DEF SourceIsRight, Mine
<1>2. row.n < following.n <=> row.id < following.id
  <2>1. row \in db[file] /\ following \in db[file]
    BY DEF Queried
  <2>2. IdsAreFresh(db[file], Empty, lastId[file], records)
    BY SettledIs DEF IsRight
  <2> QED BY <2>1, <2>2, EmptyIs DEF IdsAreFresh
<1> QED BY <1>1, <1>2

(***************************************************************************)
(* Type correctness: no buffer reaches its limit and stays, and no two     *)
(* rows of a table have one id or one key.                                 *)
(***************************************************************************)
THEOREM TypeCorrectness == Spec => []TypeOK
<1>1. IInv => TypeOK
  BY DEF IInv
<1> QED BY <1>1, Invariant, PTL

(***************************************************************************)
(* Buffering by action and sending what is left all at once loses nothing  *)
(* but the order of a deletion: a key no feed both deletes and gives a row *)
(* is as the records left it.                                              *)
(***************************************************************************)
THEOREM ImportKeepsTheOrder == Spec => []ImportedInOrder
<1>1. IInv => ImportedInOrder
  BY ImportedInOrderFollows
<1> QED BY <1>1, Invariant, PTL

(***************************************************************************)
(* INSERT IGNORE drops no row for its id, and every schedule has its own   *)
(* calls, whatever ids were given before.                                  *)
(***************************************************************************)
THEOREM NothingIsDropped == Spec => []NothingDroppedForItsId
<1>1. IInv => NothingDroppedForItsId
  BY NothingDroppedFollows
<1> QED BY <1>1, Invariant, PTL

(***************************************************************************)
(* The file source and the importer give the same trains, but for the keys *)
(* the property passes over.                                               *)
(***************************************************************************)
THEOREM BothGiveTheSameTrains == Spec => []SameTrains
<1>1. IInv => SameTrains
  BY SameTrainsFollows
<1> QED BY <1>1, Invariant, PTL

(* The two readers hand over the trains in one order. *)
THEOREM BothGiveOneOrder == Spec => []SameOrder
<1>1. IInv => SameOrder
  BY SameOrderFollows
<1> QED BY <1>1, Invariant, PTL
=============================================================================
