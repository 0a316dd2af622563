--------------------------- MODULE MergeFeeds ---------------------------
(***************************************************************************)
(* gtfsmerge: MergeCommand reads one feed after another, GTFSOutput hands  *)
(* its rows to the mergers, and each of those writes what survives under   *)
(* the ids of the merged feed.                                             *)
(*                                                                         *)
(* A feed is a record of its files, each a sequence of rows: of a row, the *)
(* columns that the mergers read, and "of", which row of which feed it     *)
(* was, for all the columns that pass through.  Stops, areas and agencies  *)
(* have national ids; the ids of routes, services, trips, blocks and       *)
(* shapes mean something within their feed alone.  A file of the output is *)
(* the sequence of the rows written, and an id handed out the place in it. *)
(*                                                                         *)
(* Coordinates are whole numbers on a plane, in the unit of                *)
(* TransferDistance: the ruler of the code is one too.  Agencies and       *)
(* attributions pass through, feed_info.txt is one row of its own, and     *)
(* the couplings of three or more trips are couplings of two.              *)
(***************************************************************************)
EXTENDS MergedServices, Integers, Sequences, SequencesExt, Functions

CONSTANTS
  Inputs,            \* the sequences of feeds there may be to merge
  None,              \* an optional column left empty
  Located,           \* where each stop is, or None: <<x, y>>
  TransferDistance   \* how far a walk may be; 0 for no walks

ASSUME DistanceAssumption == TransferDistance \in Nat

ASSUME NoneAssumption == None \notin Nat

ASSUME LocatedAssumption ==
  \A stop \in DOMAIN Located : Located[stop] # None => Located[stop] \in Int \X Int

FeedFiles == {"routes", "services", "trips", "calls", "points", "frequencies",
              "transfers", "stops", "areas", "members"}

(***************************************************************************)
(* The feeds given keep the rules of GTFS: the ids of a file are told      *)
(* apart, a trip is of a route that is there, a call and a parent are      *)
(* stops that are there, and a transfer names two trips or none.           *)
(***************************************************************************)
IsAService(s) ==
  /\ IsFiniteSet(s.dates)
  /\ s.dates \subseteq [date : Nat, type : {"added", "removed"}]
  /\ s.calendar # NoCalendar =>
       s.calendar \in [days : SUBSET Days, start : Nat, end : Nat]

StopIds(given) == {s.stop : s \in Range(given.stops)}

IsAFeed(given) ==
  /\ DOMAIN given = FeedFiles
  /\ \A file \in FeedFiles : given[file] \in Seq(Range(given[file]))
  /\ \A file \in {"services", "trips"} : \A i, j \in DOMAIN given[file] :
       given[file][i].id = given[file][j].id => i = j
  /\ \A s \in Range(given.services) : IsAService(s)
  /\ \A t \in Range(given.trips) : \E r \in Range(given.routes) : r.id = t.route
  /\ \A c \in Range(given.calls) : c.stop \in StopIds(given)
  /\ \A s \in Range(given.stops) :
       /\ DOMAIN s = {"stop", "parent", "code"}
       /\ s.stop \in DOMAIN Located
       /\ s.parent \in StopIds(given) \cup {None}
  /\ \A t \in Range(given.transfers) :
       t.time \in Nat /\ (t.fromTrip = None <=> t.toTrip = None)

ASSUME InputsAssumption ==
  \A given \in Inputs :
    /\ given \in Seq(Range(given))
    /\ \A f \in DOMAIN given : IsAFeed(given[f])
    /\ \A f, g \in DOMAIN given :
         \A i \in DOMAIN given[f].trips, j \in DOMAIN given[g].trips :
           given[f].trips[i].of = given[g].trips[j].of => f = g /\ i = j

VARIABLES
  feeds,             \* the feeds given
  feed,              \* the place of the one in hand
  phase,             \* which of its files is being written
  gtfs,              \* the feed in hand: the rows still to take
  maps,              \* its ids for routes, services, trips, blocks, shapes
  used,              \* the stops its calls are at
  batch,             \* the calls of the chunk being read
  blocks,            \* how many blocks have been numbered ...
  shapes,            \* ... and how many shapes
  existing,          \* the transfers written for it, by their stops
  places,            \* the stops that walks are looked for from, as seen
  parents,           \* every feed's stations, by their stops
  codes,             \* the stations that each code is on a stop of
  held,              \* the stops and the area members to write at the end
  published,         \* the stops published by any feed so far
  out                \* the files written

hand == <<feed, phase, gtfs, maps, used, batch, existing>>
memory == <<blocks, shapes, places, parents, codes, held, published>>
vars == <<feeds, hand, memory, out>>

Nothing == [x \in {} |-> None]

NoMaps == [routes |-> Nothing, services |-> Nothing, trips |-> Nothing,
           blocks |-> Nothing, shapes |-> Nothing]

(* What a map of ids says of an id: undefined is None. *)
Get(map, id) == IF id \in DOMAIN map THEN map[id] ELSE None

Put(map, id, value) ==
  [x \in DOMAIN map \cup {id} |-> IF x = id THEN value ELSE map[x]]

Assign(map, other) ==
  [x \in DOMAIN map \cup DOMAIN other |->
     IF x \in DOMAIN other THEN other[x] ELSE map[x]]

Init ==
  /\ feeds \in Inputs
  /\ feed = 0
  /\ phase = "read"
  /\ gtfs = None
  /\ maps = NoMaps
  /\ used = {}
  /\ batch = <<>>
  /\ existing = {}
  /\ blocks = 0
  /\ shapes = 0
  /\ places = {}
  /\ parents = Nothing
  /\ codes = Nothing
  /\ held = [stops |-> <<>>, members |-> <<>>]
  /\ published = {}
  /\ out = [routes |-> <<>>, services |-> <<>>, trips |-> <<>>,
            calls |-> <<>>, points |-> <<>>, frequencies |-> <<>>,
            transfers |-> <<>>, stops |-> <<>>, areas |-> <<>>,
            members |-> <<>>]
-----------------------------------------------------------------------------
(***************************************************************************)
(* readMergeInput: one transfer for two stops, the shortest of them, or    *)
(* the first; a coupling is one for its trips.  A fixed link is a transfer *)
(* by the time it comes here.                                              *)
(***************************************************************************)
SameTransfer(one, other) ==
  /\ one.from = other.from /\ one.to = other.to
  /\ one.fromTrip = other.fromTrip /\ one.toTrip = other.toTrip

ShortestTransfers(transfers) ==
  LET Beaten(i) == \E j \in DOMAIN transfers :
                     /\ SameTransfer(transfers[i], transfers[j])
                     /\ \/ transfers[j].time < transfers[i].time
                        \/ transfers[j].time = transfers[i].time /\ j < i
  IN  [k \in 1 .. Cardinality({i \in DOMAIN transfers : ~Beaten(i)}) |->
         transfers[CHOOSE i \in DOMAIN transfers :
           /\ ~Beaten(i)
           /\ Cardinality({j \in 1 .. i : ~Beaten(j)}) = k]]

(* A slip the runs must notice: the blocks of one feed known in the next. *)
ReadKeepingBlocks ==
  /\ phase = "read"
  /\ feed < Len(feeds)
  /\ feed' = feed + 1
  /\ gtfs' = [feeds[feed + 1] EXCEPT !.transfers = ShortestTransfers(@)]
  /\ phase' = "routes"
  /\ maps' = [NoMaps EXCEPT !.blocks = maps.blocks]
  /\ used' = {}
  /\ existing' = {}
  /\ UNCHANGED <<feeds, batch, memory, out>>

Read ==
  /\ phase = "read"
  /\ feed < Len(feeds)
  /\ feed' = feed + 1
  /\ gtfs' = [feeds[feed + 1] EXCEPT !.transfers = ShortestTransfers(@)]
  /\ phase' = "routes"
  /\ maps' = NoMaps
  /\ used' = {}
  /\ existing' = {}
  /\ UNCHANGED <<feeds, batch, memory, out>>

(* The next row of a file; where there is none, the next file. *)
Row(file) == phase = file /\ gtfs[file] # <<>>

First(file) == Head(gtfs[file])

Taken(file) == gtfs' = [gtfs EXCEPT ![file] = Tail(@)]

Through(file, following) ==
  /\ phase = file /\ gtfs[file] = <<>>
  /\ phase' = following

WriteRow(file, row) == out' = [out EXCEPT ![file] = Append(@, row)]
-----------------------------------------------------------------------------
(***************************************************************************)
(* RouteMerger: a route is numbered unless its type is to be removed.      *)
(***************************************************************************)
WriteRoute ==
  /\ Row("routes")
  /\ Taken("routes")
  /\ IF First("routes").removed
     THEN UNCHANGED <<maps, out>>
     ELSE /\ WriteRow("routes", First("routes").of)
          /\ maps' = [maps EXCEPT !.routes =
                        Put(@, First("routes").id, Len(out.routes) + 1)]
  /\ UNCHANGED <<feeds, feed, phase, used, batch, existing, memory>>

(***************************************************************************)
(* CalendarMerger: a service is mapped to the one that was written for the *)
(* same calendar and the same exceptions, or is written.                   *)
(***************************************************************************)
Seen(written) == SelectInSeq(out.services, LAMBDA s : s = written)

WriteService ==
  /\ Row("services")
  /\ Taken("services")
  /\ LET service == First("services")
         written == Written(service)
         MapTo(id) == maps' = [maps EXCEPT !.services = Put(@, service.id, id)]
     IN  \/ /\ ~RunsAtAll(written)
            /\ UNCHANGED <<maps, out>>
         \/ /\ RunsAtAll(written)
            /\ Seen(written) > 0
            /\ MapTo(Seen(written))
            /\ UNCHANGED out
         \/ /\ RunsAtAll(written)
            /\ Seen(written) = 0
            /\ MapTo(Len(out.services) + 1)
            /\ WriteRow("services", written)
  /\ UNCHANGED <<feeds, feed, phase, used, batch, existing, memory>>

(***************************************************************************)
(* TripsMerger: a trip whose service and route survived is numbered, and   *)
(* so are its block and its shape, once for a feed.                        *)
(***************************************************************************)
(* A slip the runs must notice: the number before the next. *)
NumberedTooLow(map, id, count) ==
  IF id = None \/ id \in DOMAIN map THEN map ELSE Put(map, id, count)

Numbered(map, id, count) ==
  IF id = None \/ id \in DOMAIN map THEN map ELSE Put(map, id, count + 1)

NewlyNumbered(map, id, count) ==
  IF id = None \/ id \in DOMAIN map THEN count ELSE count + 1

WriteTrip ==
  /\ Row("trips")
  /\ Taken("trips")
  /\ LET trip == First("trips")
         service == Get(maps.services, trip.service)
         route == Get(maps.routes, trip.route)
         inBlocks == Numbered(maps.blocks, trip.block, blocks)
         inShapes == Numbered(maps.shapes, trip.shape, shapes)
     IN  IF service = None \/ route = None
         THEN UNCHANGED <<maps, blocks, shapes, out>>
         ELSE /\ maps' = [maps EXCEPT
                   !.trips = Put(@, trip.id, Len(out.trips) + 1),
                   !.blocks = inBlocks,
                   !.shapes = inShapes]
              /\ blocks' = NewlyNumbered(maps.blocks, trip.block, blocks)
              /\ shapes' = NewlyNumbered(maps.shapes, trip.shape, shapes)
              /\ WriteRow("trips",
                   [of |-> trip.of, route |-> route, service |-> service,
                    block |-> Get(inBlocks, trip.block),
                    shape |-> Get(inShapes, trip.shape)])
  /\ UNCHANGED <<feeds, feed, phase, used, batch, existing, places, parents,
                 codes, held, published>>

(***************************************************************************)
(* StopTimesPass: calls arrive row by row and are written a chunk at a     *)
(* time, but for those with one of their times missing.                    *)
(***************************************************************************)
ReadCall ==
  /\ Row("calls")
  /\ Taken("calls")
  /\ LET call == First("calls")
         trip == Get(maps.trips, call.trip)
     IN  IF call.complete /\ trip # None
         THEN /\ used' = used \cup {call.stop}
              /\ batch' = Append(batch,
                   [of |-> call.of, trip |-> trip, stop |-> call.stop])
         ELSE UNCHANGED <<used, batch>>
  /\ UNCHANGED <<feeds, feed, phase, maps, existing, memory, out>>

FlushCalls ==
  /\ phase = "calls"
  /\ batch # <<>>
  /\ out' = [out EXCEPT !.calls = @ \o batch]
  /\ batch' = <<>>
  /\ UNCHANGED <<feeds, feed, phase, gtfs, maps, used, existing, memory>>

(* ShapesPass: in the same pass, the points of a shape some trip is drawn *)
(* along.                                                                  *)
WritePoint ==
  /\ Row("points")
  /\ Taken("points")
  /\ IF Get(maps.shapes, First("points").shape) = None
     THEN UNCHANGED out
     ELSE WriteRow("points", [of |-> First("points").of,
                              shape |-> maps.shapes[First("points").shape]])
  /\ UNCHANGED <<feeds, feed, phase, maps, used, batch, existing, memory>>

WriteFrequency ==
  /\ Row("frequencies")
  /\ Taken("frequencies")
  /\ IF Get(maps.trips, First("frequencies").trip) = None
     THEN UNCHANGED out
     ELSE WriteRow("frequencies",
            [of |-> First("frequencies").of,
             trip |-> maps.trips[First("frequencies").trip]])
  /\ UNCHANGED <<feeds, feed, phase, maps, used, batch, existing, memory>>
-----------------------------------------------------------------------------
(***************************************************************************)
(* What the feed in hand publishes: the stops its calls are at, and the    *)
(* station above each.                                                     *)
(***************************************************************************)
ParentsIn(rows) ==
  LET children == {i \in DOMAIN rows : rows[i].parent # None}
  IN  [stop \in {rows[i].stop : i \in children} |->
         rows[Max({i \in children : rows[i].stop = stop})].parent]

ParentStops == ParentsIn(feeds[feed].stops)

Published == used \cup {ParentStops[s] : s \in used \cap DOMAIN ParentStops}

(***************************************************************************)
(* StopsAndTransfersMerger.writeTransfers: a transfer between stops of the *)
(* feed in hand, its trips renumbered.                                     *)
(***************************************************************************)
BeginTransfers ==
  /\ phase = "frequencies" /\ gtfs.frequencies = <<>>
  /\ phase' = "transfers"
  /\ parents' = Assign(parents, ParentStops)
  /\ UNCHANGED <<feeds, feed, gtfs, maps, used, batch, existing, blocks, shapes,
                 places, codes, held, published, out>>

WriteTransfer ==
  /\ Row("transfers")
  /\ Taken("transfers")
  /\ LET transfer == First("transfers")
         coupling == transfer.fromTrip # None
         from == Get(maps.trips, transfer.fromTrip)
         to == Get(maps.trips, transfer.toTrip)
     IN  IF /\ {transfer.from, transfer.to} \subseteq Published
            /\ coupling => from # None /\ to # None
         THEN /\ WriteRow("transfers",
                   [from |-> transfer.from, to |-> transfer.to,
                    fromTrip |-> IF coupling THEN from ELSE None,
                    toTrip |-> IF coupling THEN to ELSE None,
                    of |-> transfer.of])
              /\ existing' = existing \cup {<<transfer.from, transfer.to>>}
         ELSE UNCHANGED <<out, existing>>
  /\ UNCHANGED <<feeds, feed, phase, maps, used, batch, memory>>
-----------------------------------------------------------------------------
(***************************************************************************)
(* writeStops: a published stop is held to the end.  If it is a place of   *)
(* its own, a walk is written to every place seen before that is closer    *)
(* than TransferDistance, which is in its cell or one around it.           *)
(***************************************************************************)
CellOf(at) == <<at[1] \div TransferDistance, at[2] \div TransferDistance>>

InTheNineCells(at, other) ==
  \A axis \in {1, 2} :
    CellOf(at)[axis] - CellOf(other)[axis] \in {-1, 0, 1}

CloserThanATransfer(at, other) ==
  LET dx == at[1] - other[1]
      dy == at[2] - other[2]
  IN  dx * dx + dy * dy < TransferDistance * TransferDistance

(* A slip the runs must notice: a walk that is there one way written both. *)
WalksUnlessBothWays(stop) ==
  {other \in places :
     /\ InTheNineCells(Located[stop], Located[other])
     /\ ~({<<stop, other>>, <<other, stop>>} \subseteq existing)
     /\ CloserThanATransfer(Located[stop], Located[other])}

WalksFrom(stop) ==
  {other \in places :
     /\ InTheNineCells(Located[stop], Located[other])
     /\ <<stop, other>> \notin existing /\ <<other, stop>> \notin existing
     /\ CloserThanATransfer(Located[stop], Located[other])}

Walk(from, to) == [from |-> from, to |-> to, fromTrip |-> None,
                   toTrip |-> None, of |-> "walk"]

Carrying(code, place) ==
  Put(codes, code, {place} \cup IF code \in DOMAIN codes THEN codes[code] ELSE {})

IsAPlace(stop) ==
  /\ TransferDistance > 0
  /\ stop \notin DOMAIN parents
  /\ stop \notin places
  /\ Located[stop] # None

WriteStop ==
  /\ Row("stops")
  /\ Taken("stops")
  /\ LET row == First("stops")
         place == IF row.stop \in DOMAIN parents THEN parents[row.stop]
                                                 ELSE row.stop
         walks == SetToSeq(WalksFrom(row.stop))
     IN  IF row.stop \notin Published
         THEN UNCHANGED <<held, codes, places, out>>
         ELSE /\ held' = [held EXCEPT !.stops = Append(@, row)]
              /\ codes' = IF row.code = None THEN codes
                          ELSE Carrying(row.code, place)
              /\ IF IsAPlace(row.stop)
                 THEN /\ places' = places \cup {row.stop}
                      /\ out' = [out EXCEPT !.transfers = @ \o
                           [i \in DOMAIN walks |-> Walk(row.stop, walks[i])] \o
                           [i \in DOMAIN walks |-> Walk(walks[i], row.stop)]]
                 ELSE UNCHANGED <<places, out>>
  /\ UNCHANGED <<feeds, feed, phase, maps, used, batch, existing, blocks,
                 shapes, parents, published>>
-----------------------------------------------------------------------------
(***************************************************************************)
(* AreasMerger: an area is written once; its members, or the stations they *)
(* belong to in their feed, are held to the end.                           *)
(***************************************************************************)
WriteArea ==
  /\ Row("areas")
  /\ Taken("areas")
  /\ IF First("areas") \in Range(out.areas) THEN UNCHANGED out
     ELSE WriteRow("areas", First("areas"))
  /\ UNCHANGED <<feeds, feed, phase, maps, used, batch, existing, memory>>

Station(stop) == IF stop \in DOMAIN ParentStops THEN ParentStops[stop] ELSE stop

HoldMembers ==
  /\ phase = "members"
  /\ published' = published \cup Published
  /\ held' = [held EXCEPT !.members = @ \o
       [i \in DOMAIN gtfs.members |->
          [area |-> gtfs.members[i].area,
           stop |-> Station(gtfs.members[i].stop)]]]
  /\ phase' = "read"
  /\ UNCHANGED <<feeds, feed, gtfs, maps, used, batch, existing, blocks, shapes,
                 places, parents, codes, out>>
-----------------------------------------------------------------------------
(* One file after the other: what the next needs is known by then. *)
NextFile ==
  /\ \/ Through("routes", "services")
     \/ Through("services", "trips")
     \/ Through("trips", "calls")
     \/ Through("calls", "points") /\ batch = <<>>
     \/ Through("points", "frequencies")
     \/ Through("transfers", "stops")
     \/ Through("stops", "areas")
     \/ Through("areas", "members")
  /\ UNCHANGED <<feeds, feed, gtfs, maps, used, batch, existing, memory, out>>

(***************************************************************************)
(* end: the stops, without a code that more than one station carries, and  *)
(* the members that are stops of the merged feed.  A stop or a member that *)
(* has been written is not written again.                                  *)
(***************************************************************************)
Coded(row) ==
  IF row.code # None /\ Cardinality(codes[row.code]) > 1
  THEN [row EXCEPT !.code = None] ELSE row

Once(rows, Key(_)) ==
  LET IsFirst(i) == \A j \in 1 .. i - 1 : Key(rows[j]) # Key(rows[i])
      kept == {i \in DOMAIN rows : IsFirst(i)}
  IN  [k \in 1 .. Cardinality(kept) |->
         rows[CHOOSE i \in kept : Cardinality({j \in kept : j <= i}) = k]]

End ==
  /\ phase = "read"
  /\ feed = Len(feeds)
  /\ phase' = "ended"
  /\ out' = [out EXCEPT
       !.stops = Once([i \in DOMAIN held.stops |-> Coded(held.stops[i])],
                      LAMBDA row : row.stop),
       !.members = Once(SelectSeq(held.members,
                                  LAMBDA member : member.stop \in published),
                        LAMBDA member : member)]
  /\ UNCHANGED <<feeds, feed, gtfs, maps, used, batch, existing, memory>>

Next ==
  \/ Read \/ WriteRoute \/ WriteService \/ WriteTrip
  \/ ReadCall \/ FlushCalls \/ WritePoint \/ WriteFrequency
  \/ BeginTransfers \/ WriteTransfer \/ WriteStop \/ WriteArea \/ HoldMembers
  \/ NextFile \/ End

Spec == Init /\ [][Next]_vars /\ WF_vars(Next)
-----------------------------------------------------------------------------
Maybe(S) == S \cup {None}

(***************************************************************************)
(* The type invariant: what is handed out as an id is the place of a row   *)
(* that has been written, and what a row refers to has been written before *)
(* it (TripsMerger, StopTimesMerger, FrequenciesMerger, ShapesMerger).     *)
(***************************************************************************)
TypeOK ==
  /\ feed \in 0 .. Len(feeds)
  /\ phase \in {"read", "routes", "services", "trips", "calls", "points",
                "frequencies", "transfers", "stops", "areas", "members", "ended"}
  /\ \A file \in {"routes", "services", "trips"} :
       Range(maps[file]) \subseteq DOMAIN out[file]
  /\ Range(maps.blocks) \subseteq 1 .. blocks
  /\ Range(maps.shapes) \subseteq 1 .. shapes
  /\ \A t \in Range(out.trips) :
       /\ t.route \in DOMAIN out.routes
       /\ t.service \in DOMAIN out.services
       /\ t.block \in Maybe(1 .. blocks)
       /\ t.shape \in Maybe(1 .. shapes)
  /\ \A c \in Range(batch) \cup Range(out.calls) \cup Range(out.frequencies) :
       c.trip \in DOMAIN out.trips
  /\ \A t \in Range(out.transfers) :
       {t.fromTrip, t.toTrip} \subseteq Maybe(DOMAIN out.trips)
  /\ \A p \in Range(out.points) : p.shape \in 1 .. shapes
  /\ places \subseteq {s.stop : s \in Range(held.stops)}
  /\ used \subseteq DOMAIN Located

Ended == phase = "ended"

(* The rows of a file that say this of the one they belong to, and whose   *)
(* rows they were.                                                         *)
Of(rows, Says(_)) == {r.of : r \in {x \in Range(rows) : Says(x)}}

(* The trips of a feed, with the place each has in the merged feed.        *)
Survivors(f) ==
  {s \in Range(feeds[f].trips) \X DOMAIN out.trips : out.trips[s[2]].of = s[1].of}

(***************************************************************************)
(* A merged trip is one trip of one feed, with its route, the whole of its *)
(* calls and frequencies, the points of its own shape, and couplings that  *)
(* were its own.  Two trips are in one block, or drawn along one shape,    *)
(* just when they were in the same feed.  Every feed numbers from 1, so a  *)
(* map that outlives its feed or a row that takes another's id joins the   *)
(* trips of two operators (GTFSOutput.write, TripsMerger).                 *)
(***************************************************************************)
TripsAreTheirOwn ==
  Ended =>
    /\ IsInjective([i \in DOMAIN out.trips |-> out.trips[i].of])
    /\ \A f \in DOMAIN feeds : \A s \in Survivors(f) :
         LET t == s[1]
             i == s[2]
         IN  /\ out.routes[out.trips[i].route] \in
                  Of(feeds[f].routes, LAMBDA r : r.id = t.route)
             /\ Of(out.calls, LAMBDA c : c.trip = i) =
                  Of(feeds[f].calls, LAMBDA c : c.trip = t.id /\ c.complete)
             /\ Of(out.frequencies, LAMBDA c : c.trip = i) =
                  Of(feeds[f].frequencies, LAMBDA c : c.trip = t.id)
             /\ t.shape # None =>
                  Of(out.points, LAMBDA p : p.shape = out.trips[i].shape) =
                  Of(feeds[f].points, LAMBDA p : p.shape = t.shape)
             /\ Of(out.transfers, LAMBDA c : c.fromTrip = i) \subseteq
                  Of(feeds[f].transfers, LAMBDA c : c.fromTrip = t.id)
             /\ Of(out.transfers, LAMBDA c : c.toTrip = i) \subseteq
                  Of(feeds[f].transfers, LAMBDA c : c.toTrip = t.id)
    /\ \A f, g \in DOMAIN feeds :
         \A s \in Survivors(f), r \in Survivors(g) : \A part \in {"block", "shape"} :
           out.trips[s[2]][part] = out.trips[r[2]][part] <=>
             \/ s[1][part] = None /\ r[1][part] = None
             \/ f = g /\ s[1][part] # None /\ s[1][part] = r[1][part]

(***************************************************************************)
(* From the filter's date on, a merged trip runs on the days it ran on in  *)
(* its feed, whichever feed's calendar stands for its service; and a trip  *)
(* with such a day left is only missing if its route was to be removed     *)
(* (CalendarMerger.write, FeedIndex.calendar).                             *)
(***************************************************************************)
FromTheFilterOn(days) == {d \in days : d >= FilterBefore}

DaysAreKept ==
  Ended =>
    \A f \in DOMAIN feeds : \A t \in Range(feeds[f].trips) :
      \A service \in {x \in Range(feeds[f].services) : x.id = t.service} :
        LET days == FromTheFilterOn(DaysOfService(service))
        IN  /\ \A s \in Survivors(f) :
                 s[1] = t =>
                   LET written == out.services[out.trips[s[2]].service]
                   IN  FromTheFilterOn(DaysOf(written.calendar, written.dates))
                         = days
            /\ \/ days = {}
               \/ \E r \in Range(feeds[f].routes) : r.id = t.route /\ r.removed
               \/ \E s \in Survivors(f) : s[1] = t

(***************************************************************************)
(* Two places of the merged feed that are close enough are connected,      *)
(* whichever feed brought each and whether or not they are in one cell of  *)
(* the grid.  None is there twice, unless a feed brings both of two stops  *)
(* that feeds before it had brought already, and with them a transfer of   *)
(* its own (StopsAndTransfersMerger.addNearbyStops).                       *)
(***************************************************************************)
BroughtBefore(f) == UNION {StopIds(feeds[g]) : g \in 1 .. f - 1}

BroughtAgain(p, q) ==
  \E f \in DOMAIN feeds : {p, q} \subseteq StopIds(feeds[f]) \cap BroughtBefore(f)

ConnectsPlaces(p, q) ==
  {i \in DOMAIN out.transfers :
     out.transfers[i].from = p /\ out.transfers[i].to = q}

WalksBetweenPlaces ==
  Ended =>
    /\ \A p, q \in {s.stop : s \in Range(out.stops)} \ DOMAIN parents :
         /\ TransferDistance > 0 /\ p # q
         /\ Located[p] # None /\ Located[q] # None
         /\ CloserThanATransfer(Located[p], Located[q])
         => ConnectsPlaces(p, q) \cup ConnectsPlaces(q, p) # {}
    /\ \A p, q \in DOMAIN Located :
         ~BroughtAgain(p, q) =>
           Cardinality({i \in ConnectsPlaces(p, q) :
                          out.transfers[i].fromTrip = None}) < 2

(***************************************************************************)
(* "published is every stop the merged feed will contain" (the comment of  *)
(* StopsAndTransfersMerger.write): a transfer between two stops of the     *)
(* merged feed is in it.  It does not hold: the stops published are those  *)
(* of the feed in hand.                                                    *)
(***************************************************************************)
TransfersAreKept ==
  Ended =>
    \A f \in DOMAIN feeds : \A t \in Range(feeds[f].transfers) :
      /\ {t.from, t.to} \subseteq {s.stop : s \in Range(out.stops)}
      /\ t.fromTrip = None
      => ConnectsPlaces(t.from, t.to) # {}
=============================================================================
