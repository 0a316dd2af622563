---------------------------- MODULE Convert ----------------------------
(***************************************************************************)
(* transxchange2gtfs: Converter.process and the streams that Container     *)
(* pipes together.  FileStream reads documents out of files and zips,      *)
(* XMLStream parses them, TransXChangeStream makes a schedule of each,     *)
(* TransXChangeJourneyStream the journeys of a schedule, and nine          *)
(* RowStreams the rows of nine files, which sinks write.                   *)
(*                                                                         *)
(* A stream is its queue.  A chunk reaches all the streams it is piped to  *)
(* in one turn, and each makes its rows of it there and then: a row on the *)
(* way to its sink is as good as in its file.  The queues that hold        *)
(* documents stop at HighWaterMark.  Pipes pass no errors on, so an error  *)
(* of a stream, which nobody listens for, ends the process.                *)
(*                                                                         *)
(* A document is the columns that get as far as an id, a reference or a    *)
(* day.  Names, coordinates and times pass through.                        *)
(***************************************************************************)
EXTENDS JourneyCalendars, FiniteSets, Functions, SequencesExt

CONSTANTS
  Inputs,           \* the sequences of files there may be to convert
  HighWaterMark,    \* 16 documents
  None,             \* nothing
  Unreadable,       \* in place of a document: an entry that cannot be read
  Near              \* the pairs of NaPTAN stops that are in a walk's reach

ASSUME HighWaterMarkAssumption == HighWaterMark \in Nat \ {0, 1}

(***************************************************************************)
(* What may be given: a file has its entries in order, one of its own if   *)
(* it is no zip, and what can be made a schedule of has lists of           *)
(* operators, lines, stops and journeys, and holidays that have dates.     *)
(***************************************************************************)
IsAList(s) == s \in Seq(Range(s))

IsAProfile(profile) ==
  /\ profile.days \subseteq Nat
  /\ profile.breaks \in Seq([start : Int, end : Int])
  /\ profile.holidaysOn \cup profile.holidaysOff \subseteq DOMAIN BankHolidays

IsAVehicle(vehicle) ==
  /\ vehicle.profile # None => IsAProfile(vehicle.profile)
  /\ vehicle.period \in [start : Int, end : Int]
  /\ IsAList(vehicle.stops)

IsADocument(d) ==
  /\ d # None
  /\ d.isSchedule => /\ IsAList(d.operators) /\ IsAList(d.lines)
                     /\ IsAList(d.stops) /\ IsAList(d.vehicles)
                     /\ \A vehicle \in Range(d.vehicles) : IsAVehicle(vehicle)

ASSUME InputsAssumption ==
  \A given \in Inputs :
    /\ IsAList(given)
    /\ \A f \in Range(given) :
         /\ f.kind \in {"zip", "xml", "other"}
         /\ IsAList(f.entries)
         /\ f.kind = "xml" => Len(f.entries) = 1
         /\ \A d \in Range(f.entries) : d = Unreadable \/ IsADocument(d)

VARIABLES
  files,        \* what was given
  file,         \* the file FileStream is reading ...
  entry,        \* ... and the entry of it
  failures,     \* the entries it could not read
  waiting,      \* it waits for the reader to want more
  pushed,       \* the documents it has pushed
  taken,        \* the documents piped to XMLStream
  parsing,      \* the one being parsed
  parsed,       \* what was parsed, piped to TransXChangeStream
  vehicles,     \* the journeys of what that made, which are piped on
  calendars,    \* calendars by the id given them
  trips,        \* how many trips have been numbered
  written,      \* the rows made for each file, in the order they are written
  closed,       \* the files finished
  status

reading == <<file, entry, failures, waiting>>
documents == <<pushed, taken, parsing, parsed, vehicles>>
numbers == <<calendars, trips>>
vars == <<files, reading, documents, numbers, written, closed, status>>

ScheduleFiles == {"agency", "routes", "transfers", "stops"}

JourneyFiles == {"calendar", "dates", "trips", "stop_times", "shapes"}

Files == ScheduleFiles \cup JourneyFiles

Init ==
  /\ files \in Inputs
  /\ file = 1 /\ entry = 1
  /\ failures = 0
  /\ waiting = FALSE
  /\ pushed = <<>> /\ taken = <<>>
  /\ parsing = None
  /\ parsed = <<>> /\ vehicles = <<>>
  /\ calendars = <<>> /\ trips = 0
  /\ written = [f \in Files |-> <<>>]
  /\ closed = {}
  /\ status = "converting"

Converting == status = "converting"
-----------------------------------------------------------------------------
(***************************************************************************)
(* FileStream: a document is pushed and, where that fills the buffer, the  *)
(* reader waited for.  What cannot be read of a zip is counted and passed  *)
(* over; a file that is neither, or cannot be read, is an error.           *)
(***************************************************************************)
Reading == Converting /\ ~waiting /\ file <= Len(files)

NextEntry == entry' = entry + 1 /\ UNCHANGED file

(* A slip the runs must notice: pushing without waiting. *)
PushDocumentWithoutWaiting ==
  /\ Reading
  /\ entry <= Len(files[file].entries)
  /\ files[file].entries[entry] # Unreadable
  /\ pushed' = Append(pushed, files[file].entries[entry])
  /\ NextEntry
  /\ UNCHANGED <<files, failures, waiting, taken, parsing, parsed, vehicles,
                 numbers, written, closed, status>>

PushDocument ==
  /\ Reading
  /\ entry <= Len(files[file].entries)
  /\ files[file].entries[entry] # Unreadable
  /\ pushed' = Append(pushed, files[file].entries[entry])
  /\ waiting' = (Len(pushed') >= HighWaterMark)
  /\ NextEntry
  /\ UNCHANGED <<files, failures, taken, parsing, parsed, vehicles, numbers,
                 written, closed, status>>

SkipEntry ==
  /\ Reading
  /\ entry <= Len(files[file].entries)
  /\ files[file].kind = "zip"
  /\ files[file].entries[entry] = Unreadable
  /\ failures' = failures + 1
  /\ NextEntry
  /\ UNCHANGED <<files, waiting, documents, numbers, written, closed,
                 status>>

FailFile ==
  /\ Reading
  /\ \/ files[file].kind = "other"
     \/ files[file].kind = "xml" /\ files[file].entries[1] = Unreadable
  /\ status' = "died"
  /\ UNCHANGED <<files, reading, documents, numbers, written, closed>>

NextFile ==
  /\ Reading
  /\ files[file].kind # "other"
  /\ entry > Len(files[file].entries)
  /\ file' = file + 1
  /\ entry' = 1
  /\ UNCHANGED <<files, failures, waiting, documents, numbers, written,
                 closed, status>>

FilesEnded == file > Len(files) /\ pushed = <<>>
-----------------------------------------------------------------------------
(***************************************************************************)
(* The pipe to XMLStream takes a document while there is room for one,     *)
(* which is also when FileStream is asked for more.                        *)
(***************************************************************************)
(* A slip the runs must notice: the wait is not woken. *)
TakeWithoutWaking ==
  /\ Converting
  /\ pushed # <<>>
  /\ Len(taken) < HighWaterMark
  /\ taken' = Append(taken, Head(pushed))
  /\ pushed' = Tail(pushed)
  /\ UNCHANGED <<files, reading, parsing, parsed, vehicles, numbers,
                 written, closed, status>>

Take ==
  /\ Converting
  /\ pushed # <<>>
  /\ Len(taken) < HighWaterMark
  /\ taken' = Append(taken, Head(pushed))
  /\ pushed' = Tail(pushed)
  /\ waiting' = FALSE
  /\ UNCHANGED <<files, file, entry, failures, parsing, parsed, vehicles,
                 numbers, written, closed, status>>

Parse ==
  /\ Converting
  /\ parsing = None /\ taken # <<>> /\ Len(parsed) < HighWaterMark
  /\ parsing' = Head(taken)
  /\ taken' = Tail(taken)
  /\ UNCHANGED <<files, reading, pushed, parsed, vehicles, numbers,
                 written, closed, status>>

Parsed ==
  /\ Converting
  /\ parsing # None
  /\ parsing.xml = "fine"
  /\ parsed' = Append(parsed, parsing)
  /\ parsing' = None
  /\ UNCHANGED <<files, reading, pushed, taken, vehicles, numbers,
                 written, closed, status>>

(* XMLStream awaits the parser in a method that nobody awaits. *)
ParseRejects ==
  /\ Converting
  /\ parsing # None
  /\ parsing.xml = "malformed"
  /\ status' = "died"
  /\ UNCHANGED <<files, reading, documents, numbers, written, closed>>

ParsingEnded == FilesEnded /\ taken = <<>> /\ parsing = None
-----------------------------------------------------------------------------
(***************************************************************************)
(* The rows of a schedule: an agency, a line of a service and a stop once, *)
(* and from each new stop the transfer at it and the walks to those it has *)
(* seen.                                                                   *)
(***************************************************************************)
(* The members of a sequence that are not in another, once. *)
NotIn(known, rows) ==
  LET new == {i \in DOMAIN rows : /\ rows[i] \notin Range(known)
                                  /\ \A j \in 1 .. i - 1 : rows[j] # rows[i]}
  IN  [k \in 1 .. Cardinality(new) |->
         rows[CHOOSE i \in new : Cardinality({j \in new : j <= i}) = k]]

New(f, rows) == NotIn(written[f], rows)

WalksAt(stop, seen) ==
  LET others == SetToSeq({s \in seen : {stop, s} \in Near})
  IN  <<<<stop, stop>>>> \o [i \in DOMAIN others |-> <<stop, others[i]>>]
                         \o [i \in DOMAIN others |-> <<others[i], stop>>]

TransferRows(stops, seen) ==
  FlattenSeq([i \in DOMAIN stops |->
                WalksAt(stops[i], seen \cup {stops[j] : j \in 1 .. i - 1})])

AgencyRows(schedule) == New("agency", schedule.operators)

RouteRows(schedule) == New("routes", schedule.lines)

StopRows(schedule) == New("stops", schedule.stops)

ScheduleRows(f, schedule) ==
  CASE f = "agency"    -> AgencyRows(schedule)
    [] f = "routes"    -> RouteRows(schedule)
    [] f = "stops"     -> StopRows(schedule)
    [] f = "transfers" ->
         TransferRows(StopRows(schedule), Range(written["stops"]))
    [] OTHER           -> <<>>

(* TransXChangeStream passes on what it can make a schedule of. *)
Extract ==
  /\ Converting
  /\ parsed # <<>>
  /\ parsed' = Tail(parsed)
  /\ IF Head(parsed).isSchedule
     THEN /\ vehicles' = vehicles \o Head(parsed).vehicles
          /\ written' = [f \in Files |-> written[f] \o ScheduleRows(f, Head(parsed))]
     ELSE UNCHANGED <<vehicles, written>>
  /\ UNCHANGED <<files, reading, pushed, taken, parsing, numbers, closed, status>>

SchedulesEnded == ParsingEnded /\ parsed = <<>>
-----------------------------------------------------------------------------
(***************************************************************************)
(* TransXChangeJourneyStream: one journey after another, and one that      *)
(* fails is skipped.  It may have numbered its calendar by then, and has   *)
(* not numbered its trip.  The loop over the journeys of a schedule never  *)
(* gives way; a step for each of them only adds places for what is before. *)
(***************************************************************************)
IsJourney(vehicle) ==
  /\ vehicle.fails # "service"
  /\ vehicle.pattern
  /\ vehicle.links # <<>>
  /\ vehicle.profile # None

Completes(vehicle) == IsJourney(vehicle) /\ vehicle.fails = "no"

(* The rows of a journey in each file: those that it shares, if they are   *)
(* new, and its own.                                                       *)
CalendarRows(service, calendar) ==
  New("calendar", <<[service |-> service, days |-> calendar.days,
                     start |-> calendar.start, end |-> calendar.end]>>)

CalendarDatesRows(service, calendar) ==
  New("dates", <<[service |-> service, rows |-> DateRows(calendar)]>>)

ShapeOf(vehicle) == <<vehicle.route, vehicle.links>>

ShapeRows(vehicle) == New("shapes", <<ShapeOf(vehicle)>>)

TripRows(vehicle, trip, service) ==
  <<[trip |-> trip, route |-> vehicle.route, service |-> service,
     shape |-> ShapeOf(vehicle)]>>

StopTimeRows(vehicle, trip) ==
  [k \in DOMAIN vehicle.stops |->
     [trip |-> trip, stop |-> vehicle.stops[k], sequence |-> k - 1]]

JourneyRows(f, vehicle, trip, service, calendar) ==
  CASE f = "calendar"   -> CalendarRows(service, calendar)
    [] f = "dates"      -> CalendarDatesRows(service, calendar)
    [] f = "shapes"     -> ShapeRows(vehicle)
    [] f = "trips"      -> TripRows(vehicle, trip, service)
    [] f = "stop_times" -> StopTimeRows(vehicle, trip)
    [] OTHER            -> <<>>

(* getCalendarHash: the calendars that say the same have one id. *)
ServiceOf(calendar) ==
  IF calendar \in Range(calendars)
  THEN CHOOSE id \in DOMAIN calendars : calendars[id] = calendar
  ELSE Len(calendars) + 1

ProcessVehicle ==
  /\ Converting
  /\ vehicles # <<>>
  /\ vehicles' = Tail(vehicles)
  /\ LET vehicle == Head(vehicles)
         calendar == GetCalendar(vehicle.profile, vehicle.period)
     IN  \/ /\ ~IsJourney(vehicle)
            /\ UNCHANGED <<numbers, written>>
         \/ /\ IsJourney(vehicle)
            /\ calendars' = IF calendar \in Range(calendars) THEN calendars
                            ELSE Append(calendars, calendar)
            /\ IF Completes(vehicle)
               THEN /\ trips' = trips + 1
                    /\ written' = [f \in Files |-> written[f] \o
                         JourneyRows(f, vehicle, trips + 1, ServiceOf(calendar),
                                     calendar)]
               ELSE UNCHANGED <<trips, written>>
  /\ UNCHANGED <<files, reading, pushed, taken, parsing, parsed, closed, status>>

JourneysEnded == SchedulesEnded /\ vehicles = <<>>
-----------------------------------------------------------------------------
(***************************************************************************)
(* Converter: a sink finishes when it has written what its stream had to   *)
(* the end; with all of them finished the feed is delivered.               *)
(***************************************************************************)
(* A slip the runs must notice: all nine streams take their end from the   *)
(* schedules.                                                              *)
FinishWithTheSchedules(f) ==
  /\ Converting
  /\ f \notin closed
  /\ SchedulesEnded
  /\ closed' = closed \cup {f}
  /\ UNCHANGED <<files, reading, documents, numbers, written, status>>

Finish(f) ==
  /\ Converting
  /\ f \notin closed
  /\ IF f \in ScheduleFiles THEN SchedulesEnded ELSE JourneysEnded
  /\ closed' = closed \cup {f}
  /\ UNCHANGED <<files, reading, documents, numbers, written, status>>

Deliver ==
  /\ Converting
  /\ closed = Files
  /\ status' = "delivered"
  /\ UNCHANGED <<files, reading, documents, numbers, written, closed>>

Next ==
  \/ PushDocument \/ SkipEntry \/ FailFile \/ NextFile
  \/ Take \/ Parse \/ Parsed \/ ParseRejects
  \/ Extract \/ ProcessVehicle
  \/ \E f \in Files : Finish(f)
  \/ Deliver

(* Node's loop runs what can run; a parse settles. *)
Spec == Init /\ [][Next]_vars /\ WF_vars(Next)
-----------------------------------------------------------------------------
(***************************************************************************)
(* The type invariant: no more documents are held between two streams than *)
(* the reader waits at, whatever the number of documents given; and a trip *)
(* is numbered once (FileStream.pushDocument).                             *)
(***************************************************************************)
TypeOK ==
  /\ file \in 1 .. Len(files) + 1
  /\ failures \in Nat
  /\ waiting \in BOOLEAN
  /\ Len(pushed) <= HighWaterMark
  /\ Len(taken) <= HighWaterMark
  /\ Len(parsed) <= HighWaterMark
  /\ waiting => pushed # <<>>
  /\ IsInjective(calendars)
  /\ \A r \in Range(written["trips"]) :
       r.trip \in 1 .. trips /\ r.service \in DOMAIN calendars
  /\ closed \subseteq Files
  /\ status \in {"converting", "delivered", "died"}

(* The members of a sequence that are in a set, in order. *)
Those(rows, S) ==
  FlattenSeq([i \in DOMAIN rows |-> IF rows[i] \in S THEN <<rows[i]>> ELSE <<>>])

(* What was given and can be used, document by document and in order, and  *)
(* the journeys that can.                                                  *)
Usable ==
  {d \in UNION {Range(files[i].entries) : i \in DOMAIN files} :
     d # Unreadable /\ d.isSchedule}

Completing ==
  {vehicle \in UNION {Range(d.vehicles) : d \in Usable} : Completes(vehicle)}

Documents ==
  FlattenSeq([i \in DOMAIN files |-> Those(files[i].entries, Usable)])

Journeys ==
  FlattenSeq([i \in DOMAIN Documents |-> Those(Documents[i].vehicles, Completing)])

RowsOfTrip(f, trip) ==
  Those(written[f], {r \in Range(written[f]) : r.trip = trip})

(***************************************************************************)
(* A feed is delivered whole or not at all: every agency, line and stop of *)
(* every usable document is in it once, every journey is a trip with its   *)
(* own line and all its calls in order, and the calendar and the shape a   *)
(* trip names are there, once.  Two stops a walk apart are connected both  *)
(* ways, once, whichever documents brought them (Converter.process).       *)
(***************************************************************************)
DeliveredWhole ==
  status = "delivered" =>
    /\ \A part \in {<<"agency", "operators">>, <<"routes", "lines">>,
                    <<"stops", "stops">>} :
         /\ IsInjective(written[part[1]])
         /\ Range(written[part[1]]) =
              UNION {Range(Documents[i][part[2]]) : i \in DOMAIN Documents}
    /\ IsInjective(written["transfers"])
    /\ Range(written["transfers"]) =
         {w \in Range(written["stops"]) \X Range(written["stops"]) :
            w[1] = w[2] \/ {w[1], w[2]} \in Near}
    /\ Len(written["trips"]) = Len(Journeys)
    /\ \A i \in DOMAIN Journeys :
         LET row == written["trips"][i]
             calls == RowsOfTrip("stop_times", row.trip)
         IN  /\ row.route = Journeys[i].route
             /\ [k \in DOMAIN calls |-> calls[k].stop] = Journeys[i].stops
             /\ \A k \in DOMAIN calls : calls[k].sequence = k - 1
             /\ \A f \in {"calendar", "dates"} :
                  Cardinality({k \in DOMAIN written[f] :
                                 written[f][k].service = row.service}) = 1
             /\ Cardinality({k \in DOMAIN written["shapes"] :
                               written["shapes"][k] = row.shape}) = 1

(***************************************************************************)
(* What is delivered runs as its documents ask, where their breaks are     *)
(* plain: a trip on the days of its own profile, though it shares the      *)
(* calendar of another document's (TransXChangeJourneyStream.getCalendar). *)
(***************************************************************************)
RunsOnItsDays ==
  status = "delivered" =>
    \A i \in DOMAIN Journeys :
      \A row, dates \in Range(written["calendar"]) \cup Range(written["dates"]) :
        LET service == written["trips"][i].service
            asked == Journeys[i]
        IN  /\ IsPlain(asked.profile, asked.period)
            /\ row.service = service /\ dates.service = service
            /\ "days" \in DOMAIN row /\ "rows" \in DOMAIN dates
            => RunsAsAsked(asked.profile, asked.period, DaysRun(row, dates.rows))

(***************************************************************************)
(* The reader that waits for room is woken, and every conversion comes to  *)
(* an end (FileStream._read).                                              *)
(***************************************************************************)
ComesToAnEnd == <>(status # "converting")

(***************************************************************************)
(* "A bad one does not take the others with it" (the comment of            *)
(* FileStream.readZip): only a file given that cannot be read ends the     *)
(* conversion.  It does not hold: a document the parser rejects does.      *)
(***************************************************************************)
BadOnesAreSkipped ==
  status = "died" =>
    \E f \in Range(files) : f.kind = "other" \/ Unreadable \in Range(f.entries)
=============================================================================
