# Verification of dtd2mysql

This directory holds TLA+ specifications of the stateful parts of the dtd2mysql
monorepo, the TLC configurations that check them on small instances, and theorems
about them checked by TLAPS. Every definition is a reading of the TypeScript
under `src/`; `PROJECT.json` maps each one to its lines.

Contents: [the system](#the-system), [the modules](#the-modules),
[the runs](#the-runs), [fairness](#fairness), [the proofs](#the-proofs),
[where the code and its documents part](#where-the-code-and-its-documents-part),
[what is not modelled](#what-is-not-modelled), [the plan](#the-plan).

## The system

The repository turns Britain's public transport data into GTFS and other forms.
Rail feeds come from an SFTP server as zips of fixed-width records, a full refresh
("F") now and then and changes ("C") in between. They are imported into MySQL, or
read into memory, and published as GTFS. Bus feeds come as TransXChange XML. Other
tools merge GTFS feeds, load them, compute transfer patterns from them and
display them.

| component | state it keeps | operations | interacts by | what makes it correct |
|---|---|---|---|---|
| Feed download and import (`libs/dtd-source`, `apps/dtd2mysql/src/cli`) | the log table (the cursor), the tables, the files downloaded | `--get-<feed>`: list, pick the files, fetch them in parallel, import one after the other, log each | SFTP, MySQL, a schedule that runs the command nightly | no feed skipped, repeated or undone by an older one; the cursor catches up |
| MySQL table import (`apps/dtd2mysql/src/database`) | a buffer per table and action, id counters | insert, update, delete, flush at a limit, close | promises against a pool, retries on deadlock | what the tables hold is what the records say, in their order |
| CIF file source (`libs/dtd-source/src/cif`) | tables in memory, memoized promises | the same records applied to memory, row streams out | the builder reads it in place of MySQL | the same rows as the database import |
| Schedule builder (`libs/gtfs/src/build`) | a cursor for each stream, the schedules built, the next id | two row streams merged into schedules, calls timed, passes placed between them | streams, `Promise.all` | every row in the schedule it belongs to, ids unique, times in order, schedules in the order the overlays need |
| Service calendars (`ScheduleCalendar.ts`) | none: values | overlap, intersect, exclude, shift | called by every transform | the dates the operation promises, over any range |
| STP overlays (`ApplyOverlays.ts`) | the records of each train, an iterator over them | apply a record to those before it | output of the builder, input of the associations | each day run by the record with the last word |
| Associations, links, late night services | the index, coupled trips, links, ids | cut the associated train's records, link them, move services after midnight | input of the feed's writers | no day lost or run twice; links join the right trips on the right days |
| GTFS feed build (`BuildFeed.ts`) | writers | open, copy, end files | streams | files complete and consistent |
| Feed delivery (`libs/gtfs-output`) | what is at the output, what is set aside | replace a directory, write a zip | the file system; called by gtfsmerge and transxchange2gtfs | a failed build never costs the feed that was there |
| gtfsmerge | maps of one feed's ids, sequences and memories of all feeds, a grid of stops | merge feeds file by file, row by row | called by its command; delivers through `libs/gtfs-output` | nothing of one feed refers to a row of another's, each trip keeps its days, walks join the feeds |
| Transfer patterns | a pool of workers, parts and shards on disk, notes of what they are | plan a shard date by date, write it, merge the shards | worker messages; files left for another job | every station planned once a date, a worker's death an error, the merge the union in order |
| transxchange2gtfs | streams and their buffers, ids of calendars and trips | read, parse, make schedules and journeys, write nine files | pipes with backpressure; delivers through `libs/gtfs-output` | everything given is in the feed, with its references and its days, and the pipeline ends |
| GTFS loader | the index of the feed | read a feed once in file order | streams | references resolved whatever the order |
| Feed explorer of the website | the page's address, feed and view; questions asked; the worker's slot | open, close, navigate, type a filter, export, check | `postMessage` between page and worker | answers reach their questions, no older view over a newer one, nothing left waiting |

The components that are only tables of fields, pages, data or SQL (record parsing, feed
schemas, website pages, station coordinates, fares clean-up, NaPTAN lookups, release
scripts) are listed in `PROJECT.json` with the reason they are left out.

The hard behaviours are: errors swallowed half way through a sequence of writes
that each commit by themselves; a cursor kept in a table that other feeds write
too; an array spliced under its own iterator; a calendar cut several times by
different rules that count days differently; a file moved by several calls of
which each may fail; buffers sent in parallel and ids given out again; workers that
may die between any two messages while others hold files open; answers that arrive
after the reader has moved on; feeds that use the same ids for their own things; and
streams that wait for one another and end at different times.
`PROJECT.json` lists them as hazards, at their lines.

## The modules

**`ServiceCalendar`** is `ScheduleCalendar.ts`. A date is a day number, day 0
a Sunday, because only the order, the successor and the day of the week of a
date matter. A calendar is a range, days of the week and excluded dates.
`Clone`, `SharedDays`, `Overlaps` (`getOverlap`), `Intersect`, `WithoutDaysOf`
(`addExcludeDays`), `ShiftForward`, `ShiftBackward` and `IsEmpty` are the methods.
`addExcludeDays` returns null for a calendar left without days; here the callers
ask `IsEmpty`, as its result is used for nothing else. No variables, no RECURSIVE.

**`Overlays`** is `applyOverlays`. `schedules` are the records read, `index` is
`schedulesByTuid`, `at` is the position of the for-of iterator inside the array,
`phase` says which loop is running. An inner iteration is one of three actions,
by the result of `applyOverlay`: `KeepBase` (no overlap), `ExcludeFromBase` (a
shorter calendar replaces the record) and `DropBase` (null: spliced out with
nothing in its place). All three advance the iterator, which is why dropping a
record passes the next one by. The records of a train arrive permanent first, then
overlays, new ones and cancellations, under the schema's unique key; those of
different trains in any order, since z-trains are all permanent and are read beside
the rest or after it.

**`CallTimes`**, **`ScheduleBuilder`** and **`BuiltSchedules`** are what comes before. `CallTimes` is
the calls of one train: `createStop`, `createClock` and `formatTime` (`StopAt`, `ClockOf`,
`RolledOver`), which of two timing points of a station stays (`TakesThePlaceOf`), and
`onPublicClock`. A time is a number of half-minutes, the working timetable's unit; the loops
that hold a pass to the one before it are written as the furthest of the places so
far. `ScheduleBuilder` is `getSchedules` of the database source and `loadSchedules`: `tables` is what
the two tables hold, `rows` what each query has yet to send, `cursors` the builder's cursors,
`built` its schedules, `outcome` the two promises. A join is a set of rows (`RowsOf`) and `ORDER BY` puts it
in order (`Ordered`): each row comes after as many as go before it by the columns of the clause (`GoesBefore`).
The streams take turns in any order (`ProcessRow`, `EndOfRows`), a row may have no time at all
(`RowThrows`), a query may fail at any point (`QueryFails`). `BuiltSchedules` has `applyOverlays` take what was
built, in that order, and says what the tables may hold (`Record`, `IsATable`, `IsOfZTrains`).

**`Associations`** is the rest of `getSchedules`: `applyAssociations`,
`Association.apply`, `resolveLinks` and `shiftLateNightServices`. One association
is taken (`TakeAssociation`, which evaluates the filter once), each matching
record is passed by or coupled (`PassBy`, `Couple`), and when all associations are done the
coupled records join the index one by one (`PushAssociated`) until none is left
(`AssociationsApplied`). Associations are taken in any
order, which includes the order of the code's grouping. A departure time is what
the late night rule tells apart: before two, repeated at the clock change, any
other hour, or past 24:00 because a copy was moved back. Which calls a train makes
is the set of places an association may name.

**`FeedCycle`** composes `DownloadCommand`, `DownloadAndProcessCommand`,
`ImportFeedCommand` and `LogTableFeedCursor` over many runs of the command. A feed
is its place in the order of publication. `logged` is the cursor, `db` what was
imported since the tables were created, `tables` and `logTable` whether they exist.
`phase`, `next`, `last` and `fetched` are the running command. Faults are actions of
their own, at the places where the code swallows an error: an unreadable log
(`StartWithoutCursor`, which also stands for a log whose last row another feed
wrote), a lost transfer, a failed extraction, a schema set-up that stops half way, a
failing record, a failing log insert, a crash. The ghost `hit` is the set of feeds
whose own import was interrupted. The rows inside a feed are one step.

**`DeliverFeed`** is `deliverFeed` and `writeZip`, process after process for one
output, each call failing, those that undo a failure included (the rename that puts the
old directory back, the removal of an unfinished archive), and the process dying between any
two. `output` and `asides` are places on disk, a place being a feed number and how many of its parts
are there. A directory is set aside, renamed (or, on `EXDEV`, copied part by part)
and the old one discarded or restored; a zip is measured, the old one unlinked,
the entries written in place. `before`, `delivered` and `torn` are ghosts;
`torn` says that what is at the output was left so by a death as it was written, or by a call that was
to undo a failure and failed itself, until the output is moved away or written anew.

**`TimetableFeed`**, **`TimetableImport`**, **`CifSource`** and **`TimetableSources`** are the two
readers of a timetable feed. `TimetableFeed` is the feed as both meet it: a refresh
and its incrementals, each a file of schedules and a file of z-trains, record by
record. A record stands for a BS line and the lines under it, its number for what
they say. `TimetableImport` is `doImport` inside: `db` the tables, `lastId` the counters
of the records that number themselves, `buffers` what `MySQLTable` holds back by
action, `inFlight` the statements `close` sends at once and the database runs in any
order (`StatementRuns`). `INSERT IGNORE`, `REPLACE` and `DELETE` are modelled by what they do
to the id and the unique key (`Taken`), and a statement (`Query`) takes its rows one by one. `CifSource` is `ScheduleLoader`: `pending` is the schedule
under construction, `kept` its two maps, which hold only what the timetable asks
for. `TimetableSources` composes the three in lock-step, with a table that takes the
records in the order they are written (`asWritten`) as the measure of both. The
schedule file and the ZTR go to tables of their own, so that reading one after the
other stands for the importer's reading them at once; their last statements still
overlap the next file.

**`WorkerPool`**, **`PatternMerge`**, **`PlanStations`** and **`TransferPatterns`** are the nightly
build of the transfer patterns. `WorkerPool` is one job: `plan` of `api.ts`, the pool
of `plan/pool.ts` and the thread of `plan/worker.ts`. The main thread and each worker
talk over two ordered channels (`posted`, `received`); `thread` is what a worker is
doing, `stream` what it has stored and not closed, `parts` what its closed files hold,
`directory` whether the work directory is there. A worker may die at any point
(`Dies`, which is both `error` and an `exit` without one), and a write may fail. The
pool goes on answering messages while it waits for the threads it has told to
terminate. `PatternMerge` is `merge`, `provenanceOf` and `kWayMerge`: it takes shards, refuses
those that are too few or that say they are of different runs, and takes one pattern of
the reader with the lowest head at a time. `PlanStations` is what a job promises: each
station handed out once a date, and in the end the whole file or an error.
`TransferPatterns` composes the job with the merge of its shard, those that other jobs
left, and files of other nights.

**`Explorer`** is the feed explorer: `boot.ts` (the page), `client.ts` and
`explorer.worker.ts`, with a reader who opens feeds and navigates, types, exports and
closes at any moment. `hash` is the address, `pane` what the view was computed from and
for, `rendering` the number that a render compares before it paints, `pending` the
questions by their ids, `timer` the debounced filter, `opening` the feeds the worker is
reading over several awaits, `slot` the one it answers from. A view is its route and
feed, not its contents.

**`MergedServices`** is the calendars of gtfsmerge: `FeedIndex`'s date filter,
`CalendarFactory.create` (a week by majority, and the exceptions that restore the dates),
and `CalendarMerger.runsAtAll`. **`MergeFeeds`** is the rest: feed after feed
(`Read`), file after file (`NextFile`, in the order `GTFSOutput.write` awaits them), row
after row. `maps` is what the merge forgets with each feed, `memory` what it keeps:
sequences, stations, codes, the grid of walks. Each row carries `of`, the row it was,
for the columns that pass through. Services are taken in the order they are in, where
the code takes those of `calendar.txt` first: only their numbers differ. The feeds
keep the rules of GTFS (`InputsAssumption`): ids are told apart within a file, what a row refers to
is there, and a transfer names two trips or none.

**`JourneyCalendars`** is `TransXChangeJourneyStream.getCalendar` and the rows made of
it. **`Convert`** is the pipeline around it: `FileStream` reads entries and waits for room,
pipes move documents, `XMLStream` parses one at a time, `TransXChangeStream` makes a
schedule of a document or nothing, the journey stream its trips, nine row streams
their rows, and a sink per file finishes when its stream has ended. The four files of
the schedules end before the five of the journeys. A document that does not parse is an
unhandled rejection (`ParseRejects`), a given file of another kind an error
(`FailFile`); both end the process.

The `MC` modules give the constants of the runs. `BuiltSchedulesProofs`, `AssociationsProofs`,
`FeedCycleProofs`, `TimetableSourcesProofs`, `TransferPatternsProofs`, `MergeFeedsProofs`,
`ConvertProofs` (with `DeliverFeed`, in which a conversion ends) and `ExplorerProofs` hold the
theorems.

`Overlays` and `Associations` extend `ServiceCalendar`. The chain of the program is
source, `ScheduleBuilder`, `Overlays`, `Associations`, feed; `BuiltSchedules` composes the second and
the third: the index `Associations` starts from is any
that the overlays may leave (`Indexes`). `FeedCycle` and `DeliverFeed` stand alone:
what they share with the others is files and tables only. The timetable modules
open up the step `FeedCycle` takes whole, and end where `Overlays` begins. `Convert`
and `MergeFeeds` end where `DeliverFeed` begins.

Definitions commented "A slip the runs must notice" are mutated forms of the
definition below them, used to check that the properties can fail.

## The runs

| run | question | result |
|---|---|---|
| `overlays` (`MCBuiltSchedules.cfg`) | tables of up to four records of a train, or two and two z-trains, over four calendars, or of one record with any of 2250 journeys; two streams in any turns, failing anywhere; then the overlays | all properties hold |
| `overlays_twice` (`OverlaysTwice.cfg`) | does at most one record of a train run each day? | no, see below |
| `associations` (`MCAssociations.cfg`) | any of six records of three trains, any of five associations, in any order, with and without overnight copies | all properties hold |
| `feed_cycle` (`FeedCycle.cfg`) | four feeds, three faults, feeds that expire | all properties hold |
| `feed_cycle_stopped` (`FeedCycleStopped.cfg`) | does a download pick up where the one before stopped? | no, see below |
| `deliver_feed` (`DeliverFeed.cfg`) | four deliveries by two process ids, any failure, any death | all properties hold |
| `timetable_sources` (`MCTimetableSources.cfg`) | a refresh and two incrementals, four records of two trains and a z-train, statements in any order | all properties hold |
| `transfer_patterns` (`MCTransferPatterns.cfg`) | five stations, two shards, two dates, two workers, one fault | all properties hold |
| `explorer` (`MCExplorer.cfg`) | two feeds opened, three other moves of the reader, any order of answers | all properties hold |
| `merge_feeds` (`MCMergeFeeds.cfg`) | two feeds with the same ids, every pair of 36 services, two or three of five networks of stops | all properties hold |
| `convert` (`MCConvert.cfg`) | up to four documents of every kind, buffers of two, every profile of 96 | all properties hold |
| `convert_bad_document` (`ConvertBadDocument.cfg`) | is a bad document of a zip skipped? | no, see below |

*overlays.* `NoDayLost`: a day on which a record has the last word is run by what is
left of it. `TwiceOnlyPastADrop`: a superseded day is left
standing only past a dropped record: the splice under the iterator is the one
cause. Four records are what it takes to
drop one, pass one by, and still cut or cancel a third; z-trains come in between, as the
streams take turns, and neither train touches the other. The calendars span a Friday to a Monday, so that
ranges cross the end of the week, and hold one that never runs. A table gives the
records in the reverse of the order they are to come in, except that two records are
given in both.

`TrainsAreBuiltWhole`: when both promises have resolved, each record that has rows is one
schedule, under an id no other has, the same as the file source builds of it alone
(`Load`); it calls once wherever its record does, in order, and its path is the
record's. `TimesRunOn`: a pass is told after what is before it and before what is after it,
unless the calls around it are themselves out of order; and where the origin publishes
a time nothing is told before the train leaves. `OverlaysGetTheirOrder` is a refinement: every step of the
composition is a step of `Overlays`, so the statements' ORDER BY and the builder deliver
only what `MayFollow` allows. So what is proved of `Overlays` holds of what
is built. A journey leaves just before midnight, after it, or just before four; its four
locations are calls, calls published at one end, calls not advertised, passes, places
without a station, placeholders and a call without a time, twice at one station, and
published up to a few minutes off their working times, before or after.

*associations.* `CutsKeepTheTimetable`: no step changes the days a train runs, or
those it runs twice. `IdsAreUnique`, `CoupledOnce`: no id handed out twice, no record
coupled twice. `CoupledDaysAreShared`: the associated trip of a published link runs
on days its base runs and the association is in force. `CopiesCloseTheGap`: a copy on
the day before appears only where the late night rule leaves a gap. The
associations include every date indicator (same, next, previous), a chain and a
cycle of trains, and a type the code ignores; the records, a Sunday on which the
clocks change.

*feed_cycle.* `OnlyFaultsLoseFeeds`: between runs, every feed from the last refresh to
the last one logged is in the database once, unless a fault interrupted it or that
refresh. `NeverGoesBack`: no feed is imported over a newer one, with the same proviso.
`CatchesUp`: the database keeps reaching the last feed, as long as a refresh is
listed and the tables stand or that refresh is still to come. Three faults allow a
crash, a fault of the run that repairs it and one of the run after; four feeds allow
a refresh with changes on either side and one feed expired before it.

*deliver_feed.* `SomethingToGoBackTo`: once a directory has been delivered, a whole
feed at least as new is at the output or beside it. `RejectedLeavesTheOutput`: a
failed delivery leaves the output as it was, or with the whole new feed. Less than that is
excepted by name: a zip may be gone, or in part there if it could not be removed; of a directory there may be
part of a copy across filesystems, or nothing if putting the old one back failed, and then what was
found lies untouched where it was set aside. `PartsOnlyWhereTorn`: part of a feed at the output is being
written; or is a zip whose writer died or could not remove it; or a directory that was being copied
across filesystems. `NeverGoesBack`: a reader never sees an older feed after a newer one.
Three parts are a first, a middle and a last one; two pids, one that meets its own
leftover and one that meets another's.

*timetable_sources.* `ImportedInOrder`: a key that no feed both deletes and gives a row has
the row the records left it, whatever the order of the statements.
`NothingDroppedForItsId`: a schedule has all its calls and no other's, though ids are
given out again; this failed in the code once (`docs/restructure.md`, B22), and the
mutant is that code. `SameTrains`: both readers give the same trains, with the
exceptions its statement names. `SameOrder`: and in the same order, though they number
them differently. A limit of two makes a buffer fill before its file ends; four
records over three feeds are what a schedule takes to be inserted, another to be
withdrawn, and a third to be given its id; one record may lie out of the window. The
two trains are interchangeable and the properties are invariants, so symmetry is
sound.

*transfer_patterns.* `PlansTheShard` is the refinement: under the mapping `Planner` of `WorkerPool`
(jobs taken, outcome, file), the pool implements `PlanStations`, liveness included, so a
plan never hangs, whoever dies. `NoFileTakenAway`: the work directory is not removed
under a thread that holds a file in it open. `MergeIsTheUnion`: the merge writes each
pattern once, in order, and succeeds only with all of them. `MergedIsTonight`: shards
of one run, each given once, give the patterns of the whole feed, so the
strides of `shard` leave no station out. Were a reader whose input failed taken for one at its
end, where `ReadFails` has the merge fail, neither would hold. Three stations for two workers make one of
them ask again and one be told that nothing is left while the other works; neighbours
share a pattern, so heads are equal in two shards; the files include last night's and
one without a note. One fault is enough for a death at any point; a second death
meets a pool that is stopping already.

*explorer.* `NewestIsOnItsWay`: a view of another route or feed than the page names
is about to be replaced. `AnswersAreMatched`: each question is on its way or its answer
is, once, under its id, though opens are answered in between. `ComesToRest`: once the
reader stops, no question, timer or spinner is left and the page names the feed the
worker answers from. Two opens let one overtake the other; three moves let a filter
run after the reader has left the file; one feed lacks a file, so that answers
fail.

*merge_feeds.* `TripsAreTheirOwn`: a merged trip has its own route, calls, frequencies,
shape and couplings, and shares a block or a shape with just those it shared it with in
its feed. `DaysAreKept`: from the filter date on each trip runs the days it did.
`WalksBetweenPlaces`: two places within reach are connected, whichever feed brought them
and whichever cell of the grid they are in, and not twice, unless a feed brings both
of two stops that feeds before it had brought, and a transfer of its own between them.
Two feeds never do that and three may, so both are merged. The feeds use
the same ids for their own rows; a week has two days and the filter cuts
through every calendar; the places lie in one cell, in neighbouring cells and
beyond reach, and one of them nowhere.

*convert.* `TypeOK` bounds every queue by the high-water mark. `ComesToAnEnd`: the
reader that waits is woken. `DeliveredWhole`: a delivered feed has every agency, line, stop, trip
and call of every usable document, and what they refer to, once. `RunsOnItsDays`: a trip
runs on the days its profile asks for where its breaks lie in the period, apart from each
other. Four documents fill two queues of two; 96 profiles cover breaks at both ends,
inside, too long, covering all or outside, with holidays on and off, against weeks of
three days.

## Fairness

`FeedCycle` assumes `WF_vars(Start)`, since the command is rerun on a schedule (the
README calls it nightly, and comments in the code speak of a scheduled job), and
`WF_vars(Step)`, since a command that has started goes on. Nothing obliges the server
to publish or a fault to happen. `WorkerPool` assumes that each thread goes on while
it lives, that the event loop handles each worker's messages and deaths, and that
`plan` goes on after an await; nothing obliges a worker to die or a write to fail.
`Explorer` assumes that the page handles its events and timers, that the worker takes
its messages, and that a feed being read is read or fails: node and browsers serve
their queues. The reader is under no fairness. `Convert` and `MergeFeeds` are one process
each: `WF_vars(Next)`. `DeliverFeed`, `Overlays`, `Associations` and `TimetableSources` state
safety only. Runs whose system stops for good (a bounded number of builds, a merge
that has ended, a reader who has gone) do not check for deadlock.

## The proofs

Of `ServiceCalendar` it is proved, in `AssociationsProofs`, for all calendars over all
integers that each operation yields the dates it promises: `SharedDaysAreCommonDays`,
`OverlapsMeansCommonDay` (the shortcut on week masks is sound),
`IntersectRunsCommonDays`, `WithoutDaysRunsTheRest`, `ShiftForwardMovesDays`,
`ShiftBackwardMovesDays` and `ShiftsAreInverse`.

`BuiltSchedulesProofs` begins with the overlays alone: for any trains, any set of calendars and any
number of records, `TypeInvariant`, `NoDayIsLost` and `TwiceMeansADrop`. Assumed: the calendars are
calendars (`CalendarsAssumption`) and the bound on records a natural number
(`MaxSchedulesAssumption`). For the second the inductive invariant is
`TypeOK` and `NoDayLost`. `NoDayLost` is inductive without the position of the iterator, which is
the point: an inner iteration only takes from a record days the current one runs
(`OnlyItsDaysAreLost`, resting on `WithoutDaysIs`), and on those days the older
record does not have the last word. Where the iterator stands decides which days
are left twice, not which are lost. `RemoveAtProperties` says what the splice does.

For `TwiceMeansADrop` the iterator counts. The invariant adds that what is kept of a train is
in the order it was read (`KeptInOrder`), that it was read and published (`KeptWasPublished`), and
`SupersededDays`: inside the loop a superseded day may also be one the iterator has yet to
come to. A turn of the loop takes the days from the record under the iterator or drops
that record; if it drops it, the record that is passed by comes after the one dropped, and so
do all behind it (`TurnSupersedes`).

It goes on with the builder in front of them. The theorems on the overlays take the order of the records
as given; `BuiltInTheirOrder` gives it: with the builder in front, for any tables, any
turns of the two streams and any failures, each step of `AllSpec` is a step of `Overlays` or a stutter, so what was
proved of the overlays holds of what the builder makes (`BuiltOverlaysAreSafe`). The argument
has three layers.

- *The rows of a query have an order.* `GoesBefore` is a strict order that any two rows of a table stand in,
  so that `CHOOSE` in `Ordered` has exactly one row to choose for each place, and the rows of a
  record are next to each other, in the order of its locations, at a place that follows from the
  sizes of the records before it (`Offset`, `Ends`).
- *A stream is where it is.* The invariant of one stream (`IsReading`) says that what is left of its rows
  is a tail of the ordered rows and that its cursor is the cursor of the record in hand alone, after as
  many of its rows as have come: what other records went before has left no trace in it. Each row keeps it, the one
  that begins a record included. Nothing in it mentions the other stream.
- *The list is in order.* What is built (`BuilderInv`, `Making`) is one schedule of each record that each stream
  has passed, in the order it passed them; what the two put in between each other is of other
  trains, since no train UID is in both tables. Records of one train therefore come by rank and
  then by id, no two with one indicator and one first day, and there are no more than `MaxSchedules`: which is all that
  `NextSchedule` of `Overlays` asks. What the overlays have taken mirrors what was built (`Mirrors`).

`TrainsAreWhole` is the same for `TrainsAreBuiltWhole`: each record becomes one schedule, under its own
id, the one `load` would build of it alone; and it serves its places. The second part is an
induction over the rows of one record, with `Serves` as what holds of the cursor after so many: a row
that is of the place before it changes that place and no other, one that is not adds a place
(`OnePlaceMore`). `PassesInTheirPlaces` proves `PassesRunOn`, the first half of `TimesRunOn`, for any stops
and any times: between two calls a pass is the furthest of the places so far, held between the calls by
`Clamp`, which is monotone, so neighbours stay in order; before the first call and after the last the same holds on
one side. It needs the calls to be in order where a pass stands between them, as the property says.

`TimesRunFromTheOrigin` proves the whole of `TimesRunOn`, for any tables and turns, under the hypothesis
`TrainsRunWithinADay`. The code does not check what it says: it is what `formatTime` takes for granted of the feed,
that the times of an hour before the origin's, and no others, are of the next day, so it is stated of the
records and not of the program. Counted from the time the origin publishes, every call that may be told is told before the
hour the train left in comes round again, or before the day is out if it left before four; what the
origin's timing points tell is no later than what the other calls tell; and the origin is a call.
It speaks of calls only: a pass may have any working time at all. `MCBuiltSchedules` has TLC evaluate it
on the journeys of the run, 900 of which have an origin that publishes a time. The argument:

- *Every row has a time.* A row that is to be a stop and has none makes its stream fail, and it is then
  the last row of it (`AllFit`). Where both streams came to their end, every stop therefore has one.
- *A stop is told what its place says.* An induction over the rows of one record (`CursorTakesTheirTimes`):
  each stop has the times of a timing point of its place, the one that boards or the first that is not passed,
  formatted by the hour of the record's first row (`TakenFrom`, `HourIsKept`).
- *The clock rolls over where the day does* (`RolledOverIs`): under the hypothesis `formatTime` adds a day to
  exactly the times that are before the one the train left at, so what calls are told is in order with the origin.
- *The first stop is a call* (`FirstOfTheCalls`, `CallsAfterTheOrigin`), and a pass is told no earlier than the call
  behind it (`PassAfterTheCallBehind`), whatever `onPublicClock` makes of its working time.

Assumed is `TimetablesAssumption`: a table is finite and keeps its primary and its unique key
(`MCA.ts:51-53`, `ZTR.ts:6-9`); z-trains are all permanent and share no train UID with the
passenger schedules (`docs/restructure.md:1024` and `2029-2030`); a location that is passed has no activity of
boarding (the comment in `createStop`); and there are no more records than `MaxSchedules`, which only
bounds `Overlays`. TLC evaluates it on the instance of the run.

`AssociationsProofs` proves, for any trains, any set of calendars, any associations and any
index the overlays may leave: the types; that no id is given to two records
(`NoIdTwice`), no schedule coupled twice (`NoneCoupledTwice`), each day a coupled trip
runs a day its base runs and an association couples them (`LinkedTripsRunTogether`), that a
copy closes the gap between the service days of the two trains (`CopiesRunWithTheirBase`); and that every step keeps the
days of every train (`TheTimetableIsKept`). The last is the cut itself: the coupled days and the
rest are apart and make up the record, and the copy repeats what was there. The
others are about links, and a link says what held when it was made, of records later
associations go on cutting. That it stays true needs three facts the code never states.
A record keeps its place in one array, and two places hold two ids (`UnderTheirTuid`, `Apart`), all
below the next one (`BelowNext`): so what carries the id of a link is the record the link
was made for, or is not there. A coupled record waits outside the index while
associations are applied (`LinksHold`, `NothingCopied`), so that no association cuts it and none couples it
again (`EndsApart`). And a base may lose its days to a later cut, which takes it out of
the index or gives what remains a new id, but never moves it under the same one (`BasesStay`).
Assumed are `FirstIdAssumption`, `AssociationsAssumption` and `IndexesAssumption`: what the parser and the
overlays give.

`FeedCycleProofs` proves for any number of feeds and faults, timetable or none: the types,
`TheLogIsRight` (`OnlyFaultsLoseFeeds`) and `NothingIsUndone` (`NeverGoesBack`). What is promised
between two runs has to be carried through every line of one. A run begins at the
last refresh or behind the last feed logged, and no refresh lies behind the feed it is
at (`Bounds`); whatever it passed without logging was interrupted (`UpToNext`); what is
in the database and not in the log is the feed being logged, or was interrupted
(`Unlogged`); and a feed is taken up only if it is not there yet (`Taken`). While the records of a
refresh replace the database none of this holds, so the promises are suspended there
(`MidRefresh`, `Cleared`), and a fault that strikes then excuses all that follows until the
next refresh (`Excused`).

`TimetableSourcesProofs` proves, for any trains, any number of feeds and records, any limit on the
buffers and any order of the statements of the pool, the types (`TypeCorrectness`) and the four
properties that the run checks: `ImportKeepsTheOrder`, `NothingIsDropped`, `BothGiveTheSameTrains`
and `BothGiveOneOrder`. All of them speak of the moment after a feed, when nothing waits. Before
that the database is behind the records, by as much as the buffers hold and the
pool has not run, and that is what the invariant (`IInv`) accounts for, table by table.

- *What is to come of a key is what was written of it* (`KeysAreRight`). Of a key which the feed in hand
  deleted, nothing is there or a deletion waits; of one it revised, the last revision that
  waits is the row as written, or that row is there; of one it only inserted, the first insert that
  waits counts, and only if nothing is there. Any statement may run next, as the ones sent with
  it have nothing to say of the key, or the same (`RunKeepsKeys`). A key both
  deleted and given a row is where this fails, and is passed over (`clashed`).
- *An id is new when it is given* (`IdsAreFresh`). The rows held and those waiting have ids of their own,
  at most the counter, in the order the records were read. So no row is ignored for its id,
  and the order of the ids is that of the records, in the database as in the
  files: `SameOrder`. A stop is of a schedule the counter has passed, and of the row that has its id
  (`StopsAreTheirs`). When the next feed restores the counters they may go down, to the largest id there
  is. That this is safe needs that no stop is left of a schedule above it: `removeOrphanStopTimes` comes
  before (`NoOrphans`).
- *The file source holds what is wanted of the rows as written* (`SourceIsRight`), of the keys
  not shadowed, the schedule under construction counted as held if it yields anything
  (`Stored`). With the first point the two readers then give the same.

TLC checked `IInv` on the instance of the run before it was proved. `Query` is a recursive function of
the batch, so that what a statement does is an induction over its rows (`QueryLeaves`). Assumed are
`FeedAssumption` and `FlushAssumption`, that the bounds are numbers and the limit is not zero.

`ConvertProofs` proves of `DeliverFeed` its types (`DeliveryTypes`) and its four safety properties,
for any number of parts above one, any process ids and any number of deliveries.
None but the types is inductive by itself. `DeliverInv` adds what the code knows at each
of its lines and never asks: what is at the output (`AtTheOutput`: untouched before the
first call, nothing when the move begins, whole when the old one is
discarded), what is beside it (`BesideTheOutput`: the old output, while there is
something to restore), and that within one filesystem a directory is there whole
or not at all (`WholeOrNothing`). `BesideTheOutput` is why a directory that cannot be put back is still
there under its other name.

The merge of the shards, in `TransferPatternsProofs`, is `TheMergeIsTheUnion`, for any number of shards of any length,
assuming that each shard is increasing (`ShardsAssumption`: `TransferPatternMerge`, a
dependency, sorts them). The invariant says of every reader that what lies before it
has been written (`PassedIsWritten`), that nothing it has yet to give is less than
what was written last (`NotBehind`), that what was written was read (`WrittenWasRead`), and
that the merge ends with every reader at its end (`ReadToTheEnd`).

The same module proves, for any numbers of stations, shards, dates, workers and
faults and any patterns: `TypeInvariant`, `NoFileIsTakenAway`, `ThePoolPlans` (every step of the
pool is a step of `PlanStations` or shows nothing of it: the refinement without its
fairness), `TheBuildMergesTheUnion` and `TonightIsWhole`. The invariant behind them is what the
pool never writes down: what a worker is doing and what is on the way to and from it
determine each other (`Protocol`), so a worker that has finished was told that nothing is
left; every station that was handed out is held by a worker or in its file, unless a
worker has died (`SomeoneHas`); the parts of the dates before are complete (`DatesBefore`),
nothing is in them that no job gave (`NothingInvented`), and the jobs taken are those of
the dates before and the stations no longer waiting (`TakenInOrder`).

`MergeFeedsProofs` proves of the calendars, for weeks of any length, any dates and any
filter, that `CalendarFactory.create` runs exactly the dates it is given
(`CreateRunsTheDates`), that the service written runs from the filter date on the days
the service read did (`WrittenKeepsTheDays`), and that just those without a day are left
out (`LeftOutRunsNever`); and of the merge, for any number of feeds and rows, any plane of
stops and any distance, the types and the three properties its run checks
(`TripsStayApart`, `TripsRunOnTheirDays`, `PlacesAreConnectedOnce`). All four say what is in the files at
the end; the invariant says what each row that is written owes to a row that was read, and
comes in layers. The rows of the feed in hand are taken in order and each is a row of
that feed (`Orderly`). Every trip written was made of one trip of one feed (`Made`), with its
route and a service that runs on its days; the maps of the feed in hand know just its own;
and a trip that has been taken was made or has a reason to be missing (`TripsHold`): the block
and the shape of a trip are numbered so that two numbers are alike just when the feed and
the name are (`PartsMapped`), which is what emptying the maps between feeds is for. A call, a frequency,
a point or a coupling written is a row of the feed its trip was made of, and none of those
taken is missing (`RowsHold`). Every stop a feed so far has published is held; any two
places within reach are joined, by a walk or by a transfer that was there
(`PlacesConnect`); and a transfer for no trips is accounted for by a pair of stops its feed brought or
by the two places it is a walk between (`TransfersAreKnown`), so that a second one
needs a feed that brings both stops again (`OnceOrAgain`). That a walk is found needs
arithmetic: places closer than the distance are in one cell of the grid or in two that touch
(`CloserIsNear`). Assumed are `NoneAssumption`, `LocatedAssumption` and `InputsAssumption`.

`ConvertProofs` proves that a break inside the period takes
exactly its days, be it at the start, at the end or between (`ABreakTakesItsDays`), that a break
wholly before the start of the calendar adds days (`ABreakBeforeAddsDays`), see below, and that all
the breaks and holidays together leave what the profile asks for where the breaks are plain
(`CalendarsRunAsAsked`, by induction over the breaks taken). Of the conversion it proves,
for any files, documents, buffers and bank holidays, the types (`TypeCorrectness`), that what is
delivered is whole (`NothingIsLost`) and that each trip runs on its own days
(`TripsRunOnTheirDays`). Both speak of the end, and nothing in the code compares the end with
what was given; the invariant (`InductiveInvariant`) follows the documents through the five
queues they pass. What has been read is the documents extracted, then those on the
way, in the order given (`Extracted`); the journeys of those extracted are the ones made
trips, then the ones queued (`Converted`); the files of the schedules hold what the documents
extracted brought, once, and all the transfers between the stops there are
(`SchedulesWritten`); and the files of the journeys hold a trip for each one converted, its
calls, and its calendar, dates and shape, once (`TripsKept`). That a file is finished only when the
streams before its own have nothing more to come (`Ended`) then makes of it, at
delivery, the whole. Assumed are `JourneyCalendarAssumption`, `HighWaterMarkAssumption`
and `InputsAssumption`, which says that lists are lists and holidays have dates.

`ExplorerProofs` proves, for any number of feeds and moves, any files, any filters and
any files that are lacking, the types (`TypeCorrectness`), that every answer meets its question
(`AnswersMatch`) and that the newest view is on its way wherever it is not shown
(`NewestIsComing`). A question and what comes of it pass through two queues, and the
feed in the slot may change in between, so the invariant (`InductiveInvariant`) is about the
queues. A question that waits has one message that will end it, the question itself or the
`done` or `failed` sent for it (`CarriedBy`); what is found is sent before that message
(`InOrderOf`) and about the route asked for (`RoutedIn`). An answer in the queue is of the
feed last announced before it, or of the feed the page names when none is, because
the slot is taken and the page told in one step (`ToldBy`): the page never paints a feed it has not heard
of. With these, what the newest rendering waits for is of the address, unless the page has yet to hear
that it changed, and the results kept for it are of the feed the page names (`Newest`), so that
whatever it paints is right when it comes. The invariant was checked by TLC on the instance of the
run before it was proved. Assumed are `NoneAssumption` and `BoundsAssumption`. That what is on its way
comes is `ComesToRest`, a liveness property, and stays with TLC.

Only model-checked are the liveness properties, since liveness under fairness is out of the prover's reach:
`CatchesUp`, `ComesToRest`, `ComesToAnEnd`, and that the shard of `PlansTheShard` is planned in the end (that every
step of it is one of `WorkerPool` is proved). Every invariant and every action property of a
passing run is stated by a theorem.

## Where the code and its documents part

1. **Overlays left running twice** (`overlays_twice`). Dropping a wholly covered record
   splices the array under the for-of iterator, so the next record is never offered
   the overlay or the cancellation (`ApplyOverlays.ts:13-19`), although the comment
   on line 14 promises to remove the schedule. `docs/restructure.md:1024-1027` counts
   537 overlapping pairs among the z-trains.
2. **A failed feed is passed** (`feed_cycle_stopped`). `FeedCursor.ts:2-3` says a download
   picks up where the previous one stopped. A feed whose transfer or import fails is
   printed, the loop goes on, the next feed is logged, and the one that failed is not
   tried again until a refresh.
3. **A bad document ends the conversion** (`convert_bad_document`). `FileStream.ts:71-76`
   says that a bad entry of a zip does not take the others with it, and its loop keeps
   to that; but a document is parsed behind the pipe, in `XMLStream._transform`, which
   awaits the parser where nobody awaits it, so that one that is not well formed is an
   unhandled rejection.

Seven more were found by TLC. Their properties are stated in the modules and are not
listed as runs:

- `NothingBeforeAnyOrigin` (`ScheduleBuilder`): an origin that publishes no time, because it is passed
  or not advertised, is taken to leave at four (`ScheduleBuilder.ts:178-180`). A train that passes its origin
  at 03:58 is then told to pass at 27:58 and to call at 04:01, a day before. `TimesRunOn`
  asks it of origins that publish a time.
- `CoupledWheneverAllThreeRun` (`Associations`): only the first record of the base that
  overlaps is tried (`ApplyAssociations.ts:40`), so a base retimed by an overlay leaves
  the associated train running uncoupled on the other record's days, against
  `docs/restructure.md:1900-1902`.
- `CatchesUpOnItsOwn` (`FeedCycle`): `removeOrphanStopTimes` runs on every import
  (`ImportFeedCommand.ts:67`) and needs the timetable's tables; in the README's own
  example of a fares database it throws before the feed is logged.
- `SameResultAsImporting` (`TimetableSources`): the file source imitates `INSERT IGNORE` by
  asking whether it holds the key (`CifFileSource.ts:405`), but it does not hold a record
  that is out of the window or yields no rows. When a later feed issues the train again,
  as every ZTR does, the database keeps the first record and the files give the second.
- `OperatorIsItsOwn` (`TimetableSources`): `removeOrphanStopTimes` has no statement for
  `z_schedule_extra` (`ImportFeedCommand.ts:141`), so the operator of a z-train that was
  ignored stays under an id that the next feed gives to another.
- `LeavingTheFileEndsIt` (`Explorer`): the comment of `restoreTyping` says that leaving the
  file ends a filter (`boot.ts:580`); going from one file straight to another does not,
  when both have the column, and a timer still running applies the filter to the
  second (`boot.ts:431-449`).
- `TransfersAreKept` (`MergeFeeds`): `published` is said to be every stop the merged feed
  will contain (`StopsAndTransfersMerger.ts:58`); it is every stop of the feed in hand, so
  a transfer to a stop that another feed publishes is dropped.

Also seen, and built into the models:

- A cursor that cannot be read counts as empty. If the refresh that follows then
  fails while it creates the tables, tables are missing and the log still names a
  later feed: changes fail until the next refresh is published. `CatchesUp` names this
  case in its premise. While tables are missing `db` is not tracked.
- `deliverFeed` says nothing at the output is touched until the feed exists
  (`DeliverFeed.ts:27`); on the zip path the old archive is unlinked before the first
  byte is written, so a failing write leaves neither.
- A copy across filesystems that fails half way leaves its part in the way, and the
  restore fails too. The old feed stays beside the output.
- The calls that undo a failure may fail for a reason of their own (`DeliverFeed.ts:53`,
  `WriteZip.ts:164`), a filesystem gone read-only for one. The output then is nothing, with the old directory
  beside it, or part of an archive, with nothing beside it; what is thrown is the second error.
- A key that one feed both deletes and inserts or revises ends as the database happens
  to run the statements, since `close` sends them together (`clashed`).
- The two sources number the schedules differently once a row with the largest id is
  gone (`MAX(id)` against a running count), although `CifFileSource.ts:278-282` counts as
  the importer does; `route_id` is that number. The order is the same.
- `stop_time`'s unique key has columns that may be null, and MySQL lets rows with a null
  repeat; the file source drops the second. No call repeats so in CIF, where a second
  visit has a suffix, and the models have none.
- An aside left by a process that died makes later deliveries under the same pid
  fail, until somebody removes it.
- The merge of transfer patterns asks how many shards there are and whether their notes
  agree on the dates and the feed, not whether they are different shards, and takes a
  shard without a note (`api.ts:241-276`). `MergedIsTonight` says so in its premise.
- Two feeds opened one after the other: the one whose reading ends last takes the slot
  and the page, whichever was asked for last. An answer asked of the first feed may be
  painted after the second was asked for and the pane cleared, until that one opens.
- A code that two platforms carry is cleared from them if their station was not known
  when the first was met: `codes` holds the stations as known so far
  (`StopsAndTransfersMerger.ts:138`). Transfers are not deduplicated across feeds: one that a
  third feed has between two stops the first two brought repeats their walk. A
  coupling at a pair of stops counts as their transfer (`:110`), and a transfer that named only the trip it is
  to would keep that id as it was (`:95-106`).
- A break wholly before or after the operating period moves its start or end outwards,
  and overlapping breaks may put back days that an earlier one took
  (`TransXChangeJourneyStream.ts:131-139`); breaks of 92 days or more inside the period are ignored.
  Days of operation that are no bank holidays are read and never used. `RunsOnItsDays`
  asks of breaks that are apart and inside the period.
- `FileStream.failures` is counted "so a run that quietly skipped half its input can
  say so" (`FileStream.ts:22-26`) and never read.

## What is not modelled

Formatting (GTFS rows, trip id suffixes, file names), the SQL of the database source but for the
order and the joins of its two schedule queries, the zip format, XML and fixed-width parsing, HTTP, pages. In `TimetableImport` no
statement fails and a failed file leaves nothing to the next import; the tables of
stations, links, locations and associations, which take inserts, replacements and
deletions but number nothing else, are left out of both readers. In `Associations`,
`excludeServices` and `transfers.txt` are left out, and the rule that two associations
with one key collapse. Of gtfsmerge, agencies, attributions and `feed_info.txt`, which pass
through; of transxchange2gtfs, the times of calls, coordinates and names, and the
look-ups in NaPTAN and the bank holidays, which are read before the streams start; of the explorer, what a
view says (details, checks, boards, maps) and its indexes, which are computed in one
turn of the worker from a feed that does not change. Third-party code (the planner
behind transfer patterns, `ssh2`, `mysql2`, node's streams) is met only through its
promises.

Whole components are left out where there is no state to go wrong: the GTFS loader (one
reader, one pass), the feed's contents (rows to rows), the feed build (writers that share
nothing), the website's pages, the declarations of records and schemas, NaPTAN and
station groups, the fares clean-up (SQL), the release scripts, and the
generated table of station coordinates, which alone is a third of the repository's lines.

## The plan

What would come next:

1. `TimetableImport` with statements that fail: retries on deadlock, statements still
   running when their file has failed, buffers that outlive an import and carry ids
   the next import gives out again.
2. The trip ids of `mergeSchedules` and `excludeServices`, in `Associations`.
3. The times of trains that run longer than a day, and what still holds of them.
   The type invariants of `Associations`, `FeedCycle` and `Explorer` are not listed as runs;
   all three are proved.
