---------------------------- MODULE Explorer ----------------------------
(***************************************************************************)
(* The feed explorer of the website: the page (ui/boot.ts), its end of the *)
(* channel (worker/client.ts) and the worker that holds the feed           *)
(* (worker/explorer.worker.ts), with a reader who opens feeds, moves about *)
(* and types into a filter at any moment.                                  *)
(*                                                                         *)
(* A feed is the number of the request to open it.  The worker reads a     *)
(* feed over several awaits and answers questions in between; it answers a *)
(* question at once, from the feed that is then in its slot.  Messages     *)
(* keep their order, either way.  What a view says is the feed it was      *)
(* computed from and the route it was computed for.                        *)
(*                                                                         *)
(* The views are those that differ in how they are rendered: the overview  *)
(* is painted at once, a file and the many details like it are asked for,  *)
(* the checks are painted as they run.  A filter is one column that every  *)
(* file has (trip_id, stop_id), and what is typed there.                   *)
(***************************************************************************)
EXTENDS Naturals, FiniteSets, Sequences

CONSTANTS
  FileNames,      \* the files of the feeds
  Typing,         \* what a reader types into a filter
  None,           \* nothing: no feed, no filter, no timer
  Lacking,        \* the files that a feed does not have: <<feed, file>>
  MaxOpens,       \* bound: feeds opened
  MaxMoves        \* bound: what else the reader does

ASSUME BoundsAssumption == MaxOpens \in Nat /\ MaxMoves \in Nat

ASSUME NoneAssumption == None \notin Typing /\ None \notin Nat

Feeds == 1 .. MaxOpens

Overview == [view |-> "overview", file |-> None, filter |-> None]

Checks == [view |-> "checks", file |-> None, filter |-> None]

FileView(file, filter) == [view |-> "file", file |-> file, filter |-> filter]

Routes ==
  {Overview, Checks} \cup
  {FileView(file, filter) : file \in FileNames, filter \in Typing \cup {None}}

VARIABLES
  hash,           \* where the address bar says the reader is
  hashChanged,    \* whether the page has yet to hear that it changed
  manifest,       \* the feed the page names
  rendering,      \* the number of the newest rendering
  shown,          \* which of "open", "loading" and "app" are not hidden
  pane,           \* what the view holds
  typed,          \* the filter being typed into, with the file it is in
  timer,          \* what the debounced input will put in the address
  pending,        \* the questions asked and not answered, by their id
  results,        \* results received before the word that they are done
  nextId,         \* the id of the next question
  requests,       \* the messages on their way to the worker ...
  responses,      \* ... and those on their way back
  opening,        \* the feeds the worker is reading
  slot,           \* the feed it answers from
  opens, moves    \* what the reader has done

page == <<hash, hashChanged, manifest, rendering, shown, pane, typed, timer>>
client == <<pending, results, nextId>>
channel == <<requests, responses>>
worker == <<opening, slot>>
reader == <<opens, moves>>
vars == <<page, client, channel, worker, reader>>

Pane(kind, feed, route, box) ==
  [kind |-> kind, feed |-> feed, route |-> route, box |-> box]

Empty == Pane("empty", None, Overview, None)

Failure == Pane("failure", None, Overview, None)

Init ==
  /\ hash = Overview
  /\ hashChanged = FALSE
  /\ manifest = None
  /\ rendering = 0
  /\ shown = {"open"}
  /\ pane = Empty
  /\ typed = None
  /\ timer = None
  /\ pending = {}
  /\ results = {}
  /\ nextId = 1
  /\ requests = <<>>
  /\ responses = <<>>
  /\ opening = {}
  /\ slot = None
  /\ opens = 0
  /\ moves = 0
-----------------------------------------------------------------------------
(***************************************************************************)
(* client.ts: a question has an id, and waits under it for its answer.     *)
(***************************************************************************)
(* A slip the runs must notice: every question under one id. *)
AskUnderOneId(kind, route, number) ==
  /\ pending' = pending \cup
       {[id |-> nextId, kind |-> kind, route |-> route, rendering |-> number]}
  /\ requests' = Append(requests,
                        [type |-> kind, id |-> nextId, route |-> route])
  /\ UNCHANGED nextId

Ask(kind, route, number) ==
  /\ pending' = pending \cup
       {[id |-> nextId, kind |-> kind, route |-> route, rendering |-> number]}
  /\ nextId' = nextId + 1
  /\ requests' = Append(requests,
                        [type |-> kind, id |-> nextId, route |-> route])

AsksNothing == UNCHANGED <<pending, nextId, requests>>
-----------------------------------------------------------------------------
(***************************************************************************)
(* render: what the address says, of the feed that is open.  The newest    *)
(* rendering alone may paint.                                              *)
(***************************************************************************)
Box(route) == IF typed = None THEN route.filter ELSE typed.value

(* Back into the filter that was being typed into, if the view has one. *)
RestoreTyping(route) ==
  IF route.view = "file" THEN UNCHANGED typed ELSE typed' = None

Paint(feed, route) ==
  /\ pane' = Pane("view", feed, route,
                  IF route.view = "file" THEN Box(route) ELSE None)
  /\ RestoreTyping(route)

Render(feed) ==
  IF feed = None
  THEN UNCHANGED <<rendering, pane, typed>> /\ AsksNothing
  ELSE /\ rendering' = rendering + 1
       /\ \/ /\ hash.view = "overview"
             /\ Paint(feed, hash)
             /\ AsksNothing
          \/ /\ hash.view = "file"
             /\ Ask("query", hash, rendering + 1)
             /\ UNCHANGED <<pane, typed>>
          \/ /\ hash.view = "checks"
             /\ pane' = Pane("checking", feed, hash, None)
             /\ Ask("checks", hash, rendering + 1)
             /\ UNCHANGED typed
-----------------------------------------------------------------------------
(***************************************************************************)
(* The reader.                                                             *)
(***************************************************************************)
Moves == moves < MaxMoves /\ moves' = moves + 1

(* openFeed: from the landing page, or by dropping a zip at any time. *)
OpenFeed ==
  /\ opens < MaxOpens
  /\ opens' = opens + 1
  /\ shown' = {"loading"}
  /\ pane' = Empty
  /\ manifest' = None
  /\ requests' = Append(requests, [type |-> "open", feed |-> opens + 1])
  /\ UNCHANGED <<hash, hashChanged, rendering, typed, timer, client, responses,
                 worker, moves>>

GoTo(route) ==
  /\ hash' = route
  /\ hashChanged' = (hashChanged \/ route # hash)

CloseFeed ==
  /\ "app" \in shown
  /\ Moves
  /\ shown' = {"open"} \cup (shown \ {"app", "loading"})
  /\ manifest' = None
  /\ GoTo(Overview)
  /\ UNCHANGED <<rendering, pane, typed, timer, client, channel, worker, opens>>

Navigate(route) ==
  /\ Moves
  /\ route # hash
  /\ GoTo(route)
  /\ UNCHANGED <<manifest, rendering, shown, pane, typed, timer, client,
                 channel, worker, opens>>

Type(value) ==
  /\ Moves
  /\ "app" \in shown
  /\ pane.kind = "view" /\ pane.route.view = "file"
  /\ typed' = [file |-> pane.route.file, value |-> value]
  /\ timer' = [value |-> value]
  /\ pane' = [pane EXCEPT !.box = value]
  /\ UNCHANGED <<hash, hashChanged, manifest, rendering, shown, client, channel,
                 worker, opens>>

(* save: what the address says, to take away. *)
Export ==
  /\ Moves
  /\ "app" \in shown
  /\ pane.kind = "view" /\ pane.route.view = "file"
  /\ hash.view = "file"
  /\ Ask("export", hash, 0)
  /\ UNCHANGED <<page, results, responses, worker, opens>>
-----------------------------------------------------------------------------
(***************************************************************************)
(* The page's own events.                                                  *)
(***************************************************************************)
HashChange ==
  /\ hashChanged
  /\ hashChanged' = FALSE
  /\ Render(manifest)
  /\ UNCHANGED <<hash, manifest, shown, timer, results, responses, worker,
                 reader>>

(* 150 ms after the last keystroke, wherever the reader is by then. *)
TypingPaused ==
  /\ timer # None
  /\ timer' = None
  /\ IF hash.view = "file"
     THEN GoTo(FileView(hash.file, timer.value))
     ELSE UNCHANGED <<hash, hashChanged>>
  /\ UNCHANGED <<manifest, rendering, shown, pane, typed, client, channel,
                 worker, reader>>
-----------------------------------------------------------------------------
(***************************************************************************)
(* The worker.                                                             *)
(***************************************************************************)
Has(feed, route) == <<feed, route.file>> \notin Lacking

Answer(request) ==
  IF slot # None /\ Has(slot, request.route)
  THEN LET value == [feed |-> slot, route |-> request.route]
           findings == IF request.type = "checks"
                       THEN <<[type |-> "finding", id |-> request.id,
                               value |-> value]>>
                       ELSE <<>>
       IN  findings \o <<[type |-> "result", id |-> request.id,
                          value |-> value],
                         [type |-> "done", id |-> request.id]>>
  ELSE <<[type |-> "failed", id |-> request.id]>>

Handle ==
  /\ requests # <<>>
  /\ requests' = Tail(requests)
  /\ LET request == Head(requests)
     IN  IF request.type = "open"
         THEN /\ opening' = opening \cup {request.feed}
              /\ UNCHANGED responses
         ELSE /\ responses' = responses \o Answer(request)
              /\ UNCHANGED opening
  /\ UNCHANGED <<page, client, slot, reader>>

(* The slot is taken after the last await, and the page told at once. *)
Opens(feed) ==
  /\ feed \in opening
  /\ opening' = opening \ {feed}
  /\ slot' = feed
  /\ responses' = Append(responses, [type |-> "opened", feed |-> feed])
  /\ UNCHANGED <<page, client, requests, reader>>

(* A slip the runs must notice: a failure to open that nobody hears of. *)
OpenSwallowed(feed) ==
  /\ feed \in opening
  /\ opening' = opening \ {feed}
  /\ UNCHANGED <<page, client, channel, slot, reader>>

CannotOpen(feed) ==
  /\ feed \in opening
  /\ opening' = opening \ {feed}
  /\ responses' = Append(responses, [type |-> "failed", id |-> None])
  /\ UNCHANGED <<page, client, requests, slot, reader>>
-----------------------------------------------------------------------------
(***************************************************************************)
(* client.ts: what comes back.                                             *)
(***************************************************************************)
Receive(type) ==
  /\ responses # <<>>
  /\ Head(responses).type = type
  /\ responses' = Tail(responses)

Opened ==
  /\ Receive("opened")
  /\ manifest' = Head(responses).feed
  /\ shown' = (shown \ {"loading"}) \cup {"app"}
  /\ Render(Head(responses).feed)
  /\ UNCHANGED <<hash, hashChanged, timer, results, worker, reader>>

Fail ==
  /\ Receive("failed")
  /\ Head(responses).id = None
  /\ shown' = {"app"}
  /\ pane' = Failure
  /\ UNCHANGED <<hash, hashChanged, manifest, rendering, typed, timer, client,
                 requests, worker, reader>>

Waiting(id) == {asked \in pending : asked.id = id}

(* A slip the runs must notice: the last answer wins. *)
MayPaint(asked) == asked.kind # "export"

(* Whether a rendering may still paint. *)
IsNewest(asked) == asked.rendering = rendering

Finding ==
  /\ Receive("finding")
  /\ pane' = IF \E asked \in Waiting(Head(responses).id) : IsNewest(asked)
             THEN Pane("checking", Head(responses).value.feed,
                       Head(responses).value.route, None)
             ELSE pane
  /\ UNCHANGED <<hash, hashChanged, manifest, rendering, shown, typed, timer,
                 client, requests, worker, reader>>

Result ==
  /\ Receive("result")
  /\ results' = results \cup
       {[id |-> Head(responses).id, value |-> Head(responses).value]}
  /\ UNCHANGED <<page, pending, nextId, requests, worker, reader>>

Done ==
  /\ Receive("done")
  /\ \E asked \in Waiting(Head(responses).id), result \in results :
       /\ result.id = asked.id
       /\ pending' = pending \ {asked}
       /\ results' = results \ {result}
       /\ IF IsNewest(asked)
          THEN Paint(result.value.feed, asked.route)
          ELSE UNCHANGED <<pane, typed>>
  /\ UNCHANGED <<hash, hashChanged, manifest, rendering, shown, timer, nextId,
                 requests, worker, reader>>

Failed ==
  /\ Receive("failed")
  /\ \E asked \in Waiting(Head(responses).id) :
       /\ pending' = pending \ {asked}
       /\ pane' = IF IsNewest(asked)
                  THEN Pane("error", manifest, asked.route, None)
                  ELSE pane
  /\ UNCHANGED <<hash, hashChanged, manifest, rendering, shown, typed, timer,
                 results, nextId, requests, worker, reader>>

Hears == Opened \/ Fail \/ Finding \/ Result \/ Done \/ Failed

Reads == \E feed \in Feeds : Opens(feed) \/ CannotOpen(feed)

Reader ==
  \/ OpenFeed \/ CloseFeed \/ Export
  \/ \E route \in Routes : Navigate(route)
  \/ \E value \in Typing \cup {None} : Type(value)

Next == Reader \/ HashChange \/ TypingPaused \/ Handle \/ Reads \/ Hears

(* The reader may stop at any time; the page, its timer and the worker go  *)
(* on, and a feed that is being read is read or fails.                     *)
Spec ==
  /\ Init
  /\ [][Next]_vars
  /\ WF_vars(HashChange) /\ WF_vars(TypingPaused) /\ WF_vars(Handle)
  /\ \A feed \in Feeds : WF_vars(Opens(feed) \/ CannotOpen(feed))
  /\ WF_vars(Hears)
-----------------------------------------------------------------------------
Questions == [id : Nat, kind : {"query", "checks", "export"}, route : Routes,
              rendering : Nat]

TypeOK ==
  /\ hash \in Routes
  /\ hashChanged \in BOOLEAN
  /\ manifest \in Feeds \cup {None}
  /\ rendering \in Nat
  /\ shown \subseteq {"open", "loading", "app"}
  /\ pane \in [kind : {"empty", "view", "checking", "error", "failure"},
               feed : Feeds \cup {None}, route : Routes,
               box : Typing \cup {None}]
  /\ typed = None \/ typed \in [file : FileNames, value : Typing \cup {None}]
  /\ timer = None \/ timer \in [value : Typing \cup {None}]
  /\ pending \subseteq Questions
  /\ \A result \in results : result.id \in 1 .. nextId - 1
  /\ opening \subseteq Feeds
  /\ slot \in Feeds \cup {None}

(***************************************************************************)
(* render: a view that is not of the address and the feed the page names   *)
(* is one whose replacement is on its way: a slower answer never stands    *)
(* where a newer one should.  A failure to open stands where it is put.    *)
(***************************************************************************)
NewestIsOnItsWay ==
  (/\ "app" \in shown
   /\ manifest # None
   /\ pane.kind # "failure"
   /\ <<pane.feed, pane.route>> # <<manifest, hash>>)
  => hashChanged \/ \E asked \in pending :
                       asked.rendering = rendering /\ asked.route = hash

(***************************************************************************)
(* ask, receive: whatever is asked and opened in between, an answer is for *)
(* the question that waits under its id, and every question that waits is  *)
(* on its way, or its answer is: once, and its result before the word that *)
(* it is done.                                                             *)
(***************************************************************************)
AnswersAreMatched ==
  /\ \A asked \in pending :
       LET out == {i \in DOMAIN requests :
                     requests[i].type # "open" /\ requests[i].id = asked.id}
           back == {i \in DOMAIN responses :
                      /\ responses[i].type \in {"done", "failed"}
                      /\ responses[i].id = asked.id}
       IN  Cardinality(out) + Cardinality(back) = 1
  /\ \A i \in DOMAIN responses :
       responses[i].type = "result" =>
         \E asked \in pending : /\ asked.id = responses[i].id
                                /\ asked.route = responses[i].value.route
  /\ \A i \in DOMAIN responses :
       responses[i].type = "done" =>
         \/ \E result \in results : result.id = responses[i].id
         \/ \E j \in 1 .. i - 1 : /\ responses[j].type = "result"
                                  /\ responses[j].id = responses[i].id

(***************************************************************************)
(* Once the reader stops, nothing is left waiting: no question without its *)
(* answer, no spinner, and the page names the feed that the worker answers *)
(* from or none.                                                           *)
(***************************************************************************)
AtRest ==
  /\ ~hashChanged /\ timer = None
  /\ pending = {} /\ results = {}
  /\ opening = {} /\ requests = <<>> /\ responses = <<>>
  /\ "loading" \notin shown
  /\ manifest \in {slot, None}

ComesToRest == <>[]AtRest

(***************************************************************************)
(* restoreTyping, "Leaving the file ends it": what is typed into a filter  *)
(* of one file is not shown in that of another, which is not filtered by   *)
(* it.  The code does not keep this promise; see the README.               *)
(***************************************************************************)
LeavingTheFileEndsIt ==
  pane.kind = "view" /\ pane.route.view = "file" /\ typed # None =>
    typed.file = pane.route.file
=============================================================================
