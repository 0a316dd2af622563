--------------------------- MODULE ExplorerProofs ---------------------------
(***************************************************************************)
(* The feed explorer, for any feeds, any files, any filters and however    *)
(* often the reader opens feeds and moves about: every answer is for the   *)
(* question that waits for it, and the newest view is on its way wherever  *)
(* it is not shown.                                                        *)
(*                                                                         *)
(* Neither is inductive.  An answer is of the feed that was in the slot    *)
(* when the worker handled its question, and what the page makes of it     *)
(* rests on the two queues: an id is carried by one message that ends it   *)
(* (CarriedBy), an answer comes before that message (InOrderOf), it is     *)
(* about the route of its question (RoutedIn), and the page hears of a     *)
(* feed before it hears anything of it (ToldBy), so that the newest        *)
(* rendering is painted with the feed the page names (Newest).             *)
(***************************************************************************)
EXTENDS Explorer, FiniteSetTheorems, TLAPS

Kinds == {"query", "checks", "export"}

Request ==
  [type : {"open"}, feed : Feeds] \cup [type : Kinds, id : Nat, route : Routes]

Value == [feed : Feeds, route : Routes]

Response ==
  [type : {"opened"}, feed : Feeds] \cup
  [type : {"finding", "result"}, id : Nat, value : Value] \cup
  [type : {"done"}, id : Nat] \cup [type : {"failed"}, id : Nat \cup {None}]

(* The messages and what is remembered of them.                            *)
Messages ==
  /\ TypeOK
  /\ requests \in Seq(Request) /\ responses \in Seq(Response)
  /\ nextId \in Nat \ {0} /\ opens \in Nat
  /\ results \subseteq [id : Nat, value : Value]
  /\ \A asked \in pending : 0 < asked.id /\ asked.id < nextId /\ asked.rendering <= rendering

AskedAt(reqs, i, id) == reqs[i].type \in Kinds /\ reqs[i].id = id

EndedAt(resps, i, id) ==
  resps[i].type \in {"done", "failed"} /\ resps[i].id = id

AnswerAt(resps, i) == resps[i].type \in {"finding", "result"}

OpenedAt(resps, i) == resps[i].type = "opened"

(* A question that waits is on its way, or the end of its answer is: once. *)
CarriedBy(pend, reqs, resps) ==
  /\ \A asked, other \in pend : asked.id = other.id => asked = other
  /\ \A id \in Nat :
       /\ \A i, j \in DOMAIN reqs :
            AskedAt(reqs, i, id) /\ AskedAt(reqs, j, id) => i = j
       /\ \A i, j \in DOMAIN resps :
            EndedAt(resps, i, id) /\ EndedAt(resps, j, id) => i = j
       /\ \A i \in DOMAIN reqs, j \in DOMAIN resps :
            ~(AskedAt(reqs, i, id) /\ EndedAt(resps, j, id))
       /\ (\E asked \in pend : asked.id = id) <=>
            \/ \E i \in DOMAIN reqs : AskedAt(reqs, i, id)
            \/ \E i \in DOMAIN resps : EndedAt(resps, i, id)

(* What is found comes before the word that it is done.                    *)
InOrderOf(received, resps) ==
  \A i \in DOMAIN resps :
    /\ AnswerAt(resps, i) =>
         \E j \in DOMAIN resps : /\ i < j /\ resps[j].type = "done"
                                 /\ resps[j].id = resps[i].id
    /\ resps[i].type = "done" =>
         \/ \E result \in received : result.id = resps[i].id
         \/ \E j \in 1 .. i - 1 : /\ resps[j].type = "result"
                                  /\ resps[j].id = resps[i].id

(* A question and its answer are about the same route.                     *)
RoutedIn(pend, reqs, resps) ==
  \A asked \in pend :
    /\ \A i \in DOMAIN reqs :
         AskedAt(reqs, i, asked.id) => reqs[i].route = asked.route
    /\ \A i \in DOMAIN resps :
         AnswerAt(resps, i) /\ resps[i].id = asked.id =>
           resps[i].value.route = asked.route

(* The page is told of a feed before it is told anything of it: an answer  *)
(* is of the feed last opened before it, as the page knows or will.        *)
ToldBy(named, feed, resps) ==
  /\ \A i, j \in DOMAIN resps :
       /\ AnswerAt(resps, i) /\ OpenedAt(resps, j) /\ j < i
       /\ \A k \in DOMAIN resps : j < k /\ k < i => ~OpenedAt(resps, k)
       => resps[i].value.feed = resps[j].feed
  /\ \A i \in DOMAIN resps :
       /\ AnswerAt(resps, i) /\ named # None
       /\ \A k \in DOMAIN resps : k < i => ~OpenedAt(resps, k)
       => resps[i].value.feed = named
  /\ \A j \in DOMAIN resps :
       /\ OpenedAt(resps, j)
       /\ \A k \in DOMAIN resps : j < k => ~OpenedAt(resps, k)
       => feed = resps[j].feed
  /\ named # None /\ (\A k \in DOMAIN resps : ~OpenedAt(resps, k)) => feed = named

(* What the newest rendering waits for is of the address and of the feed.  *)
Newest ==
  /\ \A asked \in pending :
       asked.rendering = rendering /\ manifest # None =>
         /\ hashChanged \/ asked.route = hash
         /\ \A result \in results :
              result.id = asked.id => result.value.feed = manifest
  /\ NewestIsOnItsWay

IInv ==
  /\ Messages
  /\ CarriedBy(pending, requests, responses)
  /\ InOrderOf(results, responses)
  /\ RoutedIn(pending, requests, responses)
  /\ ToldBy(manifest, slot, responses)
  /\ Newest

-----------------------------------------------------------------------------
(***************************************************************************)
(* Sequences: an element more at the end, one less at the front, and one   *)
(* after another.                                                          *)
(***************************************************************************)
LEMMA AppendHas ==
  ASSUME NEW S, NEW s \in Seq(S), NEW x \in S
  PROVE  /\ Append(s, x) \in Seq(S) /\ Len(s) \in Nat
         /\ DOMAIN s = 1 .. Len(s) /\ DOMAIN Append(s, x) = 1 .. Len(s) + 1
         /\ \A i \in 1 .. Len(s) : Append(s, x)[i] = s[i]
         /\ Append(s, x)[Len(s) + 1] = x
OBVIOUS

LEMMA TailHas ==
  ASSUME NEW S, NEW s \in Seq(S), s # <<>>
  PROVE  /\ Tail(s) \in Seq(S) /\ Len(s) \in Nat \ {0}
         /\ DOMAIN s = 1 .. Len(s) /\ DOMAIN Tail(s) = 1 .. Len(s) - 1
         /\ \A i \in 1 .. Len(s) - 1 : Tail(s)[i] = s[i + 1]
         /\ Head(s) = s[1] /\ Head(s) \in S
<1>1. /\ Tail(s) \in Seq(S) /\ Len(s) \in Nat \ {0} /\ DOMAIN s = 1 .. Len(s)
      /\ Len(Tail(s)) = Len(s) - 1 /\ Head(s) = s[1] /\ Head(s) \in S
  OBVIOUS
<1>2. DOMAIN Tail(s) = 1 .. Len(s) - 1
  BY <1>1
<1>3. \A i \in 1 .. Len(s) - 1 : Tail(s)[i] = s[i + 1]
  BY <1>1
<1> QED BY <1>1, <1>2, <1>3

LEMMA ConcatHas ==
  ASSUME NEW S, NEW s \in Seq(S), NEW t \in Seq(S)
  PROVE  /\ s \o t \in Seq(S) /\ Len(s) \in Nat /\ Len(t) \in Nat
         /\ DOMAIN s = 1 .. Len(s) /\ DOMAIN (s \o t) = 1 .. Len(s) + Len(t)
         /\ \A i \in 1 .. Len(s) : (s \o t)[i] = s[i]
         /\ \A i \in 1 .. Len(t) : (s \o t)[Len(s) + i] = t[i]
<1>1. /\ s \o t \in Seq(S) /\ Len(s) \in Nat /\ Len(t) \in Nat /\ DOMAIN s = 1 .. Len(s)
      /\ Len(s \o t) = Len(s) + Len(t)
      /\ \A i \in 1 .. Len(s) : (s \o t)[i] = s[i]
  OBVIOUS
<1>2. DOMAIN (s \o t) = 1 .. Len(s) + Len(t)
  BY <1>1
<1>3. \A i \in 1 .. Len(t) : (s \o t)[Len(s) + i] = t[i]
  BY <1>1
<1> QED BY <1>1, <1>2, <1>3

-----------------------------------------------------------------------------
LEMMA RoutesAre ==
  /\ Overview \in Routes /\ Checks \in Routes /\ Overview.view = "overview"
  /\ \A route \in Routes : route.filter \in Typing \cup {None}
  /\ \A route \in Routes : route.view = "file" => route.file \in FileNames
  /\ \A file \in FileNames, filter \in Typing \cup {None} :
       FileView(file, filter) \in Routes
<1>1. Overview \in Routes /\ Checks \in Routes /\ Overview.view = "overview"
  BY DEF Routes, Overview
<1>2. \A file \in FileNames, filter \in Typing \cup {None} : FileView(file, filter) \in Routes
  BY DEF Routes
<1>3. ASSUME NEW route \in Routes
      PROVE  /\ route.filter \in Typing \cup {None}
             /\ route.view = "file" => route.file \in FileNames
  <2>1. CASE route = Overview
    BY <2>1 DEF Overview
  <2>2. CASE route = Checks
    BY <2>2 DEF Checks
  <2>3. CASE route \notin {Overview, Checks}
    <3>1. PICK file \in FileNames, filter \in Typing \cup {None} : route = FileView(file, filter)
      BY <2>3 DEF Routes
    <3> QED BY <3>1 DEF FileView
  <2> QED BY <2>1, <2>2, <2>3
<1> QED BY <1>1, <1>2, <1>3

Panes ==
  [kind : {"empty", "view", "checking", "error", "failure"},
   feed : Feeds \cup {None}, route : Routes, box : Typing \cup {None}]

IsTyped(t) == t = None \/ t \in [file : FileNames, value : Typing \cup {None}]

LEMMA PanesAre ==
  ASSUME NEW kind \in {"empty", "view", "checking", "error", "failure"},
         NEW feed \in Feeds \cup {None}, NEW route \in Routes, NEW box \in Typing \cup {None}
  PROVE  Pane(kind, feed, route, box) \in Panes
BY DEF Pane, Panes

LEMMA EmptyIsAPane == Empty \in Panes /\ Failure \in Panes /\ Failure.kind = "failure"
BY RoutesAre, PanesAre DEF Empty, Failure, Pane

(* What is asked of the worker, if anything.                               *)
Asks(number) ==
  \/ AsksNothing
  \/ \E kind \in Kinds : Ask(kind, hash, number)

LEMMA PaintIs ==
  ASSUME TypeOK, NEW feed \in Feeds, NEW route \in Routes, Paint(feed, route)
  PROVE  /\ pane' \in Panes /\ IsTyped(typed')
         /\ pane'.feed = feed /\ pane'.route = route
<1>1. IsTyped(typed)
  BY DEF TypeOK, IsTyped
<1>2. IsTyped(typed')
  BY <1>1 DEF Paint, RestoreTyping, IsTyped
<1>3. Box(route) \in Typing \cup {None}
  BY <1>1, RoutesAre DEF Box, IsTyped
<1>4. PICK box \in Typing \cup {None} : pane' = Pane("view", feed, route, box)
  BY <1>3 DEF Paint
<1> QED BY <1>2, <1>4, PanesAre DEF Pane

LEMMA RenderIs ==
  ASSUME Messages, NEW feed \in Feeds \cup {None}, Render(feed)
  PROVE  /\ pane' \in Panes /\ IsTyped(typed') /\ rendering' \in Nat
         /\ feed = None => UNCHANGED <<rendering, pane, typed>> /\ AsksNothing
         /\ feed # None =>
              /\ rendering' = rendering + 1
              /\ Asks(rendering + 1)
              /\ \/ pane'.feed = feed /\ pane'.route = hash
                 \/ \E kind \in Kinds : Ask(kind, hash, rendering + 1)
<1>1. /\ hash \in Routes /\ pane \in Panes /\ IsTyped(typed) /\ rendering \in Nat /\ TypeOK
  BY DEF Messages, TypeOK, Panes, IsTyped
<1>2. CASE feed = None
  BY <1>1, <1>2 DEF Render
<1>3. CASE feed # None /\ hash.view = "overview"
  <2>1. feed \in Feeds /\ rendering' = rendering + 1 /\ Paint(feed, hash) /\ AsksNothing
    BY <1>3 DEF Render
  <2> QED BY <1>1, <1>3, <2>1, PaintIs DEF Asks
<1>4. CASE feed # None /\ hash.view = "file"
  <2>1. rendering' = rendering + 1 /\ Ask("query", hash, rendering + 1) /\ UNCHANGED <<pane, typed>>
    BY <1>4 DEF Render
  <2> QED BY <1>1, <1>4, <2>1 DEF Asks, Kinds
<1>5. CASE feed # None /\ hash.view = "checks"
  <2>1. /\ rendering' = rendering + 1 /\ Ask("checks", hash, rendering + 1) /\ UNCHANGED typed
        /\ pane' = Pane("checking", feed, hash, None)
    BY <1>5 DEF Render
  <2>2. pane' \in Panes /\ pane'.feed = feed /\ pane'.route = hash
    BY <1>1, <2>1, PanesAre DEF Pane
  <2> QED BY <1>1, <1>5, <2>1, <2>2 DEF Asks, Kinds
<1>6. feed # None => hash.view \in {"overview", "file", "checks"}
  BY DEF Render
<1> QED BY <1>2, <1>3, <1>4, <1>5, <1>6

LEMMA AsksAreTyped ==
  ASSUME Messages, NEW number \in Nat, Asks(number), rendering' = number \/ number = 0,
         rendering' \in Nat, rendering <= rendering'
  PROVE  /\ requests' \in Seq(Request) /\ nextId' \in Nat \ {0} /\ nextId <= nextId'
         /\ pending' \subseteq Questions
         /\ \A asked \in pending' : 0 < asked.id /\ asked.id < nextId' /\ asked.rendering <= rendering'
<1>1. /\ requests \in Seq(Request) /\ nextId \in Nat \ {0} /\ pending \subseteq Questions
      /\ rendering \in Nat /\ hash \in Routes
      /\ \A asked \in pending : 0 < asked.id /\ asked.id < nextId /\ asked.rendering <= rendering
  BY DEF Messages, TypeOK
<1>2. CASE AsksNothing
  <2>1. \A asked \in pending : asked.rendering \in Nat
    BY <1>1 DEF Questions
  <2>2. \A asked \in pending : asked.rendering <= rendering'
    BY <1>1, <2>1
  <2> QED BY <1>1, <1>2, <2>2 DEF AsksNothing
<1>3. ASSUME NEW kind \in Kinds, Ask(kind, hash, number)
      PROVE  /\ requests' \in Seq(Request) /\ nextId' \in Nat \ {0} /\ nextId <= nextId'
             /\ pending' \subseteq Questions
             /\ \A asked \in pending' : 0 < asked.id /\ asked.id < nextId' /\ asked.rendering <= rendering'
  <2> DEFINE new == [id |-> nextId, kind |-> kind, route |-> hash, rendering |-> number]
             request == [type |-> kind, id |-> nextId, route |-> hash]
  <2>1. /\ pending' = pending \cup {new} /\ nextId' = nextId + 1
        /\ requests' = Append(requests, request)
    BY <1>3 DEF Ask
  <2>2. new \in Questions /\ new.id = nextId /\ new.rendering = number
    BY <1>1 DEF Questions, Kinds
  <2>3. request \in Request
    BY <1>1 DEF Request
  <2> HIDE DEF new, request
  <2>4. requests' \in Seq(Request)
    BY <1>1, <2>1, <2>3, AppendHas
  <2>5. pending' \subseteq Questions
    BY <1>1, <2>1, <2>2
  <2>6. ASSUME NEW asked \in pending' PROVE 0 < asked.id /\ asked.id < nextId' /\ asked.rendering <= rendering'
    <3>1. CASE asked = new
      BY <1>1, <2>1, <2>2, <3>1
    <3>2. CASE asked \in pending
      <4>1. asked.id \in Nat /\ asked.rendering \in Nat
        BY <1>1, <3>2 DEF Questions
      <4> QED BY <1>1, <2>1, <3>2, <4>1
    <3> QED BY <2>1, <3>1, <3>2
  <2> QED BY <1>1, <2>1, <2>4, <2>5, <2>6
<1> QED BY <1>2, <1>3 DEF Asks

(* What the worker sends back for a question.                              *)
IsReply(reply, request, feed) ==
  /\ reply \in Seq(Response) /\ Len(reply) >= 1
  /\ reply[Len(reply)].type \in {"done", "failed"}
  /\ reply[Len(reply)].id = request.id
  /\ \A i \in 1 .. Len(reply) - 1 :
       /\ AnswerAt(reply, i)
       /\ reply[Len(reply)].type = "done"
       /\ reply[i].id = request.id
       /\ reply[i].value.route = request.route
       /\ reply[i].value.feed = feed
  /\ reply[Len(reply)].type = "done" =>
       \E i \in 1 .. Len(reply) - 1 : reply[i].type = "result" /\ reply[i].id = request.id

LEMMA RepliesAre ==
  ASSUME slot \in Feeds \cup {None},
         NEW request \in [type : Kinds, id : Nat, route : Routes]
  PROVE  IsReply(Answer(request), request, slot)
<1>1. CASE slot # None /\ Has(slot, request.route)
  <2> DEFINE value == [feed |-> slot, route |-> request.route]
             finding == [type |-> "finding", id |-> request.id, value |-> value]
             result == [type |-> "result", id |-> request.id, value |-> value]
             done == [type |-> "done", id |-> request.id]
             reply == Answer(request)
  <2>1. value \in Value /\ value.feed = slot /\ value.route = request.route
    BY <1>1 DEF Value
  <2> HIDE DEF value
  <2>2. /\ finding \in Response /\ result \in Response /\ done \in Response
    BY <2>1 DEF Response
  <2>3. /\ finding.type = "finding" /\ finding.id = request.id /\ finding.value = value
        /\ result.type = "result" /\ result.id = request.id /\ result.value = value
        /\ done.type = "done" /\ done.id = request.id
    OBVIOUS
  <2>4. reply = (IF request.type = "checks" THEN <<finding>> ELSE <<>>) \o <<result, done>>
    BY <1>1 DEF Answer, value
  <2> HIDE DEF finding, result, done, reply
  <2>5. CASE request.type = "checks"
    <3>1. reply = <<finding>> \o <<result, done>>
      BY <2>4, <2>5
    <3>2. reply \in Seq(Response) /\ Len(reply) = 3 /\ reply[1] = finding
          /\ reply[2] = result /\ reply[3] = done
      BY <2>2, <3>1
    <3>3. \A i \in 1 .. 2 : i = 1 \/ i = 2
      OBVIOUS
    <3>4. reply[Len(reply)] = done /\ Len(reply) - 1 = 2 /\ 2 \in 1 .. 2 /\ Len(reply) >= 1
      BY <3>2
    <3> QED BY <2>1, <2>3, <3>2, <3>3, <3>4 DEF IsReply, AnswerAt, reply
  <2>6. CASE request.type # "checks"
    <3>1. reply = <<>> \o <<result, done>>
      BY <2>4, <2>6
    <3>2. reply \in Seq(Response) /\ Len(reply) = 2 /\ reply[1] = result /\ reply[2] = done
      BY <2>2, <3>1
    <3>3. \A i \in 1 .. 1 : i = 1
      OBVIOUS
    <3>4. reply[Len(reply)] = done /\ Len(reply) - 1 = 1 /\ 1 \in 1 .. 1 /\ Len(reply) >= 1
      BY <3>2
    <3> QED BY <2>1, <2>3, <3>2, <3>3, <3>4 DEF IsReply, AnswerAt, reply
  <2> QED BY <2>5, <2>6
<1>2. CASE ~(slot # None /\ Has(slot, request.route))
  <2> DEFINE failed == [type |-> "failed", id |-> request.id]
             reply == Answer(request)
  <2>1. reply = <<failed>>
    BY <1>2 DEF Answer
  <2>2. failed \in Response /\ failed.type = "failed" /\ failed.id = request.id
    BY DEF Response
  <2> HIDE DEF failed, reply
  <2>3. reply \in Seq(Response) /\ Len(reply) = 1 /\ reply[1] = failed
    BY <2>1, <2>2
  <2>4. \A i \in 1 .. 0 : FALSE
    OBVIOUS
  <2>5. reply[Len(reply)] = failed /\ Len(reply) - 1 = 0 /\ Len(reply) >= 1
    BY <2>3
  <2> QED BY <2>2, <2>3, <2>4, <2>5 DEF IsReply, reply
<1> QED BY <1>1, <1>2

(* What a message is.                                                      *)
LEMMA RequestsAre ==
  ASSUME NEW request \in Request
  PROVE  /\ request.type = "open" => request.feed \in Feeds
         /\ request.type # "open" => request \in [type : Kinds, id : Nat, route : Routes]
         /\ request.type # "open" <=> request.type \in Kinds
BY DEF Request, Kinds

LEMMA ResponsesAre ==
  ASSUME NEW response \in Response
  PROVE  /\ response.type \in {"opened", "finding", "result", "done", "failed"}
         /\ response.type = "opened" => response.feed \in Feeds
         /\ response.type \in {"finding", "result"} =>
              response.id \in Nat /\ response.value \in Value
         /\ response.type = "done" => response.id \in Nat
         /\ response.type = "failed" => response.id \in Nat \cup {None}
BY DEF Response

-----------------------------------------------------------------------------
(***************************************************************************)
(* What each message that is sent or heard leaves of CarriedBy ...         *)
(***************************************************************************)
LEMMA OpenIsCarried ==
  ASSUME NEW pend, NEW reqs \in Seq(Request), NEW resps, NEW request \in Request,
         request.type = "open", CarriedBy(pend, reqs, resps)
  PROVE  CarriedBy(pend, Append(reqs, request), resps)
<1> DEFINE more == Append(reqs, request)
<1>1. /\ DOMAIN reqs = 1 .. Len(reqs) /\ DOMAIN more = 1 .. Len(reqs) + 1 /\ Len(reqs) \in Nat
      /\ \A i \in 1 .. Len(reqs) : more[i] = reqs[i]
      /\ more[Len(reqs) + 1] = request
  BY AppendHas
<1> HIDE DEF more
<1>2. \A id : ~AskedAt(more, Len(reqs) + 1, id)
  BY <1>1 DEF AskedAt, Kinds
<1>3. \A id : \A i \in 1 .. Len(reqs) : AskedAt(more, i, id) <=> AskedAt(reqs, i, id)
  BY <1>1 DEF AskedAt
<1>4. \A id : \A i \in DOMAIN more : AskedAt(more, i, id) <=> i \in DOMAIN reqs /\ AskedAt(reqs, i, id)
  BY <1>1, <1>2, <1>3
<1>5. DOMAIN reqs \subseteq DOMAIN more
  BY <1>1
<1>6. CarriedBy(pend, more, resps)
  BY <1>4, <1>5 DEF CarriedBy
<1> QED BY <1>6 DEF more

LEMMA AskIsCarried ==
  ASSUME NEW pend, NEW reqs \in Seq(Request), NEW resps, NEW request \in Request, NEW question,
         request.type \in Kinds, question.id = request.id,
         \A asked \in pend : asked.id # question.id,
         CarriedBy(pend, reqs, resps)
  PROVE  CarriedBy(pend \cup {question}, Append(reqs, request), resps)
<1> DEFINE more == Append(reqs, request)
           id1 == request.id
<1>1. /\ DOMAIN reqs = 1 .. Len(reqs) /\ DOMAIN more = 1 .. Len(reqs) + 1 /\ Len(reqs) \in Nat
      /\ \A i \in 1 .. Len(reqs) : more[i] = reqs[i]
      /\ more[Len(reqs) + 1] = request
  BY AppendHas
<1>0. id1 \in Nat
  BY RequestsAre, request.type # "open" DEF Kinds
<1> DEFINE last == Len(reqs) + 1
<1> HIDE DEF more
<1>2. \A id : AskedAt(more, last, id) <=> id = id1
  BY <1>1 DEF AskedAt
<1>3. \A id : \A i \in 1 .. Len(reqs) : AskedAt(more, i, id) <=> AskedAt(reqs, i, id)
  BY <1>1 DEF AskedAt
<1>4. \A i \in DOMAIN more : i \in DOMAIN reqs \/ i = last
  BY <1>1
<1>5. DOMAIN reqs \subseteq DOMAIN more /\ last \in DOMAIN more /\ last \notin DOMAIN reqs
  BY <1>1
<1>6. /\ \A i \in DOMAIN reqs : ~AskedAt(reqs, i, id1)
      /\ \A i \in DOMAIN resps : ~EndedAt(resps, i, id1)
  BY <1>0 DEF CarriedBy
<1> DEFINE pend2 == pend \cup {question}
<1>7. \A asked, other \in pend2 : asked.id = other.id => asked = other
  BY DEF CarriedBy
<1>8. \A id : (\E asked \in pend2 : asked.id = id) <=> (\E asked \in pend : asked.id = id) \/ id = id1
  OBVIOUS
<1>9. \A id : \A i \in DOMAIN reqs : AskedAt(more, i, id) <=> AskedAt(reqs, i, id)
  BY <1>1, <1>3
<1> HIDE DEF pend2, id1, last
<1>10. ASSUME NEW id \in Nat
       PROVE  /\ \A i, j \in DOMAIN more : AskedAt(more, i, id) /\ AskedAt(more, j, id) => i = j
              /\ \A i, j \in DOMAIN resps : EndedAt(resps, i, id) /\ EndedAt(resps, j, id) => i = j
              /\ \A i \in DOMAIN more, j \in DOMAIN resps : ~(AskedAt(more, i, id) /\ EndedAt(resps, j, id))
              /\ (\E asked \in pend2 : asked.id = id) <=>
                   \/ \E i \in DOMAIN more : AskedAt(more, i, id)
                   \/ \E i \in DOMAIN resps : EndedAt(resps, i, id)
  <2>1. /\ \A i, j \in DOMAIN reqs : AskedAt(reqs, i, id) /\ AskedAt(reqs, j, id) => i = j
        /\ \A i, j \in DOMAIN resps : EndedAt(resps, i, id) /\ EndedAt(resps, j, id) => i = j
        /\ \A i \in DOMAIN reqs, j \in DOMAIN resps : ~(AskedAt(reqs, i, id) /\ EndedAt(resps, j, id))
        /\ (\E asked \in pend : asked.id = id) <=>
             \/ \E i \in DOMAIN reqs : AskedAt(reqs, i, id)
             \/ \E i \in DOMAIN resps : EndedAt(resps, i, id)
    BY DEF CarriedBy
  <2>2. \A i, j \in DOMAIN more : AskedAt(more, i, id) /\ AskedAt(more, j, id) => i = j
    BY <2>1, <1>2, <1>4, <1>6, <1>9
  <2>3. \A i \in DOMAIN more, j \in DOMAIN resps : ~(AskedAt(more, i, id) /\ EndedAt(resps, j, id))
    BY <2>1, <1>2, <1>4, <1>6, <1>9
  <2>4. (\E i \in DOMAIN more : AskedAt(more, i, id)) <=> (\E i \in DOMAIN reqs : AskedAt(reqs, i, id)) \/ id = id1
    BY <1>2, <1>4, <1>5, <1>9
  <2> QED BY <2>1, <2>2, <2>3, <2>4, <1>8
<1>11. CarriedBy(pend2, more, resps)
  BY <1>7, <1>10 DEF CarriedBy
<1> QED BY <1>11 DEF more, pend2

LEMMA HandledOpenIsCarried ==
  ASSUME NEW pend, NEW reqs \in Seq(Request), NEW resps, reqs # <<>>,
         reqs[1].type \notin Kinds, CarriedBy(pend, reqs, resps)
  PROVE  CarriedBy(pend, Tail(reqs), resps)
<1> DEFINE less == Tail(reqs)
<1>1. /\ DOMAIN reqs = 1 .. Len(reqs) /\ DOMAIN less = 1 .. Len(reqs) - 1 /\ Len(reqs) \in Nat \ {0}
      /\ \A i \in 1 .. Len(reqs) - 1 : less[i] = reqs[i + 1]
  BY TailHas
<1> HIDE DEF less
<1>2. \A id : \A i \in DOMAIN less : AskedAt(less, i, id) <=> AskedAt(reqs, i + 1, id)
  BY <1>1 DEF AskedAt
<1>3. \A id : ~AskedAt(reqs, 1, id)
  BY DEF AskedAt
<1>4. \A i \in DOMAIN less : i + 1 \in DOMAIN reqs
  BY <1>1
<1>5. \A i \in DOMAIN reqs : i = 1 \/ (i - 1 \in DOMAIN less /\ i = (i - 1) + 1)
  BY <1>1
<1>6. \A i, j \in DOMAIN less : i + 1 = j + 1 => i = j
  BY <1>1
<1>7. \A id : (\E i \in DOMAIN less : AskedAt(less, i, id)) <=> (\E i \in DOMAIN reqs : AskedAt(reqs, i, id))
  BY <1>2, <1>3, <1>4, <1>5
<1>8. \A id \in Nat : \A i, j \in DOMAIN less : AskedAt(less, i, id) /\ AskedAt(less, j, id) => i = j
  BY <1>2, <1>4, <1>6 DEF CarriedBy
<1>9. \A id \in Nat : \A i \in DOMAIN less, j \in DOMAIN resps : ~(AskedAt(less, i, id) /\ EndedAt(resps, j, id))
  BY <1>2, <1>4 DEF CarriedBy
<1>10. CarriedBy(pend, less, resps)
  BY <1>7, <1>8, <1>9 DEF CarriedBy
<1> QED BY <1>10 DEF less

LEMMA ReplyIsCarried ==
  ASSUME NEW pend, NEW reqs \in Seq(Request), NEW resps \in Seq(Response), reqs # <<>>,
         NEW reply, NEW feed, reqs[1].type \in Kinds, IsReply(reply, reqs[1], feed),
         CarriedBy(pend, reqs, resps)
  PROVE  CarriedBy(pend, Tail(reqs), resps \o reply)
<1> DEFINE less == Tail(reqs)
           more == resps \o reply
           id1 == reqs[1].id
           last == Len(resps) + Len(reply)
<1>1. /\ DOMAIN reqs = 1 .. Len(reqs) /\ DOMAIN less = 1 .. Len(reqs) - 1 /\ Len(reqs) \in Nat \ {0}
      /\ \A i \in 1 .. Len(reqs) - 1 : less[i] = reqs[i + 1]
      /\ reqs[1] \in Request
  BY TailHas
<1>2. id1 \in Nat
  BY <1>1, RequestsAre, reqs[1].type # "open" DEF Kinds
<1>r. /\ reply \in Seq(Response) /\ Len(reply) >= 1 /\ EndedAt(reply, Len(reply), id1)
      /\ \A i \in 1 .. Len(reply) - 1 : AnswerAt(reply, i)
      /\ reply[Len(reply)].id = id1
  BY DEF IsReply, EndedAt
<1>3. /\ DOMAIN resps = 1 .. Len(resps) /\ DOMAIN more = 1 .. Len(resps) + Len(reply)
      /\ Len(resps) \in Nat /\ Len(reply) \in Nat
      /\ \A i \in 1 .. Len(resps) : more[i] = resps[i]
      /\ \A i \in 1 .. Len(reply) : more[Len(resps) + i] = reply[i]
  BY <1>r, ConcatHas
<1> HIDE DEF less, more
<1>4. last \in DOMAIN more /\ last \notin DOMAIN resps /\ DOMAIN resps \subseteq DOMAIN more
  BY <1>3, <1>r
<1>5. more[last] = reply[Len(reply)]
  BY <1>3, <1>r
<1>6. \A id : EndedAt(more, last, id) <=> id = id1
  BY <1>5, <1>r DEF EndedAt
<1>7. \A id : \A i \in DOMAIN resps : EndedAt(more, i, id) <=> EndedAt(resps, i, id)
  BY <1>3 DEF EndedAt
<1>8. ASSUME NEW i \in DOMAIN more, i \notin DOMAIN resps, i # last, NEW id
      PROVE  ~EndedAt(more, i, id)
  <2>1. i - Len(resps) \in 1 .. Len(reply) - 1 /\ i = Len(resps) + (i - Len(resps))
    BY <1>3, <1>8
  <2>2. more[i] = reply[i - Len(resps)]
    BY <1>3, <2>1
  <2> QED BY <1>r, <2>1, <2>2 DEF AnswerAt, EndedAt
<1>9. \A id : \A i \in DOMAIN less : AskedAt(less, i, id) <=> AskedAt(reqs, i + 1, id)
  BY <1>1 DEF AskedAt
<1>10. \A id : AskedAt(reqs, 1, id) <=> id = id1
  BY DEF AskedAt
<1>11. \A i \in DOMAIN less : i + 1 \in DOMAIN reqs /\ i + 1 # 1
  BY <1>1
<1>12. 1 \in DOMAIN reqs /\ \A i \in DOMAIN reqs : i = 1 \/ (i - 1 \in DOMAIN less /\ i = (i - 1) + 1)
  BY <1>1
<1>13. \A i, j \in DOMAIN less : i + 1 = j + 1 => i = j
  BY <1>1
<1> HIDE DEF id1, last
<1>14. ASSUME NEW id \in Nat
       PROVE  /\ \A i, j \in DOMAIN less : AskedAt(less, i, id) /\ AskedAt(less, j, id) => i = j
              /\ \A i, j \in DOMAIN more : EndedAt(more, i, id) /\ EndedAt(more, j, id) => i = j
              /\ \A i \in DOMAIN less, j \in DOMAIN more : ~(AskedAt(less, i, id) /\ EndedAt(more, j, id))
              /\ (\E asked \in pend : asked.id = id) <=>
                   \/ \E i \in DOMAIN less : AskedAt(less, i, id)
                   \/ \E i \in DOMAIN more : EndedAt(more, i, id)
  <2>1. /\ \A i, j \in DOMAIN reqs : AskedAt(reqs, i, id) /\ AskedAt(reqs, j, id) => i = j
        /\ \A i, j \in DOMAIN resps : EndedAt(resps, i, id) /\ EndedAt(resps, j, id) => i = j
        /\ \A i \in DOMAIN reqs, j \in DOMAIN resps : ~(AskedAt(reqs, i, id) /\ EndedAt(resps, j, id))
        /\ (\E asked \in pend : asked.id = id) <=>
             \/ \E i \in DOMAIN reqs : AskedAt(reqs, i, id)
             \/ \E i \in DOMAIN resps : EndedAt(resps, i, id)
    BY DEF CarriedBy
  <2>2. \A i, j \in DOMAIN less : AskedAt(less, i, id) /\ AskedAt(less, j, id) => i = j
    BY <2>1, <1>9, <1>11, <1>13
  <2>3. id = id1 => (\A j \in DOMAIN resps : ~EndedAt(resps, j, id)) /\ \A i \in DOMAIN less : ~AskedAt(less, i, id)
    BY <2>1, <1>9, <1>10, <1>11, <1>12
  <2>4. \A i \in DOMAIN more : EndedAt(more, i, id) <=> (i \in DOMAIN resps /\ EndedAt(resps, i, id)) \/ (i = last /\ id = id1)
    BY <1>4, <1>6, <1>7, <1>8
  <2>5. \A i, j \in DOMAIN more : EndedAt(more, i, id) /\ EndedAt(more, j, id) => i = j
    BY <2>1, <2>3, <2>4
  <2>6. \A i \in DOMAIN less : AskedAt(less, i, id) => AskedAt(reqs, i + 1, id) /\ i + 1 \in DOMAIN reqs
    BY <1>9, <1>11
  <2>7. \A i \in DOMAIN less, j \in DOMAIN more : ~(AskedAt(less, i, id) /\ EndedAt(more, j, id))
    BY <2>1, <2>3, <2>4, <2>6
  <2>8. (\E i \in DOMAIN reqs : AskedAt(reqs, i, id)) <=> (\E i \in DOMAIN less : AskedAt(less, i, id)) \/ id = id1
    BY <1>9, <1>10, <1>11, <1>12
  <2>9. (\E i \in DOMAIN more : EndedAt(more, i, id)) <=> (\E i \in DOMAIN resps : EndedAt(resps, i, id)) \/ id = id1
    BY <2>4, <1>4
  <2> QED BY <2>1, <2>2, <2>5, <2>7, <2>8, <2>9
<1>15. CarriedBy(pend, less, more)
  BY <1>14 DEF CarriedBy
<1> QED BY <1>15 DEF less, more

LEMMA SentIsCarried ==
  ASSUME NEW pend, NEW reqs, NEW resps \in Seq(Response), NEW response \in Response,
         \A id \in Nat : ~(response.type \in {"done", "failed"} /\ response.id = id),
         CarriedBy(pend, reqs, resps)
  PROVE  CarriedBy(pend, reqs, Append(resps, response))
<1> DEFINE more == Append(resps, response)
<1>1. /\ DOMAIN resps = 1 .. Len(resps) /\ DOMAIN more = 1 .. Len(resps) + 1 /\ Len(resps) \in Nat
      /\ \A i \in 1 .. Len(resps) : more[i] = resps[i]
      /\ more[Len(resps) + 1] = response
  BY AppendHas
<1> HIDE DEF more
<1>2. \A id \in Nat : ~EndedAt(more, Len(resps) + 1, id)
  BY <1>1 DEF EndedAt
<1>3. \A id : \A i \in 1 .. Len(resps) : EndedAt(more, i, id) <=> EndedAt(resps, i, id)
  BY <1>1 DEF EndedAt
<1>4. \A i \in DOMAIN more, id \in Nat : EndedAt(more, i, id) <=> i \in DOMAIN resps /\ EndedAt(resps, i, id)
  BY <1>1, <1>2, <1>3
<1>5. DOMAIN resps \subseteq DOMAIN more
  BY <1>1
<1>6. CarriedBy(pend, reqs, more)
  BY <1>4, <1>5 DEF CarriedBy
<1> QED BY <1>6 DEF more

LEMMA HeardIsCarried ==
  ASSUME NEW pend, NEW reqs, NEW resps \in Seq(Response), resps # <<>>,
         \A id \in Nat : ~EndedAt(resps, 1, id), CarriedBy(pend, reqs, resps)
  PROVE  CarriedBy(pend, reqs, Tail(resps))
<1> DEFINE less == Tail(resps)
<1>1. /\ DOMAIN resps = 1 .. Len(resps) /\ DOMAIN less = 1 .. Len(resps) - 1 /\ Len(resps) \in Nat \ {0}
      /\ \A i \in 1 .. Len(resps) - 1 : less[i] = resps[i + 1]
  BY TailHas
<1> HIDE DEF less
<1>2. \A id : \A i \in DOMAIN less : EndedAt(less, i, id) <=> EndedAt(resps, i + 1, id)
  BY <1>1 DEF EndedAt
<1>4. \A i \in DOMAIN less : i + 1 \in DOMAIN resps
  BY <1>1
<1>5. \A i \in DOMAIN resps : i = 1 \/ (i - 1 \in DOMAIN less /\ i = (i - 1) + 1)
  BY <1>1
<1>6. \A i, j \in DOMAIN less : i + 1 = j + 1 => i = j
  BY <1>1
<1>7. \A id \in Nat : (\E i \in DOMAIN less : EndedAt(less, i, id)) <=> (\E i \in DOMAIN resps : EndedAt(resps, i, id))
  BY <1>2, <1>4, <1>5
<1>8. \A id \in Nat : \A i, j \in DOMAIN less : EndedAt(less, i, id) /\ EndedAt(less, j, id) => i = j
  BY <1>2, <1>4, <1>6 DEF CarriedBy
<1>9. \A id \in Nat : \A i \in DOMAIN reqs, j \in DOMAIN less : ~(AskedAt(reqs, i, id) /\ EndedAt(less, j, id))
  BY <1>2, <1>4 DEF CarriedBy
<1>10. CarriedBy(pend, reqs, less)
  BY <1>7, <1>8, <1>9 DEF CarriedBy
<1> QED BY <1>10 DEF less

LEMMA EndIsCarried ==
  ASSUME NEW pend, NEW reqs, NEW resps \in Seq(Response), resps # <<>>,
         NEW asked \in pend, asked.id \in Nat, EndedAt(resps, 1, asked.id), CarriedBy(pend, reqs, resps)
  PROVE  CarriedBy(pend \ {asked}, reqs, Tail(resps))
<1> DEFINE less == Tail(resps)
           left == pend \ {asked}
<1>1. /\ DOMAIN resps = 1 .. Len(resps) /\ DOMAIN less = 1 .. Len(resps) - 1 /\ Len(resps) \in Nat \ {0}
      /\ \A i \in 1 .. Len(resps) - 1 : less[i] = resps[i + 1]
  BY TailHas
<1> HIDE DEF less
<1>2. \A id : \A i \in DOMAIN less : EndedAt(less, i, id) <=> EndedAt(resps, i + 1, id)
  BY <1>1 DEF EndedAt
<1>3. \A id : EndedAt(resps, 1, id) <=> id = asked.id
  BY DEF EndedAt
<1>4. 1 \in DOMAIN resps /\ \A i \in DOMAIN less : i + 1 \in DOMAIN resps /\ i + 1 # 1
  BY <1>1
<1>5. \A i \in DOMAIN resps : i = 1 \/ (i - 1 \in DOMAIN less /\ i = (i - 1) + 1)
  BY <1>1
<1>6. \A i, j \in DOMAIN less : i + 1 = j + 1 => i = j
  BY <1>1
<1>7. \A a, b \in left : a.id = b.id => a = b
  BY DEF CarriedBy
<1>8. \A id : (\E a \in left : a.id = id) <=> (\E a \in pend : a.id = id) /\ id # asked.id
  BY DEF CarriedBy
<1> HIDE DEF left
<1>9. ASSUME NEW id \in Nat
      PROVE  /\ \A i, j \in DOMAIN reqs : AskedAt(reqs, i, id) /\ AskedAt(reqs, j, id) => i = j
             /\ \A i, j \in DOMAIN less : EndedAt(less, i, id) /\ EndedAt(less, j, id) => i = j
             /\ \A i \in DOMAIN reqs, j \in DOMAIN less : ~(AskedAt(reqs, i, id) /\ EndedAt(less, j, id))
             /\ (\E a \in left : a.id = id) <=>
                  \/ \E i \in DOMAIN reqs : AskedAt(reqs, i, id)
                  \/ \E i \in DOMAIN less : EndedAt(less, i, id)
  <2>1. /\ \A i, j \in DOMAIN reqs : AskedAt(reqs, i, id) /\ AskedAt(reqs, j, id) => i = j
        /\ \A i, j \in DOMAIN resps : EndedAt(resps, i, id) /\ EndedAt(resps, j, id) => i = j
        /\ \A i \in DOMAIN reqs, j \in DOMAIN resps : ~(AskedAt(reqs, i, id) /\ EndedAt(resps, j, id))
        /\ (\E a \in pend : a.id = id) <=>
             \/ \E i \in DOMAIN reqs : AskedAt(reqs, i, id)
             \/ \E i \in DOMAIN resps : EndedAt(resps, i, id)
    BY DEF CarriedBy
  <2>2. \A i \in DOMAIN less : EndedAt(less, i, id) => i + 1 \in DOMAIN resps /\ EndedAt(resps, i + 1, id)
    BY <1>2, <1>4
  <2>3. \A i, j \in DOMAIN less : EndedAt(less, i, id) /\ EndedAt(less, j, id) => i = j
    BY <2>1, <2>2, <1>6
  <2>4. \A i \in DOMAIN reqs, j \in DOMAIN less : ~(AskedAt(reqs, i, id) /\ EndedAt(less, j, id))
    BY <2>1, <2>2
  <2>5. id = asked.id => (\A i \in DOMAIN less : ~EndedAt(less, i, id)) /\ \A i \in DOMAIN reqs : ~AskedAt(reqs, i, id)
    BY <2>1, <2>2, <1>3, <1>4
  <2>6. id # asked.id => ((\E i \in DOMAIN less : EndedAt(less, i, id)) <=> (\E i \in DOMAIN resps : EndedAt(resps, i, id)))
    BY <1>2, <1>3, <1>4, <1>5
  <2> QED BY <2>1, <2>3, <2>4, <2>5, <2>6, <1>8
<1>10. CarriedBy(left, reqs, less)
  BY <1>7, <1>9 DEF CarriedBy
<1> QED BY <1>10 DEF less, left

-----------------------------------------------------------------------------
(***************************************************************************)
(* ... of InOrderOf ...                                                    *)
(***************************************************************************)
LEMMA SentInOrder ==
  ASSUME NEW received, NEW resps \in Seq(Response), NEW response \in Response,
         response.type \in {"opened", "failed"}, InOrderOf(received, resps)
  PROVE  InOrderOf(received, Append(resps, response))
<1> DEFINE more == Append(resps, response)
           last == Len(resps) + 1
<1>1. /\ DOMAIN resps = 1 .. Len(resps) /\ DOMAIN more = 1 .. Len(resps) + 1 /\ Len(resps) \in Nat
      /\ \A i \in 1 .. Len(resps) : more[i] = resps[i]
      /\ more[last] = response
  BY AppendHas
<1> HIDE DEF more
<1>2. \A i \in DOMAIN more : i \in DOMAIN resps \/ i = last
  BY <1>1
<1>3. \A i \in DOMAIN resps : more[i] = resps[i] /\ i \in DOMAIN more /\ 1 .. i - 1 \subseteq DOMAIN resps
  BY <1>1
<1>4. ~AnswerAt(more, last) /\ more[last].type # "done"
  BY <1>1 DEF AnswerAt
<1> HIDE DEF last
<1>5. ASSUME NEW i \in DOMAIN more
      PROVE  /\ AnswerAt(more, i) =>
                  \E j \in DOMAIN more : /\ i < j /\ more[j].type = "done" /\ more[j].id = more[i].id
             /\ more[i].type = "done" =>
                  \/ \E result \in received : result.id = more[i].id
                  \/ \E j \in 1 .. i - 1 : more[j].type = "result" /\ more[j].id = more[i].id
  <2>1. CASE i = last
    BY <1>4, <2>1
  <2>2. CASE i \in DOMAIN resps
    <3>1. /\ AnswerAt(resps, i) =>
               \E j \in DOMAIN resps : /\ i < j /\ resps[j].type = "done" /\ resps[j].id = resps[i].id
          /\ resps[i].type = "done" =>
               \/ \E result \in received : result.id = resps[i].id
               \/ \E j \in 1 .. i - 1 : resps[j].type = "result" /\ resps[j].id = resps[i].id
      BY <2>2 DEF InOrderOf
    <3> QED BY <1>3, <2>2, <3>1 DEF AnswerAt
  <2> QED BY <1>2, <2>1, <2>2
<1>6. InOrderOf(received, more)
  BY <1>5 DEF InOrderOf
<1> QED BY <1>6 DEF more

LEMMA ReplyInOrder ==
  ASSUME NEW received, NEW resps \in Seq(Response), NEW reply, NEW request, NEW feed,
         IsReply(reply, request, feed), InOrderOf(received, resps)
  PROVE  InOrderOf(received, resps \o reply)
<1> DEFINE more == resps \o reply
           last == Len(resps) + Len(reply)
<1>1. /\ reply \in Seq(Response) /\ Len(reply) >= 1
      /\ reply[Len(reply)].type \in {"done", "failed"} /\ reply[Len(reply)].id = request.id
      /\ \A i \in 1 .. Len(reply) - 1 :
           AnswerAt(reply, i) /\ reply[Len(reply)].type = "done" /\ reply[i].id = request.id
      /\ reply[Len(reply)].type = "done" =>
           \E i \in 1 .. Len(reply) - 1 : reply[i].type = "result" /\ reply[i].id = request.id
  BY DEF IsReply
<1>2. /\ DOMAIN resps = 1 .. Len(resps) /\ DOMAIN more = 1 .. Len(resps) + Len(reply)
      /\ Len(resps) \in Nat /\ Len(reply) \in Nat
      /\ \A i \in 1 .. Len(resps) : more[i] = resps[i]
      /\ \A i \in 1 .. Len(reply) : more[Len(resps) + i] = reply[i]
  BY <1>1, ConcatHas
<1> HIDE DEF more
<1>3. \A i \in DOMAIN resps : more[i] = resps[i] /\ i \in DOMAIN more /\ 1 .. i - 1 \subseteq DOMAIN resps
  BY <1>2
<1>4. last \in DOMAIN more /\ more[last] = reply[Len(reply)]
  BY <1>1, <1>2
<1>5. ASSUME NEW i \in DOMAIN more, i \notin DOMAIN resps, i # last
      PROVE  /\ AnswerAt(more, i) /\ more[i].id = request.id /\ i < last
             /\ more[last].type = "done"
  <2>1. i - Len(resps) \in 1 .. Len(reply) - 1 /\ i = Len(resps) + (i - Len(resps))
        /\ i - Len(resps) \in 1 .. Len(reply) /\ i < last
    BY <1>2, <1>5
  <2>2. more[i] = reply[i - Len(resps)]
    BY <1>2, <2>1
  <2> QED BY <1>1, <1>4, <2>1, <2>2 DEF AnswerAt
<1>6. ASSUME NEW i \in DOMAIN more
      PROVE  /\ AnswerAt(more, i) =>
                  \E j \in DOMAIN more : /\ i < j /\ more[j].type = "done" /\ more[j].id = more[i].id
             /\ more[i].type = "done" =>
                  \/ \E result \in received : result.id = more[i].id
                  \/ \E j \in 1 .. i - 1 : more[j].type = "result" /\ more[j].id = more[i].id
  <2>1. CASE i \in DOMAIN resps
    <3>1. /\ AnswerAt(resps, i) =>
               \E j \in DOMAIN resps : /\ i < j /\ resps[j].type = "done" /\ resps[j].id = resps[i].id
          /\ resps[i].type = "done" =>
               \/ \E result \in received : result.id = resps[i].id
               \/ \E j \in 1 .. i - 1 : resps[j].type = "result" /\ resps[j].id = resps[i].id
      BY <2>1 DEF InOrderOf
    <3> QED BY <1>3, <2>1, <3>1 DEF AnswerAt
  <2>2. CASE i = last
    <3>1. ~AnswerAt(more, i) /\ more[i].id = request.id
      BY <1>1, <1>4, <2>2 DEF AnswerAt
    <3>2. more[i].type = "done" =>
            \E j \in 1 .. i - 1 : more[j].type = "result" /\ more[j].id = more[i].id
      <4>1. SUFFICES ASSUME more[i].type = "done"
                     PROVE  \E j \in 1 .. i - 1 : more[j].type = "result" /\ more[j].id = request.id
        BY <3>1
      <4>2. PICK k \in 1 .. Len(reply) - 1 : reply[k].type = "result" /\ reply[k].id = request.id
        BY <1>1, <1>4, <2>2, <4>1
      <4>3. Len(resps) + k \in 1 .. i - 1 /\ more[Len(resps) + k] = reply[k]
        BY <1>2, <2>2
      <4> QED BY <4>2, <4>3
    <3> QED BY <3>1, <3>2
  <2>3. CASE i \notin DOMAIN resps /\ i # last
    <3>1. more[i].type # "done" /\ more[last].id = request.id
      BY <1>1, <1>4, <1>5, <2>3 DEF AnswerAt
    <3> QED BY <1>4, <1>5, <2>3, <3>1
  <2> QED BY <2>1, <2>2, <2>3
<1>7. InOrderOf(received, more)
  BY <1>6 DEF InOrderOf
<1> QED BY <1>7 DEF more

LEMMA HeardInOrder ==
  ASSUME NEW received, NEW left, NEW resps \in Seq(Response), resps # <<>>,
         InOrderOf(received, resps),
         \A i \in DOMAIN resps :
           i # 1 /\ resps[i].type = "done" /\ (\E result \in received : result.id = resps[i].id)
             => \E result \in left : result.id = resps[i].id,
         resps[1].type = "result" => \E result \in left : result.id = resps[1].id
  PROVE  InOrderOf(left, Tail(resps))
<1> DEFINE less == Tail(resps)
<1>1. /\ DOMAIN resps = 1 .. Len(resps) /\ DOMAIN less = 1 .. Len(resps) - 1 /\ Len(resps) \in Nat \ {0}
      /\ \A i \in 1 .. Len(resps) - 1 : less[i] = resps[i + 1]
  BY TailHas
<1> HIDE DEF less
<1>2. ASSUME NEW i \in DOMAIN less
      PROVE  /\ AnswerAt(less, i) =>
                  \E j \in DOMAIN less : /\ i < j /\ less[j].type = "done" /\ less[j].id = less[i].id
             /\ less[i].type = "done" =>
                  \/ \E result \in left : result.id = less[i].id
                  \/ \E j \in 1 .. i - 1 : less[j].type = "result" /\ less[j].id = less[i].id
  <2>1. i + 1 \in DOMAIN resps /\ less[i] = resps[i + 1] /\ i + 1 # 1
    BY <1>1
  <2>2. /\ AnswerAt(resps, i + 1) =>
             \E j \in DOMAIN resps : /\ i + 1 < j /\ resps[j].type = "done" /\ resps[j].id = resps[i + 1].id
        /\ resps[i + 1].type = "done" =>
             \/ \E result \in received : result.id = resps[i + 1].id
             \/ \E j \in 1 .. (i + 1) - 1 : resps[j].type = "result" /\ resps[j].id = resps[i + 1].id
    BY <2>1 DEF InOrderOf
  <2>3. ASSUME AnswerAt(less, i)
        PROVE  \E j \in DOMAIN less : /\ i < j /\ less[j].type = "done" /\ less[j].id = less[i].id
    <3>1. PICK j \in DOMAIN resps : i + 1 < j /\ resps[j].type = "done" /\ resps[j].id = resps[i + 1].id
      BY <2>1, <2>2, <2>3 DEF AnswerAt
    <3>2. j - 1 \in DOMAIN less /\ i < j - 1 /\ less[j - 1] = resps[j]
      BY <1>1, <3>1
    <3> QED BY <2>1, <3>1, <3>2
  <2>4. ASSUME less[i].type = "done"
        PROVE  \/ \E result \in left : result.id = less[i].id
               \/ \E j \in 1 .. i - 1 : less[j].type = "result" /\ less[j].id = less[i].id
    <3>1. CASE \E result \in received : result.id = resps[i + 1].id
      BY <2>1, <2>4, <3>1
    <3>2. CASE \E j \in 1 .. (i + 1) - 1 : resps[j].type = "result" /\ resps[j].id = resps[i + 1].id
      <4>1. PICK j \in 1 .. (i + 1) - 1 : resps[j].type = "result" /\ resps[j].id = resps[i + 1].id
        BY <3>2
      <4>2. CASE j = 1
        BY <2>1, <4>1, <4>2
      <4>3. CASE j # 1
        <5>1. j - 1 \in 1 .. i - 1 /\ less[j - 1] = resps[j]
          BY <1>1, <4>3
        <5> QED BY <2>1, <4>1, <5>1
      <4> QED BY <4>2, <4>3
    <3> QED BY <2>1, <2>2, <2>4, <3>1, <3>2
  <2> QED BY <2>3, <2>4
<1>3. InOrderOf(left, less)
  BY <1>2 DEF InOrderOf
<1> QED BY <1>3 DEF less

-----------------------------------------------------------------------------
(***************************************************************************)
(* ... of RoutedIn ...                                                     *)
(***************************************************************************)
LEMMA OpenIsRouted ==
  ASSUME NEW pend, NEW reqs \in Seq(Request), NEW resps, NEW request \in Request,
         request.type = "open", RoutedIn(pend, reqs, resps)
  PROVE  RoutedIn(pend, Append(reqs, request), resps)
<1> DEFINE more == Append(reqs, request)
<1>1. /\ DOMAIN reqs = 1 .. Len(reqs) /\ DOMAIN more = 1 .. Len(reqs) + 1 /\ Len(reqs) \in Nat
      /\ \A i \in 1 .. Len(reqs) : more[i] = reqs[i]
      /\ more[Len(reqs) + 1] = request
  BY AppendHas
<1> HIDE DEF more
<1>2. \A i \in DOMAIN more : i \in DOMAIN reqs \/ i = Len(reqs) + 1
  BY <1>1
<1>3. \A id : ~AskedAt(more, Len(reqs) + 1, id)
  BY <1>1 DEF AskedAt, Kinds
<1>4. \A id : \A i \in DOMAIN reqs : more[i] = reqs[i] /\ (AskedAt(more, i, id) <=> AskedAt(reqs, i, id))
  BY <1>1 DEF AskedAt
<1>5. RoutedIn(pend, more, resps)
  BY <1>2, <1>3, <1>4 DEF RoutedIn
<1> QED BY <1>5 DEF more

LEMMA AskIsRouted ==
  ASSUME NEW pend, NEW reqs \in Seq(Request), NEW resps \in Seq(Response), NEW request \in Request,
         NEW question, NEW received,
         request.type \in Kinds, question.id = request.id, question.route = request.route,
         \A asked \in pend : asked.id # question.id,
         CarriedBy(pend, reqs, resps), InOrderOf(received, resps), RoutedIn(pend, reqs, resps)
  PROVE  RoutedIn(pend \cup {question}, Append(reqs, request), resps)
<1> DEFINE more == Append(reqs, request)
           last == Len(reqs) + 1
           id1 == request.id
<1>1. /\ DOMAIN reqs = 1 .. Len(reqs) /\ DOMAIN more = 1 .. Len(reqs) + 1 /\ Len(reqs) \in Nat
      /\ \A i \in 1 .. Len(reqs) : more[i] = reqs[i]
      /\ more[last] = request
  BY AppendHas
<1> HIDE DEF more
<1>2. \A i \in DOMAIN more : i \in DOMAIN reqs \/ i = last
  BY <1>1
<1>3. \A id : \A i \in DOMAIN reqs : more[i] = reqs[i] /\ (AskedAt(more, i, id) <=> AskedAt(reqs, i, id))
  BY <1>1 DEF AskedAt
<1>4. id1 \in Nat
  BY RequestsAre, request.type # "open" DEF Kinds
<1>5. /\ \A i \in DOMAIN reqs : ~AskedAt(reqs, i, id1)
      /\ \A i \in DOMAIN resps : ~EndedAt(resps, i, id1)
  BY <1>4 DEF CarriedBy
<1>6. \A i \in DOMAIN resps : AnswerAt(resps, i) => resps[i].id # id1
  BY <1>5 DEF InOrderOf, EndedAt
<1>7. \A id : AskedAt(more, last, id) => id = id1
  BY <1>1 DEF AskedAt
<1> HIDE DEF last
<1>8. ASSUME NEW asked \in pend \cup {question}
      PROVE  /\ \A i \in DOMAIN more : AskedAt(more, i, asked.id) => more[i].route = asked.route
             /\ \A i \in DOMAIN resps :
                  AnswerAt(resps, i) /\ resps[i].id = asked.id => resps[i].value.route = asked.route
  <2>1. CASE asked = question
    BY <1>1, <1>2, <1>3, <1>5, <1>6, <2>1
  <2>2. CASE asked \in pend
    <3>1. asked.id # id1
      BY <2>2
    <3>2. \A i \in DOMAIN reqs : AskedAt(reqs, i, asked.id) => reqs[i].route = asked.route
      BY <2>2 DEF RoutedIn
    <3>3. \A i \in DOMAIN resps :
            AnswerAt(resps, i) /\ resps[i].id = asked.id => resps[i].value.route = asked.route
      BY <2>2 DEF RoutedIn
    <3> HIDE DEF id1
    <3> QED BY <1>2, <1>3, <1>7, <3>1, <3>2, <3>3
  <2> QED BY <2>1, <2>2
<1>9. RoutedIn(pend \cup {question}, more, resps)
  BY <1>8 DEF RoutedIn
<1> QED BY <1>9 DEF more

LEMMA HandledOpenIsRouted ==
  ASSUME NEW pend, NEW reqs \in Seq(Request), NEW resps, reqs # <<>>, RoutedIn(pend, reqs, resps)
  PROVE  RoutedIn(pend, Tail(reqs), resps)
<1> DEFINE less == Tail(reqs)
<1>1. /\ DOMAIN reqs = 1 .. Len(reqs) /\ DOMAIN less = 1 .. Len(reqs) - 1 /\ Len(reqs) \in Nat \ {0}
      /\ \A i \in 1 .. Len(reqs) - 1 : less[i] = reqs[i + 1]
  BY TailHas
<1> HIDE DEF less
<1>2. \A i \in DOMAIN less : i + 1 \in DOMAIN reqs /\ less[i] = reqs[i + 1]
  BY <1>1
<1>3. \A id : \A i \in DOMAIN less : AskedAt(less, i, id) => AskedAt(reqs, i + 1, id)
  BY <1>2 DEF AskedAt
<1>4. RoutedIn(pend, less, resps)
  BY <1>2, <1>3 DEF RoutedIn
<1> QED BY <1>4 DEF less

LEMMA ReplyIsRouted ==
  ASSUME NEW pend, NEW reqs \in Seq(Request), NEW resps \in Seq(Response), reqs # <<>>,
         NEW reply, NEW feed, reqs[1].type \in Kinds, IsReply(reply, reqs[1], feed),
         RoutedIn(pend, reqs, resps)
  PROVE  RoutedIn(pend, reqs, resps \o reply)
<1> DEFINE more == resps \o reply
           last == Len(resps) + Len(reply)
<1>0. 1 \in DOMAIN reqs
  BY TailHas
<1>1. /\ reply \in Seq(Response) /\ Len(reply) >= 1
      /\ reply[Len(reply)].type \in {"done", "failed"}
      /\ \A i \in 1 .. Len(reply) - 1 :
           reply[i].id = reqs[1].id /\ reply[i].value.route = reqs[1].route
  BY DEF IsReply
<1>2. /\ DOMAIN resps = 1 .. Len(resps) /\ DOMAIN more = 1 .. Len(resps) + Len(reply)
      /\ Len(resps) \in Nat /\ Len(reply) \in Nat
      /\ \A i \in 1 .. Len(resps) : more[i] = resps[i]
      /\ \A i \in 1 .. Len(reply) : more[Len(resps) + i] = reply[i]
  BY <1>1, ConcatHas
<1> HIDE DEF more
<1>3. ASSUME NEW i \in DOMAIN more, i \notin DOMAIN resps, AnswerAt(more, i)
      PROVE  more[i].id = reqs[1].id /\ more[i].value.route = reqs[1].route
  <2>1. i - Len(resps) \in 1 .. Len(reply) /\ i = Len(resps) + (i - Len(resps))
    BY <1>2, <1>3
  <2>2. more[i] = reply[i - Len(resps)]
    BY <1>2, <2>1
  <2>3. i - Len(resps) # Len(reply)
    BY <1>1, <1>3, <2>2 DEF AnswerAt
  <2>4. i - Len(resps) \in 1 .. Len(reply) - 1
    BY <1>2, <2>1, <2>3
  <2> QED BY <1>1, <2>2, <2>4
<1>4. \A i \in DOMAIN resps : more[i] = resps[i] /\ (AnswerAt(more, i) => AnswerAt(resps, i))
  BY <1>2 DEF AnswerAt
<1>5. \A asked \in pend : reqs[1].id = asked.id => reqs[1].route = asked.route
  BY <1>0 DEF RoutedIn, AskedAt
<1>6. \A asked \in pend : \A i \in DOMAIN more :
        AnswerAt(more, i) /\ more[i].id = asked.id => more[i].value.route = asked.route
  BY <1>3, <1>4, <1>5 DEF RoutedIn
<1>7. RoutedIn(pend, reqs, more)
  BY <1>6 DEF RoutedIn
<1> QED BY <1>7 DEF more

LEMMA SentIsRouted ==
  ASSUME NEW pend, NEW reqs, NEW resps \in Seq(Response), NEW response \in Response,
         response.type \notin {"finding", "result"}, RoutedIn(pend, reqs, resps)
  PROVE  RoutedIn(pend, reqs, Append(resps, response))
<1> DEFINE more == Append(resps, response)
<1>1. /\ DOMAIN resps = 1 .. Len(resps) /\ DOMAIN more = 1 .. Len(resps) + 1 /\ Len(resps) \in Nat
      /\ \A i \in 1 .. Len(resps) : more[i] = resps[i]
      /\ more[Len(resps) + 1] = response
  BY AppendHas
<1> HIDE DEF more
<1>2. \A i \in DOMAIN more : i \in DOMAIN resps \/ i = Len(resps) + 1
  BY <1>1
<1>3. ~AnswerAt(more, Len(resps) + 1)
  BY <1>1 DEF AnswerAt
<1>4. \A i \in DOMAIN resps : more[i] = resps[i] /\ (AnswerAt(more, i) <=> AnswerAt(resps, i))
  BY <1>1 DEF AnswerAt
<1>5. RoutedIn(pend, reqs, more)
  BY <1>2, <1>3, <1>4 DEF RoutedIn
<1> QED BY <1>5 DEF more

LEMMA HeardIsRouted ==
  ASSUME NEW pend, NEW left, NEW reqs, NEW resps \in Seq(Response), resps # <<>>,
         left \subseteq pend, RoutedIn(pend, reqs, resps)
  PROVE  RoutedIn(left, reqs, Tail(resps))
<1> DEFINE less == Tail(resps)
<1>1. /\ DOMAIN resps = 1 .. Len(resps) /\ DOMAIN less = 1 .. Len(resps) - 1 /\ Len(resps) \in Nat \ {0}
      /\ \A i \in 1 .. Len(resps) - 1 : less[i] = resps[i + 1]
  BY TailHas
<1> HIDE DEF less
<1>2. \A i \in DOMAIN less : i + 1 \in DOMAIN resps /\ less[i] = resps[i + 1]
  BY <1>1
<1>3. \A i \in DOMAIN less : AnswerAt(less, i) => AnswerAt(resps, i + 1)
  BY <1>2 DEF AnswerAt
<1>4. RoutedIn(left, reqs, less)
  BY <1>2, <1>3 DEF RoutedIn
<1> QED BY <1>4 DEF less

-----------------------------------------------------------------------------
(***************************************************************************)
(* ... and of ToldBy.                                                      *)
(***************************************************************************)
LEMMA ClosedIsTold ==
  ASSUME NEW named, NEW feed, NEW resps, ToldBy(named, feed, resps)
  PROVE  ToldBy(None, feed, resps)
BY DEF ToldBy

LEMMA FailureIsTold ==
  ASSUME NEW named, NEW feed, NEW resps \in Seq(Response), NEW response \in Response,
         response.type = "failed", ToldBy(named, feed, resps)
  PROVE  ToldBy(named, feed, Append(resps, response))
<1> DEFINE more == Append(resps, response)
<1>1. /\ DOMAIN resps = 1 .. Len(resps) /\ DOMAIN more = 1 .. Len(resps) + 1 /\ Len(resps) \in Nat
      /\ \A i \in 1 .. Len(resps) : more[i] = resps[i]
      /\ more[Len(resps) + 1] = response
  BY AppendHas
<1> HIDE DEF more
<1>2. \A i \in DOMAIN more : i \in DOMAIN resps \/ i = Len(resps) + 1
  BY <1>1
<1>3. ~AnswerAt(more, Len(resps) + 1) /\ ~OpenedAt(more, Len(resps) + 1)
  BY <1>1 DEF AnswerAt, OpenedAt
<1>4. \A i \in DOMAIN resps : /\ i \in DOMAIN more /\ more[i] = resps[i]
                              /\ (AnswerAt(more, i) <=> AnswerAt(resps, i))
                              /\ (OpenedAt(more, i) <=> OpenedAt(resps, i))
  BY <1>1 DEF AnswerAt, OpenedAt
<1>5. \A i, j \in DOMAIN more :
       /\ AnswerAt(more, i) /\ OpenedAt(more, j) /\ j < i
       /\ \A k \in DOMAIN more : j < k /\ k < i => ~OpenedAt(more, k)
       => more[i].value.feed = more[j].feed
  BY <1>2, <1>3, <1>4 DEF ToldBy
<1>6. \A i \in DOMAIN more :
       /\ AnswerAt(more, i) /\ named # None
       /\ \A k \in DOMAIN more : k < i => ~OpenedAt(more, k)
       => more[i].value.feed = named
  BY <1>2, <1>3, <1>4 DEF ToldBy
<1>7. \A j \in DOMAIN more :
       /\ OpenedAt(more, j)
       /\ \A k \in DOMAIN more : j < k => ~OpenedAt(more, k)
       => feed = more[j].feed
  BY <1>2, <1>3, <1>4 DEF ToldBy
<1>8. named # None /\ (\A k \in DOMAIN more : ~OpenedAt(more, k)) => feed = named
  BY <1>2, <1>3, <1>4 DEF ToldBy
<1>9. ToldBy(named, feed, more)
  BY <1>5, <1>6, <1>7, <1>8 DEF ToldBy
<1> QED BY <1>9 DEF more

LEMMA OpeningIsTold ==
  ASSUME NEW named, NEW feed, NEW next, NEW resps \in Seq(Response), NEW response \in Response,
         response.type = "opened", response.feed = next, ToldBy(named, feed, resps)
  PROVE  ToldBy(named, next, Append(resps, response))
<1> DEFINE more == Append(resps, response)
           last == Len(resps) + 1
<1>1. /\ DOMAIN resps = 1 .. Len(resps) /\ DOMAIN more = 1 .. Len(resps) + 1 /\ Len(resps) \in Nat
      /\ \A i \in 1 .. Len(resps) : more[i] = resps[i]
      /\ more[last] = response
  BY AppendHas
<1> HIDE DEF more
<1>2. \A i \in DOMAIN more : i \in DOMAIN resps \/ i = last
  BY <1>1
<1>3. ~AnswerAt(more, last) /\ OpenedAt(more, last) /\ last \in DOMAIN more /\ more[last].feed = next
  BY <1>1 DEF AnswerAt, OpenedAt
<1>4. \A i \in DOMAIN resps : /\ i \in DOMAIN more /\ more[i] = resps[i] /\ i < last
                              /\ (AnswerAt(more, i) <=> AnswerAt(resps, i))
                              /\ (OpenedAt(more, i) <=> OpenedAt(resps, i))
  BY <1>1 DEF AnswerAt, OpenedAt
<1>l. last \in Nat /\ DOMAIN resps \subseteq Nat /\ last \notin DOMAIN resps
  BY <1>1
<1> HIDE DEF last
<1>5. ASSUME NEW i \in DOMAIN more, NEW j \in DOMAIN more,
             AnswerAt(more, i), OpenedAt(more, j), j < i,
             \A k \in DOMAIN more : j < k /\ k < i => ~OpenedAt(more, k)
      PROVE  more[i].value.feed = more[j].feed
  <2>1. i \in DOMAIN resps
    BY <1>2, <1>3, <1>5
  <2>2. j \in DOMAIN resps
    BY <1>2, <1>4, <1>5, <2>1, <1>l
  <2> QED BY <1>4, <1>5, <2>1, <2>2 DEF ToldBy
<1>6. \A i \in DOMAIN more :
       /\ AnswerAt(more, i) /\ named # None
       /\ \A k \in DOMAIN more : k < i => ~OpenedAt(more, k)
       => more[i].value.feed = named
  BY <1>2, <1>3, <1>4 DEF ToldBy
<1>7. \A j \in DOMAIN more :
       /\ OpenedAt(more, j)
       /\ \A k \in DOMAIN more : j < k => ~OpenedAt(more, k)
       => next = more[j].feed
  BY <1>2, <1>3, <1>4
<1>8. ~(\A k \in DOMAIN more : ~OpenedAt(more, k))
  BY <1>3
<1>9. ToldBy(named, next, more)
  BY <1>5, <1>6, <1>7, <1>8 DEF ToldBy
<1> QED BY <1>9 DEF more

LEMMA ReplyIsTold ==
  ASSUME NEW named, NEW feed, NEW resps \in Seq(Response), NEW reply, NEW request,
         IsReply(reply, request, feed), ToldBy(named, feed, resps)
  PROVE  ToldBy(named, feed, resps \o reply)
<1> DEFINE more == resps \o reply
<1>1. /\ reply \in Seq(Response) /\ Len(reply) >= 1
      /\ reply[Len(reply)].type \in {"done", "failed"}
      /\ \A i \in 1 .. Len(reply) - 1 : AnswerAt(reply, i) /\ reply[i].value.feed = feed
  BY DEF IsReply
<1>2. /\ DOMAIN resps = 1 .. Len(resps) /\ DOMAIN more = 1 .. Len(resps) + Len(reply)
      /\ Len(resps) \in Nat /\ Len(reply) \in Nat
      /\ \A i \in 1 .. Len(resps) : more[i] = resps[i]
      /\ \A i \in 1 .. Len(reply) : more[Len(resps) + i] = reply[i]
  BY <1>1, ConcatHas
<1> HIDE DEF more
<1>3. ASSUME NEW i \in DOMAIN more, i \notin DOMAIN resps
      PROVE  ~OpenedAt(more, i) /\ (AnswerAt(more, i) => more[i].value.feed = feed)
             /\ \A k \in DOMAIN resps : k < i
  <2>1. i - Len(resps) \in 1 .. Len(reply) /\ i = Len(resps) + (i - Len(resps))
        /\ \A k \in DOMAIN resps : k < i
    BY <1>2, <1>3
  <2>2. more[i] = reply[i - Len(resps)]
    BY <1>2, <2>1
  <2>3. CASE i - Len(resps) = Len(reply)
    BY <1>1, <2>1, <2>2, <2>3 DEF AnswerAt, OpenedAt
  <2>4. CASE i - Len(resps) # Len(reply)
    <3>1. i - Len(resps) \in 1 .. Len(reply) - 1
      BY <1>2, <2>1, <2>4
    <3> QED BY <1>1, <2>1, <2>2, <3>1 DEF AnswerAt, OpenedAt
  <2> QED BY <2>3, <2>4
<1>4. \A i \in DOMAIN resps : /\ i \in DOMAIN more /\ more[i] = resps[i]
                              /\ (AnswerAt(more, i) <=> AnswerAt(resps, i))
                              /\ (OpenedAt(more, i) <=> OpenedAt(resps, i))
  BY <1>2 DEF AnswerAt, OpenedAt
<1>5. ASSUME NEW i \in DOMAIN more, NEW j \in DOMAIN more,
             AnswerAt(more, i), OpenedAt(more, j), j < i,
             \A k \in DOMAIN more : j < k /\ k < i => ~OpenedAt(more, k)
      PROVE  more[i].value.feed = more[j].feed
  <2>1. j \in DOMAIN resps /\ OpenedAt(resps, j) /\ more[j] = resps[j]
    BY <1>3, <1>4, <1>5
  <2>2. CASE i \in DOMAIN resps
    BY <1>4, <1>5, <2>1, <2>2 DEF ToldBy
  <2>3. CASE i \notin DOMAIN resps
    <3>1. more[i].value.feed = feed /\ \A k \in DOMAIN resps : k < i
      BY <1>3, <1>5, <2>3
    <3>2. \A k \in DOMAIN resps : j < k => ~OpenedAt(resps, k)
      BY <1>4, <1>5, <3>1
    <3>3. feed = resps[j].feed
      BY <2>1, <3>2 DEF ToldBy
    <3> QED BY <2>1, <3>1, <3>3
  <2> QED BY <2>2, <2>3
<1>6. ASSUME NEW i \in DOMAIN more, AnswerAt(more, i), named # None,
             \A k \in DOMAIN more : k < i => ~OpenedAt(more, k)
      PROVE  more[i].value.feed = named
  <2>1. CASE i \in DOMAIN resps
    BY <1>4, <1>6, <2>1 DEF ToldBy
  <2>2. CASE i \notin DOMAIN resps
    <3>1. more[i].value.feed = feed /\ \A k \in DOMAIN resps : k < i
      BY <1>3, <1>6, <2>2
    <3>2. \A k \in DOMAIN resps : ~OpenedAt(resps, k)
      BY <1>4, <1>6, <3>1
    <3>3. feed = named
      BY <1>6, <3>2 DEF ToldBy
    <3> QED BY <3>1, <3>3
  <2> QED BY <2>1, <2>2
<1>7. \A j \in DOMAIN more :
       /\ OpenedAt(more, j)
       /\ \A k \in DOMAIN more : j < k => ~OpenedAt(more, k)
       => feed = more[j].feed
  BY <1>3, <1>4 DEF ToldBy
<1>8. named # None /\ (\A k \in DOMAIN more : ~OpenedAt(more, k)) => feed = named
  BY <1>4 DEF ToldBy
<1>9. ToldBy(named, feed, more)
  BY <1>5, <1>6, <1>7, <1>8 DEF ToldBy
<1> QED BY <1>9 DEF more

LEMMA HeardIsTold ==
  ASSUME NEW named, NEW named2, NEW feed, NEW resps \in Seq(Response), resps # <<>>,
         IF OpenedAt(resps, 1) THEN named2 = resps[1].feed ELSE named2 = named,
         ToldBy(named, feed, resps)
  PROVE  ToldBy(named2, feed, Tail(resps))
<1> DEFINE less == Tail(resps)
<1>1. /\ DOMAIN resps = 1 .. Len(resps) /\ DOMAIN less = 1 .. Len(resps) - 1 /\ Len(resps) \in Nat \ {0}
      /\ \A i \in 1 .. Len(resps) - 1 : less[i] = resps[i + 1]
  BY TailHas
<1> HIDE DEF less
<1>2. \A i \in DOMAIN less : /\ i + 1 \in DOMAIN resps /\ less[i] = resps[i + 1]
                             /\ i \in Nat /\ 1 < i + 1
  BY <1>1
<1>3. \A i \in DOMAIN less : /\ AnswerAt(less, i) <=> AnswerAt(resps, i + 1)
                             /\ OpenedAt(less, i) <=> OpenedAt(resps, i + 1)
  BY <1>2 DEF AnswerAt, OpenedAt
<1>4. 1 \in DOMAIN resps /\ DOMAIN resps \subseteq Nat
      /\ \A i \in DOMAIN resps : i = 1 \/ (i - 1 \in DOMAIN less /\ i = (i - 1) + 1 /\ i > 1)
  BY <1>1
<1>5. ASSUME NEW i \in DOMAIN less, NEW j \in DOMAIN less,
             AnswerAt(less, i), OpenedAt(less, j), j < i,
             \A k \in DOMAIN less : j < k /\ k < i => ~OpenedAt(less, k)
      PROVE  less[i].value.feed = less[j].feed
  <2>1. i + 1 \in DOMAIN resps /\ j + 1 \in DOMAIN resps /\ j + 1 < i + 1
        /\ AnswerAt(resps, i + 1) /\ OpenedAt(resps, j + 1)
    BY <1>2, <1>3, <1>5
  <2>2. \A k \in DOMAIN resps : j + 1 < k /\ k < i + 1 => ~OpenedAt(resps, k)
    <3>1. SUFFICES ASSUME NEW k \in DOMAIN resps, j + 1 < k, k < i + 1 PROVE ~OpenedAt(resps, k)
      OBVIOUS
    <3>2. k - 1 \in DOMAIN less /\ k = (k - 1) + 1 /\ j < k - 1 /\ k - 1 < i
      BY <1>2, <1>4, <3>1
    <3>3. ~OpenedAt(less, k - 1)
      BY <1>5, <3>2
    <3> QED BY <1>3, <3>2, <3>3
  <2>3. resps[i + 1].value.feed = resps[j + 1].feed
    BY <2>1, <2>2 DEF ToldBy
  <2> QED BY <1>2, <2>3
<1>6. ASSUME NEW i \in DOMAIN less, AnswerAt(less, i), named2 # None,
             \A k \in DOMAIN less : k < i => ~OpenedAt(less, k)
      PROVE  less[i].value.feed = named2
  <2>1. i + 1 \in DOMAIN resps /\ 1 < i + 1 /\ AnswerAt(resps, i + 1) /\ less[i] = resps[i + 1]
    BY <1>2, <1>3, <1>6
  <2>2. \A k \in DOMAIN resps : 1 < k /\ k < i + 1 => ~OpenedAt(resps, k)
    <3>1. SUFFICES ASSUME NEW k \in DOMAIN resps, 1 < k, k < i + 1 PROVE ~OpenedAt(resps, k)
      OBVIOUS
    <3>2. k - 1 \in DOMAIN less /\ k = (k - 1) + 1 /\ k - 1 < i
      BY <1>2, <1>4, <3>1
    <3>3. ~OpenedAt(less, k - 1)
      BY <1>6, <3>2
    <3> QED BY <1>3, <3>2, <3>3
  <2>3. CASE OpenedAt(resps, 1)
    <3>1. resps[i + 1].value.feed = resps[1].feed
      BY <1>4, <2>1, <2>2, <2>3 DEF ToldBy
    <3> QED BY <2>1, <2>3, <3>1
  <2>4. CASE ~OpenedAt(resps, 1)
    <3>1. \A k \in DOMAIN resps : k < i + 1 => ~OpenedAt(resps, k)
      BY <1>4, <2>2, <2>4
    <3>2. resps[i + 1].value.feed = named
      BY <1>6, <2>1, <2>4, <3>1 DEF ToldBy
    <3> QED BY <2>1, <2>4, <3>2
  <2> QED BY <2>3, <2>4
<1>7. ASSUME NEW j \in DOMAIN less, OpenedAt(less, j),
             \A k \in DOMAIN less : j < k => ~OpenedAt(less, k)
      PROVE  feed = less[j].feed
  <2>1. j + 1 \in DOMAIN resps /\ OpenedAt(resps, j + 1) /\ less[j] = resps[j + 1]
    BY <1>2, <1>3, <1>7
  <2>2. \A k \in DOMAIN resps : j + 1 < k => ~OpenedAt(resps, k)
    <3>1. SUFFICES ASSUME NEW k \in DOMAIN resps, j + 1 < k PROVE ~OpenedAt(resps, k)
      OBVIOUS
    <3>2. k - 1 \in DOMAIN less /\ k = (k - 1) + 1 /\ j < k - 1
      BY <1>2, <1>4, <3>1
    <3>3. ~OpenedAt(less, k - 1)
      BY <1>7, <3>2
    <3> QED BY <1>3, <3>2, <3>3
  <2> QED BY <2>1, <2>2 DEF ToldBy
<1>8. ASSUME named2 # None, \A k \in DOMAIN less : ~OpenedAt(less, k)
      PROVE  feed = named2
  <2>1. \A k \in DOMAIN resps : k # 1 => ~OpenedAt(resps, k)
    BY <1>3, <1>4, <1>8
  <2>2. CASE OpenedAt(resps, 1)
    BY <1>4, <2>1, <2>2 DEF ToldBy
  <2>3. CASE ~OpenedAt(resps, 1)
    BY <1>4, <1>8, <2>1, <2>3 DEF ToldBy
  <2> QED BY <2>2, <2>3
<1>9. ToldBy(named2, feed, less)
  BY <1>5, <1>6, <1>7, <1>8 DEF ToldBy
<1> QED BY <1>9 DEF less

-----------------------------------------------------------------------------
(***************************************************************************)
(* The reader and the page: one lemma an action.                           *)
(***************************************************************************)
(* What is asked now is carried, and is about one route.                   *)
LEMMA AsksAreCarried ==
  ASSUME IInv, NEW number \in Nat, Asks(number)
  PROVE  /\ CarriedBy(pending', requests', responses)
         /\ RoutedIn(pending', requests', responses)
<1>1. /\ requests \in Seq(Request) /\ responses \in Seq(Response) /\ nextId \in Nat
      /\ hash \in Routes /\ \A asked \in pending : asked.id < nextId
      /\ CarriedBy(pending, requests, responses) /\ InOrderOf(results, responses)
      /\ RoutedIn(pending, requests, responses)
  BY DEF IInv, Messages, TypeOK
<1>2. CASE AsksNothing
  BY <1>1, <1>2 DEF AsksNothing
<1>3. ASSUME NEW kind \in Kinds, Ask(kind, hash, number)
      PROVE  /\ CarriedBy(pending', requests', responses)
             /\ RoutedIn(pending', requests', responses)
  <2> DEFINE question == [id |-> nextId, kind |-> kind, route |-> hash, rendering |-> number]
             request == [type |-> kind, id |-> nextId, route |-> hash]
  <2>1. pending' = pending \cup {question} /\ requests' = Append(requests, request)
    BY <1>3 DEF Ask
  <2>2. /\ request.type \in Kinds /\ question.id = request.id /\ question.route = request.route
        /\ question.id = nextId
    OBVIOUS
  <2>3. request \in Request
    BY <1>1 DEF Request
  <2> HIDE DEF question, request
  <2>4. \A asked \in pending : asked.id # question.id
    BY <1>1, <2>2
  <2>5. CarriedBy(pending \cup {question}, Append(requests, request), responses)
    BY ONLY <1>1, <2>2, <2>3, <2>4, AskIsCarried
  <2>6. RoutedIn(pending \cup {question}, Append(requests, request), responses)
    BY ONLY <1>1, <2>2, <2>3, <2>4, AskIsRouted
  <2> QED BY <2>1, <2>5, <2>6
<1> QED BY <1>2, <1>3 DEF Asks

LEMMA OpenFeedKeeps == ASSUME IInv, OpenFeed PROVE IInv'
<1> USE DEF IInv
<1>1. Messages
  OBVIOUS
<1>2. /\ opens' = opens + 1 /\ opens < MaxOpens /\ shown' = {"loading"} /\ pane' = Empty
      /\ manifest' = None
      /\ requests' = Append(requests, [type |-> "open", feed |-> opens + 1])
      /\ UNCHANGED <<hash, hashChanged, rendering, typed, timer, pending, results, nextId,
                     responses, opening, slot>>
  BY DEF OpenFeed, client, worker
<1>3. /\ TypeOK /\ requests \in Seq(Request) /\ responses \in Seq(Response)
      /\ nextId \in Nat \ {0} /\ opens \in Nat /\ MaxOpens \in Nat
      /\ results \subseteq [id : Nat, value : Value]
      /\ \A asked \in pending : 0 < asked.id /\ asked.id < nextId /\ asked.rendering <= rendering
  BY <1>1, BoundsAssumption DEF Messages
<1> DEFINE request == [type |-> "open", feed |-> opens + 1]
<1>4. request.type = "open" /\ opens + 1 \in Feeds
  BY <1>2, <1>3 DEF Feeds
<1>5. request \in Request
  BY <1>4 DEF Request
<1> HIDE DEF request
<1>6. requests' = Append(requests, request)
  BY <1>2 DEF request
<1>7. requests' \in Seq(Request)
  BY <1>3, <1>5, <1>6, AppendHas
<1>8. TypeOK'
  BY <1>2, <1>3, EmptyIsAPane DEF TypeOK, Panes
<1>9. Messages'
  BY <1>2, <1>3, <1>7, <1>8 DEF Messages
<1>10. CarriedBy(pending, requests', responses)
  BY <1>3, <1>4, <1>5, <1>6, OpenIsCarried
<1>11. RoutedIn(pending, requests', responses)
  BY <1>3, <1>4, <1>5, <1>6, OpenIsRouted
<1>12. ToldBy(None, slot, responses)
  BY ClosedIsTold
<1>13. Newest'
  BY <1>2 DEF Newest, NewestIsOnItsWay
<1> QED BY <1>2, <1>9, <1>10, <1>11, <1>12, <1>13

LEMMA CloseFeedKeeps == ASSUME IInv, CloseFeed PROVE IInv'
<1> USE DEF IInv
<1>1. Messages
  OBVIOUS
<1>2. /\ shown' = {"open"} \cup (shown \ {"app", "loading"}) /\ manifest' = None
      /\ hash' = Overview /\ hashChanged' = (hashChanged \/ Overview # hash)
      /\ UNCHANGED <<rendering, pane, typed, timer, pending, results, nextId,
                     requests, responses, opening, slot, opens>>
  BY DEF CloseFeed, GoTo, client, channel, worker
<1>3. TypeOK'
  BY <1>1, <1>2, RoutesAre DEF Messages, TypeOK
<1>4. Messages'
  BY <1>1, <1>2, <1>3 DEF Messages
<1>5. ToldBy(None, slot, responses)
  BY ClosedIsTold
<1>6. Newest'
  BY <1>2 DEF Newest, NewestIsOnItsWay
<1> QED BY <1>2, <1>4, <1>5, <1>6

(* The address changes and nothing else that the newest rendering is of.   *)
LEMMA MovesKeep ==
  ASSUME IInv, NEW route \in Routes, GoTo(route), timer' = None \/ timer' = timer,
         UNCHANGED <<manifest, rendering, shown, pane, typed, pending, results, nextId,
                     requests, responses, opening, slot, opens>>
  PROVE  IInv'
<1> USE DEF IInv
<1>1. hash' = route /\ hashChanged' = (hashChanged \/ route # hash)
  BY DEF GoTo
<1>2. TypeOK'
  BY <1>1 DEF Messages, TypeOK
<1>3. Messages'
  BY <1>2 DEF Messages
<1>4. Newest'
  <2>1. CASE route # hash
    BY <1>1, <2>1 DEF Newest, NewestIsOnItsWay
  <2>2. CASE route = hash
    <3>1. hash' = hash /\ (hashChanged => hashChanged')
      BY <1>1, <2>2
    <3> QED BY <3>1 DEF Newest, NewestIsOnItsWay
  <2> QED BY <2>1, <2>2
<1> QED BY <1>3, <1>4

LEMMA NavigateKeeps == ASSUME IInv, NEW route \in Routes, Navigate(route) PROVE IInv'
<1>1. /\ GoTo(route) /\ timer' = timer
      /\ UNCHANGED <<manifest, rendering, shown, pane, typed, pending, results, nextId,
                     requests, responses, opening, slot, opens>>
  BY DEF Navigate, client, channel, worker
<1> QED BY <1>1, MovesKeep

LEMMA TypingPausedKeeps == ASSUME IInv, TypingPaused PROVE IInv'
<1>1. /\ timer # None /\ timer' = None
      /\ IF hash.view = "file" THEN GoTo(FileView(hash.file, timer.value))
         ELSE UNCHANGED <<hash, hashChanged>>
      /\ UNCHANGED <<manifest, rendering, shown, pane, typed, pending, results, nextId,
                     requests, responses, opening, slot, opens>>
  BY DEF TypingPaused, client, channel, worker, reader
<1>2. hash \in Routes /\ timer.value \in Typing \cup {None}
  BY <1>1 DEF IInv, Messages, TypeOK
<1>3. CASE hash.view = "file"
  <2>1. FileView(hash.file, timer.value) \in Routes
    BY <1>2, <1>3, RoutesAre
  <2> QED BY <1>1, <1>3, <2>1, MovesKeep
<1>4. CASE hash.view # "file"
  <2>1. UNCHANGED <<hash, hashChanged>>
    BY <1>1, <1>4
  <2>2. TypeOK'
    BY <1>1, <2>1 DEF IInv, Messages, TypeOK
  <2>3. Messages'
    BY <1>1, <2>1, <2>2 DEF IInv, Messages
  <2>4. Newest'
    BY <1>1, <2>1 DEF IInv, Newest, NewestIsOnItsWay
  <2> QED BY <1>1, <2>3, <2>4 DEF IInv
<1> QED BY <1>3, <1>4

LEMMA TypeKeeps ==
  ASSUME IInv, NEW value \in Typing \cup {None}, Type(value) PROVE IInv'
<1> USE DEF IInv
<1>1. /\ typed' = [file |-> pane.route.file, value |-> value] /\ timer' = [value |-> value]
      /\ pane' = [pane EXCEPT !.box = value] /\ pane.route.view = "file"
      /\ UNCHANGED <<hash, hashChanged, manifest, rendering, shown, pending, results, nextId,
                     requests, responses, opening, slot, opens>>
  BY DEF Type, client, channel, worker
<1>2. pane \in Panes /\ pane.route \in Routes
  BY DEF Messages, TypeOK, Panes
<1>3. pane' \in Panes /\ pane'.kind = pane.kind /\ pane'.feed = pane.feed /\ pane'.route = pane.route
  BY <1>1, <1>2 DEF Panes
<1>4. typed' \in [file : FileNames, value : Typing \cup {None}]
      /\ timer' \in [value : Typing \cup {None}]
  BY <1>1, <1>2, RoutesAre
<1>5. TypeOK'
  BY <1>1, <1>3, <1>4 DEF Messages, TypeOK, Panes
<1>6. Messages'
  BY <1>1, <1>5 DEF Messages
<1>7. Newest'
  BY <1>1, <1>3 DEF Newest, NewestIsOnItsWay
<1> QED BY <1>1, <1>6, <1>7

LEMMA ExportKeeps == ASSUME IInv, Export PROVE IInv'
<1> USE DEF IInv
<1>1. /\ Ask("export", hash, 0)
      /\ UNCHANGED <<hash, hashChanged, manifest, rendering, shown, pane, typed, timer,
                     results, responses, opening, slot, opens>>
  BY DEF Export, page, worker
<1>2. Asks(0) /\ Messages /\ rendering \in Nat
  BY <1>1 DEF Asks, Kinds, Messages, TypeOK
<1>3. /\ requests' \in Seq(Request) /\ nextId' \in Nat \ {0} /\ nextId <= nextId'
      /\ pending' \subseteq Questions
      /\ \A asked \in pending' : 0 < asked.id /\ asked.id < nextId' /\ asked.rendering <= rendering'
  BY <1>1, <1>2, AsksAreTyped
<1>4. nextId \in Nat /\ \A result \in results : result.id \in 1 .. nextId - 1
  BY DEF Messages, TypeOK
<1>5. \A result \in results : result.id \in 1 .. nextId' - 1
  BY <1>3, <1>4
<1>6. TypeOK'
  BY <1>1, <1>2, <1>3, <1>5 DEF Messages, TypeOK
<1>7. Messages'
  BY <1>1, <1>2, <1>3, <1>6 DEF Messages
<1>8. CarriedBy(pending', requests', responses) /\ RoutedIn(pending', requests', responses)
  BY <1>2, AsksAreCarried
<1>9. Newest'
  <2> DEFINE question == [id |-> nextId, kind |-> "export", route |-> hash, rendering |-> 0]
  <2>1. pending' = pending \cup {question} /\ question.route = hash /\ question.id = nextId
    BY <1>1 DEF Ask
  <2> HIDE DEF question
  <2>2. \A result \in results : result.id # nextId
    BY <1>4
  <2> QED BY <1>1, <2>1, <2>2 DEF Newest, NewestIsOnItsWay
<1> QED BY <1>1, <1>7, <1>8, <1>9

(* A rendering: the newest is of the address, and of the feed.             *)
LEMMA RenderingIsNewest ==
  ASSUME Messages, NEW feed \in Feeds, Render(feed), manifest' = feed, hash' = hash,
         results' = results
  PROVE  Newest'
<1>1. /\ rendering' = rendering + 1 /\ Asks(rendering + 1)
      /\ \/ pane'.feed = feed /\ pane'.route = hash
         \/ \E kind \in Kinds : Ask(kind, hash, rendering + 1)
  BY RenderIs, NoneAssumption DEF Feeds
<1>2. /\ rendering \in Nat /\ nextId \in Nat /\ pending \subseteq Questions
      /\ \A result \in results : result.id \in 1 .. nextId - 1
      /\ \A asked \in pending : asked.rendering <= rendering
  BY DEF Messages, TypeOK
<1>3. \A asked \in pending : asked.rendering # rendering + 1
  <2>1. \A asked \in pending : asked.rendering \in Nat
    BY <1>2 DEF Questions
  <2> QED BY <1>2, <2>1
<1>4. \A result \in results : result.id # nextId
  BY <1>2
<1>5. CASE AsksNothing
  <2>1. pending' = pending
    BY <1>5 DEF AsksNothing
  <2>2. \A kind \in Kinds : ~Ask(kind, hash, rendering + 1)
    BY <1>2, <1>5 DEF Ask, AsksNothing
  <2> QED BY <1>1, <1>3, <2>1, <2>2 DEF Newest, NewestIsOnItsWay
<1>6. ASSUME NEW kind \in Kinds, Ask(kind, hash, rendering + 1) PROVE Newest'
  <2> DEFINE question == [id |-> nextId, kind |-> kind, route |-> hash, rendering |-> rendering + 1]
  <2>1. /\ pending' = pending \cup {question} /\ question.route = hash /\ question.id = nextId
        /\ question.rendering = rendering + 1
    BY <1>6 DEF Ask
  <2> HIDE DEF question
  <2>2. \E asked \in pending' : asked.rendering = rendering' /\ asked.route = hash'
    BY <1>1, <2>1
  <2>3. ASSUME NEW asked \in pending', asked.rendering = rendering'
        PROVE  asked.route = hash' /\ \A result \in results' : result.id # asked.id
    <3>1. asked = question
      BY <1>1, <1>3, <2>1, <2>3
    <3> QED BY <1>4, <2>1, <3>1
  <2> QED BY <2>2, <2>3 DEF Newest, NewestIsOnItsWay
<1> QED BY <1>1, <1>5, <1>6 DEF Asks

LEMMA HashChangeKeeps == ASSUME IInv, HashChange PROVE IInv'
<1> USE DEF IInv
<1>1. /\ hashChanged' = FALSE /\ Render(manifest)
      /\ UNCHANGED <<hash, manifest, shown, timer, results, responses, opening, slot, opens>>
  BY DEF HashChange, worker, reader
<1>2. Messages /\ manifest \in Feeds \cup {None}
  BY DEF Messages, TypeOK
<1>3. /\ pane' \in Panes /\ IsTyped(typed') /\ rendering' \in Nat
      /\ manifest = None => UNCHANGED <<rendering, pane, typed>> /\ AsksNothing
      /\ manifest # None => rendering' = rendering + 1 /\ Asks(rendering + 1)
  BY <1>1, <1>2, RenderIs
<1>4. rendering \in Nat /\ nextId \in Nat
  BY <1>2 DEF Messages, TypeOK
<1>5. PICK number \in Nat : Asks(number) /\ (rendering' = number \/ number = 0) /\ rendering <= rendering'
  <2>1. CASE manifest = None
    <3>1. 0 \in Nat /\ Asks(0) /\ rendering <= rendering'
      BY <1>3, <1>4, <2>1 DEF Asks
    <3> QED BY <3>1
  <2>2. CASE manifest # None
    <3>1. rendering + 1 \in Nat /\ rendering <= rendering'
      BY <1>3, <1>4, <2>2
    <3> QED BY <1>3, <2>2, <3>1
  <2> QED BY <2>1, <2>2
<1>6. /\ requests' \in Seq(Request) /\ nextId' \in Nat \ {0} /\ nextId <= nextId'
      /\ pending' \subseteq Questions
      /\ \A asked \in pending' : 0 < asked.id /\ asked.id < nextId' /\ asked.rendering <= rendering'
  BY ONLY <1>2, <1>3, <1>5, AsksAreTyped
<1>7. CarriedBy(pending', requests', responses) /\ RoutedIn(pending', requests', responses)
  BY <1>5, AsksAreCarried
<1>8. \A result \in results : result.id \in 1 .. nextId' - 1
  BY <1>2, <1>4, <1>6 DEF Messages, TypeOK
<1>9. TypeOK'
  BY <1>1, <1>2, <1>3, <1>6, <1>8 DEF Messages, TypeOK, Panes, IsTyped
<1>10. Messages'
  BY <1>1, <1>2, <1>6, <1>9 DEF Messages
<1>11. Newest'
  <2>1. CASE manifest = None
    BY <1>1, <2>1 DEF Newest, NewestIsOnItsWay
  <2>2. CASE manifest # None
    BY <1>1, <1>2, <2>2, RenderingIsNewest
  <2> QED BY <2>1, <2>2
<1> QED BY <1>1, <1>7, <1>10, <1>11

-----------------------------------------------------------------------------
(***************************************************************************)
(* The worker, and what is heard of it.                                    *)
(***************************************************************************)
LEMMA HandleKeeps == ASSUME IInv, Handle PROVE IInv'
<1> USE DEF IInv
<1> DEFINE request == Head(requests)
<1>1. /\ requests # <<>> /\ requests' = Tail(requests)
      /\ IF request.type = "open"
         THEN opening' = opening \cup {request.feed} /\ UNCHANGED responses
         ELSE responses' = responses \o Answer(request) /\ UNCHANGED opening
      /\ UNCHANGED <<hash, hashChanged, manifest, rendering, shown, pane, typed, timer,
                     pending, results, nextId, slot, opens>>
  BY DEF Handle, page, client, reader
<1>2. /\ requests \in Seq(Request) /\ responses \in Seq(Response) /\ slot \in Feeds \cup {None}
      /\ opening \subseteq Feeds
  BY DEF Messages, TypeOK
<1>3. /\ request \in Request /\ request = requests[1] /\ requests' \in Seq(Request)
  BY <1>1, <1>2, TailHas
<1> HIDE DEF request
<1>4. Newest'
  BY <1>1 DEF Newest, NewestIsOnItsWay
<1>5. CASE request.type = "open"
  <2>1. opening' = opening \cup {request.feed} /\ UNCHANGED responses
    BY <1>1, <1>5
  <2>2. TypeOK'
    BY <1>1, <1>2, <1>3, <1>5, <2>1, RequestsAre DEF Messages, TypeOK
  <2>3. Messages'
    BY <1>1, <1>3, <2>1, <2>2 DEF Messages
  <2>4. requests[1].type \notin Kinds
    BY <1>3, <1>5 DEF Kinds
  <2>5. CarriedBy(pending, Tail(requests), responses)
    BY <1>1, <1>2, <2>4, HandledOpenIsCarried
  <2>6. RoutedIn(pending, Tail(requests), responses)
    BY <1>1, <1>2, HandledOpenIsRouted
  <2> QED BY <1>1, <1>4, <2>1, <2>3, <2>5, <2>6
<1>6. CASE request.type # "open"
  <2> DEFINE reply == Answer(request)
  <2>1. responses' = responses \o reply /\ UNCHANGED opening
    BY <1>1, <1>6
  <2>2. requests[1].type \in Kinds /\ request \in [type : Kinds, id : Nat, route : Routes]
    BY <1>3, <1>6, RequestsAre
  <2>3. IsReply(reply, requests[1], slot)
    BY <1>2, <1>3, <2>2, RepliesAre
  <2> HIDE DEF reply
  <2>4. reply \in Seq(Response)
    BY <2>3 DEF IsReply
  <2>5. responses' \in Seq(Response)
    BY <1>2, <2>1, <2>4
  <2>6. TypeOK'
    BY <1>1, <2>1 DEF Messages, TypeOK
  <2>7. Messages'
    BY <1>1, <1>3, <2>5, <2>6 DEF Messages
  <2>8. CarriedBy(pending, Tail(requests), responses \o reply)
    BY <1>1, <1>2, <2>2, <2>3, ReplyIsCarried
  <2>9. RoutedIn(pending, requests, responses \o reply)
    BY <1>1, <1>2, <2>2, <2>3, ReplyIsRouted
  <2>10. RoutedIn(pending, Tail(requests), responses \o reply)
    BY <1>1, <1>2, <2>9, HandledOpenIsRouted
  <2>11. InOrderOf(results, responses \o reply)
    BY <1>2, <2>3, ReplyInOrder
  <2>12. ToldBy(manifest, slot, responses \o reply)
    BY <1>2, <2>3, ReplyIsTold
  <2> QED BY <1>1, <1>4, <2>1, <2>7, <2>8, <2>10, <2>11, <2>12
<1> QED BY <1>5, <1>6

LEMMA OpensKeeps == ASSUME IInv, NEW feed \in Feeds, Opens(feed) PROVE IInv'
<1> USE DEF IInv
<1> DEFINE response == [type |-> "opened", feed |-> feed]
<1>1. /\ opening' = opening \ {feed} /\ slot' = feed /\ responses' = Append(responses, response)
      /\ UNCHANGED <<hash, hashChanged, manifest, rendering, shown, pane, typed, timer,
                     pending, results, nextId, requests, opens>>
  BY DEF Opens, page, client, reader
<1>2. response \in Response /\ response.type = "opened" /\ response.feed = feed
  BY DEF Response
<1> HIDE DEF response
<1>3. responses \in Seq(Response)
  BY DEF Messages
<1>4. responses' \in Seq(Response)
  BY <1>1, <1>2, <1>3, AppendHas
<1>5. TypeOK'
  BY <1>1 DEF Messages, TypeOK
<1>6. Messages'
  BY <1>1, <1>4, <1>5 DEF Messages
<1>7. CarriedBy(pending, requests, Append(responses, response))
  BY <1>2, <1>3, SentIsCarried
<1>8. InOrderOf(results, Append(responses, response))
  BY <1>2, <1>3, SentInOrder
<1>9. RoutedIn(pending, requests, Append(responses, response))
  BY <1>2, <1>3, SentIsRouted
<1>10. ToldBy(manifest, feed, Append(responses, response))
  BY <1>2, <1>3, OpeningIsTold
<1>11. Newest'
  BY <1>1 DEF Newest, NewestIsOnItsWay
<1> QED BY <1>1, <1>6, <1>7, <1>8, <1>9, <1>10, <1>11

LEMMA CannotOpenKeeps == ASSUME IInv, NEW feed \in Feeds, CannotOpen(feed) PROVE IInv'
<1> USE DEF IInv
<1> DEFINE response == [type |-> "failed", id |-> None]
<1>1. /\ opening' = opening \ {feed} /\ responses' = Append(responses, response)
      /\ UNCHANGED <<hash, hashChanged, manifest, rendering, shown, pane, typed, timer,
                     pending, results, nextId, requests, slot, opens>>
  BY DEF CannotOpen, page, client, reader
<1>2. response \in Response /\ response.type = "failed" /\ response.id \notin Nat
  BY NoneAssumption DEF Response
<1> HIDE DEF response
<1>3. responses \in Seq(Response)
  BY DEF Messages
<1>4. responses' \in Seq(Response)
  BY <1>1, <1>2, <1>3, AppendHas
<1>5. TypeOK'
  BY <1>1 DEF Messages, TypeOK
<1>6. Messages'
  BY <1>1, <1>4, <1>5 DEF Messages
<1>7. CarriedBy(pending, requests, Append(responses, response))
  BY <1>2, <1>3, SentIsCarried
<1>8. InOrderOf(results, Append(responses, response))
  BY <1>2, <1>3, SentInOrder
<1>9. RoutedIn(pending, requests, Append(responses, response))
  BY <1>2, <1>3, SentIsRouted
<1>10. ToldBy(manifest, slot, Append(responses, response))
  BY <1>2, <1>3, FailureIsTold
<1>11. Newest'
  BY <1>1 DEF Newest, NewestIsOnItsWay
<1> QED BY <1>1, <1>6, <1>7, <1>8, <1>9, <1>10, <1>11

(* The message that is heard.                                              *)
LEMMA HeadIs ==
  ASSUME IInv, NEW type, Receive(type)
  PROVE  /\ responses # <<>> /\ responses' = Tail(responses)
         /\ responses \in Seq(Response) /\ responses' \in Seq(Response)
         /\ Head(responses) = responses[1] /\ responses[1].type = type
         /\ responses[1] \in Response /\ 1 \in DOMAIN responses
BY TailHas DEF Receive, IInv, Messages

LEMMA OpenedKeeps == ASSUME IInv, Opened PROVE IInv'
<1> USE DEF IInv
<1> DEFINE feed == responses[1].feed
<1>1. /\ responses # <<>> /\ responses' = Tail(responses)
      /\ responses \in Seq(Response) /\ responses' \in Seq(Response)
      /\ Head(responses) = responses[1] /\ responses[1].type = "opened"
      /\ responses[1] \in Response
  BY HeadIs DEF Opened
<1>2. /\ manifest' = feed /\ shown' = (shown \ {"loading"}) \cup {"app"} /\ Render(feed)
      /\ UNCHANGED <<hash, hashChanged, timer, results, opening, slot, opens>>
  BY <1>1 DEF Opened, worker, reader
<1>3. feed \in Feeds
  BY <1>1, ResponsesAre
<1> HIDE DEF feed
<1>4. Messages /\ feed # None
  BY <1>3, NoneAssumption DEF Feeds
<1>5. /\ pane' \in Panes /\ IsTyped(typed') /\ rendering' \in Nat
      /\ rendering' = rendering + 1 /\ Asks(rendering + 1)
  BY <1>2, <1>3, <1>4, RenderIs
<1>6. rendering \in Nat /\ nextId \in Nat
  BY <1>4 DEF Messages, TypeOK
<1>7. PICK number \in Nat : Asks(number) /\ rendering' = number /\ rendering <= rendering'
  <2>1. rendering + 1 \in Nat /\ rendering <= rendering'
    BY <1>5, <1>6
  <2> QED BY <1>5, <2>1
<1>8. /\ requests' \in Seq(Request) /\ nextId' \in Nat \ {0} /\ nextId <= nextId'
      /\ pending' \subseteq Questions
      /\ \A asked \in pending' : 0 < asked.id /\ asked.id < nextId' /\ asked.rendering <= rendering'
  BY ONLY <1>4, <1>5, <1>7, AsksAreTyped
<1>9. CarriedBy(pending', requests', responses) /\ RoutedIn(pending', requests', responses)
  BY <1>7, AsksAreCarried
<1>10. \A id : ~EndedAt(responses, 1, id)
  BY <1>1 DEF EndedAt
<1>11. CarriedBy(pending', requests', Tail(responses))
  BY ONLY <1>1, <1>9, <1>10, HeardIsCarried
<1>12. RoutedIn(pending', requests', Tail(responses))
  BY ONLY <1>1, <1>9, HeardIsRouted
<1>13. InOrderOf(results, Tail(responses))
  BY <1>1, HeardInOrder
<1>14. OpenedAt(responses, 1)
  BY <1>1 DEF OpenedAt
<1>15. ToldBy(feed, slot, Tail(responses))
  BY <1>1, <1>14, HeardIsTold DEF feed
<1>16. \A result \in results : result.id \in 1 .. nextId' - 1
  BY <1>4, <1>6, <1>8 DEF Messages, TypeOK
<1>17. TypeOK'
  BY <1>2, <1>3, <1>5, <1>8, <1>16 DEF Messages, TypeOK, Panes, IsTyped
<1>18. Messages'
  BY <1>1, <1>2, <1>8, <1>17 DEF Messages
<1>19. Newest'
  BY <1>2, <1>3, <1>4, RenderingIsNewest
<1> QED BY <1>1, <1>2, <1>11, <1>12, <1>13, <1>15, <1>18, <1>19

LEMMA FailKeeps == ASSUME IInv, Fail PROVE IInv'
<1> USE DEF IInv
<1>1. /\ responses # <<>> /\ responses' = Tail(responses)
      /\ responses \in Seq(Response) /\ responses' \in Seq(Response)
      /\ Head(responses) = responses[1] /\ responses[1].type = "failed"
      /\ responses[1] \in Response
  BY HeadIs DEF Fail
<1>2. /\ responses[1].id = None /\ shown' = {"app"} /\ pane' = Failure
      /\ UNCHANGED <<hash, hashChanged, manifest, rendering, typed, timer, pending, results,
                     nextId, requests, opening, slot, opens>>
  BY <1>1 DEF Fail, client, worker, reader
<1>3. \A id \in Nat : ~EndedAt(responses, 1, id)
  BY <1>2, NoneAssumption DEF EndedAt
<1>4. CarriedBy(pending, requests, Tail(responses))
  BY <1>1, <1>3, HeardIsCarried
<1>5. RoutedIn(pending, requests, Tail(responses))
  BY <1>1, HeardIsRouted
<1>6. InOrderOf(results, Tail(responses))
  BY <1>1, HeardInOrder
<1>7. ToldBy(manifest, slot, Tail(responses))
  BY <1>1, HeardIsTold DEF OpenedAt
<1>8. TypeOK'
  BY <1>2, EmptyIsAPane DEF Messages, TypeOK, Panes
<1>9. Messages'
  BY <1>1, <1>2, <1>8 DEF Messages
<1>10. Newest'
  BY <1>2, EmptyIsAPane DEF Newest, NewestIsOnItsWay
<1> QED BY <1>1, <1>2, <1>4, <1>5, <1>6, <1>7, <1>9, <1>10

(* An answer that comes first is of the feed that the page names.          *)
LEMMA FirstIsOfTheFeed ==
  ASSUME IInv, manifest # None, 1 \in DOMAIN responses, AnswerAt(responses, 1)
  PROVE  responses[1].value.feed = manifest
<1>1. DOMAIN responses = 1 .. Len(responses) /\ Len(responses) \in Nat
  BY DEF IInv, Messages
<1>2. \A k \in DOMAIN responses : ~(k < 1)
  BY <1>1
<1> QED BY <1>2 DEF IInv, ToldBy

LEMMA FindingKeeps == ASSUME IInv, Finding PROVE IInv'
<1> USE DEF IInv
<1>1. /\ responses # <<>> /\ responses' = Tail(responses)
      /\ responses \in Seq(Response) /\ responses' \in Seq(Response)
      /\ Head(responses) = responses[1] /\ responses[1].type = "finding"
      /\ responses[1] \in Response /\ 1 \in DOMAIN responses
  BY HeadIs DEF Finding
<1> DEFINE shows == \E asked \in Waiting(responses[1].id) : IsNewest(asked)
<1>2. /\ pane' = IF shows THEN Pane("checking", responses[1].value.feed,
                                    responses[1].value.route, None)
                 ELSE pane
      /\ UNCHANGED <<hash, hashChanged, manifest, rendering, shown, typed, timer, pending,
                     results, nextId, requests, opening, slot, opens>>
  BY <1>1 DEF Finding, client, worker, reader
<1>3. responses[1].value.feed \in Feeds /\ responses[1].value.route \in Routes
  BY <1>1, ResponsesAre DEF Value
<1>4. \A id : ~EndedAt(responses, 1, id)
  BY <1>1 DEF EndedAt
<1>5. CarriedBy(pending, requests, Tail(responses))
  BY <1>1, <1>4, HeardIsCarried
<1>6. RoutedIn(pending, requests, Tail(responses))
  BY <1>1, HeardIsRouted
<1>7. InOrderOf(results, Tail(responses))
  BY <1>1, HeardInOrder
<1>8. ToldBy(manifest, slot, Tail(responses))
  BY <1>1, HeardIsTold DEF OpenedAt
<1>9. pane' \in Panes
  BY <1>2, <1>3, PanesAre DEF Messages, TypeOK, Panes
<1>10. TypeOK'
  BY <1>2, <1>9 DEF Messages, TypeOK, Panes
<1>11. Messages'
  BY <1>1, <1>2, <1>10 DEF Messages
<1>12. Newest'
  <2>1. CASE shows
    <3>1. PICK asked \in pending : asked.rendering = rendering
      BY <2>1 DEF Waiting, IsNewest
    <3>2. manifest # None => hashChanged \/ asked.route = hash
      BY <3>1 DEF Newest
    <3> QED BY <1>2, <3>1, <3>2 DEF Newest, NewestIsOnItsWay
  <2>2. CASE ~shows
    <3>1. pane' = pane
      BY <1>2, <2>2
    <3> QED BY <1>2, <3>1 DEF Newest, NewestIsOnItsWay
  <2> QED BY <2>1, <2>2
<1> QED BY <1>1, <1>2, <1>5, <1>6, <1>7, <1>8, <1>11, <1>12

LEMMA ResultKeeps == ASSUME IInv, Result PROVE IInv'
<1> USE DEF IInv
<1> DEFINE new == [id |-> responses[1].id, value |-> responses[1].value]
<1>1. /\ responses # <<>> /\ responses' = Tail(responses)
      /\ responses \in Seq(Response) /\ responses' \in Seq(Response)
      /\ Head(responses) = responses[1] /\ responses[1].type = "result"
      /\ responses[1] \in Response /\ 1 \in DOMAIN responses
  BY HeadIs DEF Result
<1>2. /\ results' = results \cup {new}
      /\ UNCHANGED <<hash, hashChanged, manifest, rendering, shown, pane, typed, timer, pending,
                     nextId, requests, opening, slot, opens>>
  BY <1>1 DEF Result, page, worker, reader
<1>3. /\ responses[1].id \in Nat /\ responses[1].value \in Value
      /\ new.id = responses[1].id /\ new.value = responses[1].value
      /\ new \in [id : Nat, value : Value]
  BY <1>1, ResponsesAre
<1> HIDE DEF new
<1>4. \A id : ~EndedAt(responses, 1, id)
  BY <1>1 DEF EndedAt
<1>5. CarriedBy(pending, requests, Tail(responses))
  BY <1>1, <1>4, HeardIsCarried
<1>6. RoutedIn(pending, requests, Tail(responses))
  BY <1>1, HeardIsRouted
<1>7. InOrderOf(results \cup {new}, Tail(responses))
  BY <1>1, <1>3, HeardInOrder
<1>8. ToldBy(manifest, slot, Tail(responses))
  BY <1>1, HeardIsTold DEF OpenedAt
<1>9. \E asked \in pending : asked.id = new.id
  <2>1. AnswerAt(responses, 1)
    BY <1>1 DEF AnswerAt
  <2>2. PICK j \in DOMAIN responses : responses[j].type = "done" /\ responses[j].id = responses[1].id
    BY <1>1, <2>1 DEF InOrderOf
  <2>3. EndedAt(responses, j, new.id)
    BY <1>3, <2>2 DEF EndedAt
  <2> QED BY <1>3, <2>2, <2>3 DEF CarriedBy
<1>10. new.id \in 1 .. nextId - 1
  <2>1. PICK asked \in pending : asked.id = new.id
    BY <1>9
  <2>2. 0 < asked.id /\ asked.id < nextId /\ asked.id \in Nat /\ nextId \in Nat
    BY DEF Messages, TypeOK, Questions
  <2>3. new.id # 0
    BY <2>1 DEF Messages, TypeOK
  <2> QED BY <2>1, <2>2, <2>3
<1>11. TypeOK'
  BY <1>2, <1>10 DEF Messages, TypeOK
<1>12. Messages'
  BY <1>1, <1>2, <1>3, <1>11 DEF Messages
<1>13. Newest'
  <2>1. manifest # None => new.value.feed = manifest
    BY <1>1, <1>3, FirstIsOfTheFeed DEF AnswerAt
  <2> QED BY <1>2, <2>1 DEF Newest, NewestIsOnItsWay
<1> QED BY <1>1, <1>2, <1>5, <1>6, <1>7, <1>8, <1>12, <1>13

LEMMA DoneKeeps == ASSUME IInv, Done PROVE IInv'
<1> USE DEF IInv
<1>1. /\ responses # <<>> /\ responses' = Tail(responses)
      /\ responses \in Seq(Response) /\ responses' \in Seq(Response)
      /\ Head(responses) = responses[1] /\ responses[1].type = "done"
      /\ responses[1] \in Response /\ 1 \in DOMAIN responses
  BY HeadIs DEF Done
<1>2. PICK asked \in Waiting(responses[1].id), result \in results :
        /\ result.id = asked.id
        /\ pending' = pending \ {asked} /\ results' = results \ {result}
        /\ IF IsNewest(asked) THEN Paint(result.value.feed, asked.route)
           ELSE UNCHANGED <<pane, typed>>
  BY <1>1 DEF Done
<1>3. UNCHANGED <<hash, hashChanged, manifest, rendering, shown, timer, nextId, requests,
                  opening, slot, opens>>
  BY DEF Done, worker, reader
<1>4. asked \in pending /\ asked.id = responses[1].id
  BY DEF Waiting
<1>5. /\ TypeOK /\ asked \in Questions /\ result.value \in Value
      /\ asked.id \in Nat /\ asked.route \in Routes
      /\ result.value.feed \in Feeds
  BY <1>4 DEF Messages, TypeOK, Questions, Value
<1>6. EndedAt(responses, 1, asked.id)
  BY <1>1, <1>4 DEF EndedAt
<1>7. CarriedBy(pending \ {asked}, requests, Tail(responses))
  BY <1>1, <1>4, <1>5, <1>6, EndIsCarried
<1>8. RoutedIn(pending \ {asked}, requests, Tail(responses))
  BY <1>1, HeardIsRouted
<1>9. \A i \in DOMAIN responses : i # 1 /\ responses[i].type = "done" => responses[i].id # asked.id
  BY <1>1, <1>5, <1>6 DEF CarriedBy, EndedAt
<1>10. InOrderOf(results \ {result}, Tail(responses))
  BY <1>1, <1>2, <1>9, HeardInOrder
<1>11. ToldBy(manifest, slot, Tail(responses))
  BY <1>1, HeardIsTold DEF OpenedAt
<1>12. /\ pane' \in Panes /\ IsTyped(typed')
       /\ IF asked.rendering = rendering
          THEN pane'.feed = result.value.feed /\ pane'.route = asked.route
          ELSE pane' = pane
  <2>1. CASE asked.rendering = rendering
    <3>1. Paint(result.value.feed, asked.route)
      BY <1>2, <2>1 DEF IsNewest
    <3> QED BY <1>5, <2>1, <3>1, PaintIs
  <2>2. CASE asked.rendering # rendering
    <3>1. UNCHANGED <<pane, typed>>
      BY <1>2, <2>2 DEF IsNewest
    <3> QED BY <1>5, <2>2, <3>1 DEF TypeOK, Panes, IsTyped
  <2> QED BY <2>1, <2>2
<1>13. TypeOK'
  BY <1>2, <1>3, <1>5, <1>12 DEF TypeOK, Panes, IsTyped
<1>14. Messages'
  BY <1>1, <1>2, <1>3, <1>13 DEF Messages
<1>15. Newest'
  <2>1. \A other \in pending' :
          other.rendering = rendering' /\ manifest' # None =>
            /\ hashChanged' \/ other.route = hash'
            /\ \A found \in results' : found.id = other.id => found.value.feed = manifest'
    BY <1>2, <1>3 DEF Newest
  <2>2. NewestIsOnItsWay'
    <3>1. CASE asked.rendering = rendering
      <4>1. manifest # None =>
              (hashChanged \/ asked.route = hash) /\ result.value.feed = manifest
        BY <1>2, <1>4, <3>1 DEF Newest
      <4> QED BY <1>3, <1>12, <3>1, <4>1 DEF NewestIsOnItsWay
    <3>2. CASE asked.rendering # rendering
      <4>1. pane' = pane
        BY <1>12, <3>2
      <4> QED BY <1>2, <1>3, <3>2, <4>1 DEF Newest, NewestIsOnItsWay
    <3> QED BY <3>1, <3>2
  <2> QED BY <2>1, <2>2 DEF Newest
<1> QED BY <1>1, <1>2, <1>3, <1>7, <1>8, <1>10, <1>11, <1>14, <1>15

LEMMA FailedKeeps == ASSUME IInv, Failed PROVE IInv'
<1> USE DEF IInv
<1>1. /\ responses # <<>> /\ responses' = Tail(responses)
      /\ responses \in Seq(Response) /\ responses' \in Seq(Response)
      /\ Head(responses) = responses[1] /\ responses[1].type = "failed"
      /\ responses[1] \in Response /\ 1 \in DOMAIN responses
  BY HeadIs DEF Failed
<1>2. PICK asked \in Waiting(responses[1].id) :
        /\ pending' = pending \ {asked}
        /\ pane' = IF IsNewest(asked) THEN Pane("error", manifest, asked.route, None) ELSE pane
  BY <1>1 DEF Failed
<1>3. UNCHANGED <<hash, hashChanged, manifest, rendering, shown, typed, timer, results, nextId,
                  requests, opening, slot, opens>>
  BY DEF Failed, worker, reader
<1>4. asked \in pending /\ asked.id = responses[1].id
  BY DEF Waiting
<1>5. /\ TypeOK /\ asked \in Questions /\ asked.id \in Nat /\ asked.route \in Routes
  BY <1>4 DEF Messages, TypeOK, Questions
<1>6. EndedAt(responses, 1, asked.id)
  BY <1>1, <1>4 DEF EndedAt
<1>7. CarriedBy(pending \ {asked}, requests, Tail(responses))
  BY <1>1, <1>4, <1>5, <1>6, EndIsCarried
<1>8. RoutedIn(pending \ {asked}, requests, Tail(responses))
  BY <1>1, HeardIsRouted
<1>10. InOrderOf(results, Tail(responses))
  BY <1>1, HeardInOrder
<1>11. ToldBy(manifest, slot, Tail(responses))
  BY <1>1, HeardIsTold DEF OpenedAt
<1>12. /\ pane' \in Panes
       /\ IF asked.rendering = rendering
          THEN pane'.feed = manifest /\ pane'.route = asked.route
          ELSE pane' = pane
  <2>1. manifest \in Feeds \cup {None} /\ pane \in Panes
    BY <1>5 DEF TypeOK, Panes
  <2>2. CASE asked.rendering = rendering
    <3>1. pane' = Pane("error", manifest, asked.route, None)
      BY <1>2, <2>2 DEF IsNewest
    <3>2. pane' \in Panes
      BY <1>5, <2>1, <3>1, PanesAre
    <3> QED BY <2>2, <3>1, <3>2 DEF Pane
  <2>3. CASE asked.rendering # rendering
    BY <1>2, <2>1, <2>3 DEF IsNewest
  <2> QED BY <2>2, <2>3
<1>13. TypeOK'
  BY <1>2, <1>3, <1>5, <1>12 DEF TypeOK, Panes
<1>14. Messages'
  BY <1>1, <1>2, <1>3, <1>13 DEF Messages
<1>15. Newest'
  <2>1. \A other \in pending' :
          other.rendering = rendering' /\ manifest' # None =>
            /\ hashChanged' \/ other.route = hash'
            /\ \A found \in results' : found.id = other.id => found.value.feed = manifest'
    BY <1>2, <1>3 DEF Newest
  <2>2. NewestIsOnItsWay'
    <3>1. CASE asked.rendering = rendering
      <4>1. manifest # None => hashChanged \/ asked.route = hash
        BY <1>4, <3>1 DEF Newest
      <4> QED BY <1>3, <1>12, <3>1, <4>1 DEF NewestIsOnItsWay
    <3>2. CASE asked.rendering # rendering
      <4>1. pane' = pane
        BY <1>12, <3>2
      <4> QED BY <1>2, <1>3, <3>2, <4>1 DEF Newest, NewestIsOnItsWay
    <3> QED BY <3>1, <3>2
  <2> QED BY <2>1, <2>2 DEF Newest
<1> QED BY <1>1, <1>2, <1>3, <1>7, <1>8, <1>10, <1>11, <1>14, <1>15

-----------------------------------------------------------------------------
(***************************************************************************)
(* The theorems.                                                           *)
(***************************************************************************)
LEMMA InitIsFine == ASSUME Init PROVE IInv
<1> USE DEF Init
<1>1. TypeOK
  BY RoutesAre, EmptyIsAPane DEF TypeOK, Panes
<1>2. <<>> \in Seq(Request) /\ <<>> \in Seq(Response) /\ DOMAIN <<>> = {}
  OBVIOUS
<1>3. Messages
  BY <1>1, <1>2 DEF Messages
<1>4. CarriedBy(pending, requests, responses)
  BY <1>2 DEF CarriedBy
<1>5. InOrderOf(results, responses)
  BY <1>2 DEF InOrderOf
<1>6. RoutedIn(pending, requests, responses)
  BY DEF RoutedIn
<1>7. ToldBy(manifest, slot, responses)
  BY <1>2 DEF ToldBy
<1>8. Newest
  BY DEF Newest, NewestIsOnItsWay
<1> QED BY <1>3, <1>4, <1>5, <1>6, <1>7, <1>8 DEF IInv

LEMMA StepsKeep == ASSUME IInv, [Next]_vars PROVE IInv'
<1>1. CASE UNCHANGED vars
  <2>1. /\ UNCHANGED <<hash, hashChanged, manifest, rendering, shown, pane, typed, timer>>
        /\ UNCHANGED <<pending, results, nextId, requests, responses, opening, slot, opens, moves>>
    BY <1>1 DEF vars, page, client, channel, worker, reader
  <2>2. TypeOK'
    BY <2>1 DEF IInv, Messages, TypeOK
  <2>3. Messages'
    BY <2>1, <2>2 DEF IInv, Messages
  <2>4. Newest'
    BY <2>1 DEF IInv, Newest, NewestIsOnItsWay
  <2> QED BY <2>1, <2>3, <2>4 DEF IInv
<1>2. CASE Reader
  <2>1. CASE OpenFeed
    BY <2>1, OpenFeedKeeps
  <2>2. CASE CloseFeed
    BY <2>2, CloseFeedKeeps
  <2>3. CASE Export
    BY <2>3, ExportKeeps
  <2>4. ASSUME NEW route \in Routes, Navigate(route) PROVE IInv'
    BY <2>4, NavigateKeeps
  <2>5. ASSUME NEW value \in Typing \cup {None}, Type(value) PROVE IInv'
    BY <2>5, TypeKeeps
  <2> QED BY <1>2, <2>1, <2>2, <2>3, <2>4, <2>5 DEF Reader
<1>3. CASE HashChange
  BY <1>3, HashChangeKeeps
<1>4. CASE TypingPaused
  BY <1>4, TypingPausedKeeps
<1>5. CASE Handle
  BY <1>5, HandleKeeps
<1>6. CASE Reads
  BY <1>6, OpensKeeps, CannotOpenKeeps DEF Reads
<1>7. CASE Hears
  BY <1>7, OpenedKeeps, FailKeeps, FindingKeeps, ResultKeeps, DoneKeeps, FailedKeeps DEF Hears
<1> QED BY <1>1, <1>2, <1>3, <1>4, <1>5, <1>6, <1>7 DEF Next

(***************************************************************************)
(* The queues, what waits at the page and what the newest rendering waits  *)
(* for agree in every state.                                               *)
(***************************************************************************)
THEOREM InductiveInvariant == Spec => []IInv
BY InitIsFine, StepsKeep, PTL DEF Spec

(***************************************************************************)
(* Every variable has its type: no handler reads a field that the message  *)
(* it was given does not have.                                             *)
(***************************************************************************)
THEOREM TypeCorrectness == Spec => []TypeOK
<1>1. IInv => TypeOK
  BY DEF IInv, Messages
<1> QED BY <1>1, InductiveInvariant, PTL

(***************************************************************************)
(* render (boot.ts): wherever the view is not of the address and the feed  *)
(* the page names, the rendering that will replace it waits for its answer *)
(* or for the page to hear that the address changed, however many feeds    *)
(* are opened and closed meanwhile and however slow the worker is.         *)
(***************************************************************************)
THEOREM NewestIsComing == Spec => []NewestIsOnItsWay
<1>1. IInv => NewestIsOnItsWay
  BY DEF IInv, Newest
<1> QED BY <1>1, InductiveInvariant, PTL

LEMMA OneOrNone ==
  ASSUME NEW S, \A a, b \in S : a = b
  PROVE  Cardinality(S) = IF S = {} THEN 0 ELSE 1
<1>1. CASE S = {}
  BY <1>1, FS_EmptySet
<1>2. CASE S # {}
  <2>1. PICK a \in S : TRUE
    BY <1>2
  <2>2. S = {a}
    BY <2>1
  <2> QED BY <1>2, <2>2, FS_Singleton
<1> QED BY <1>1, <1>2

LEMMA MatchedByInvariant == ASSUME IInv PROVE AnswersAreMatched
<1>1. /\ requests \in Seq(Request) /\ responses \in Seq(Response) /\ pending \subseteq Questions
      /\ CarriedBy(pending, requests, responses) /\ InOrderOf(results, responses)
      /\ RoutedIn(pending, requests, responses)
  BY DEF IInv, Messages, TypeOK
<1>2. \A i \in DOMAIN requests : requests[i] \in Request
  BY <1>1
<1>3. \A i \in DOMAIN responses : responses[i] \in Response
  BY <1>1
<1>4. ASSUME NEW asked \in pending
      PROVE  LET out == {i \in DOMAIN requests :
                           requests[i].type # "open" /\ requests[i].id = asked.id}
                 back == {i \in DOMAIN responses :
                            /\ responses[i].type \in {"done", "failed"}
                            /\ responses[i].id = asked.id}
             IN  Cardinality(out) + Cardinality(back) = 1
  <2> DEFINE out == {i \in DOMAIN requests :
                       requests[i].type # "open" /\ requests[i].id = asked.id}
             back == {i \in DOMAIN responses :
                        /\ responses[i].type \in {"done", "failed"}
                        /\ responses[i].id = asked.id}
  <2>1. asked.id \in Nat
    BY <1>1 DEF Questions
  <2>2. out = {i \in DOMAIN requests : AskedAt(requests, i, asked.id)}
    BY <1>2, RequestsAre DEF AskedAt
  <2>3. back = {i \in DOMAIN responses : EndedAt(responses, i, asked.id)}
    BY DEF EndedAt
  <2> HIDE DEF out, back
  <2>4. /\ \A i, j \in out : i = j
        /\ \A i, j \in back : i = j
        /\ out = {} \/ back = {}
        /\ out # {} \/ back # {}
    BY <1>1, <2>1, <2>2, <2>3 DEF CarriedBy
  <2>5. /\ Cardinality(out) = IF out = {} THEN 0 ELSE 1
        /\ Cardinality(back) = IF back = {} THEN 0 ELSE 1
    BY <2>4, OneOrNone
  <2>6. Cardinality(out) + Cardinality(back) = 1
    BY <2>4, <2>5
  <2> QED BY <2>6 DEF out, back
<1>5. ASSUME NEW i \in DOMAIN responses, responses[i].type = "result"
      PROVE  \E asked \in pending : /\ asked.id = responses[i].id
                                    /\ asked.route = responses[i].value.route
  <2>1. AnswerAt(responses, i) /\ responses[i].id \in Nat
    BY <1>3, <1>5, ResponsesAre DEF AnswerAt
  <2>2. PICK j \in DOMAIN responses : EndedAt(responses, j, responses[i].id)
    BY <1>1, <2>1 DEF InOrderOf, EndedAt
  <2>3. PICK asked \in pending : asked.id = responses[i].id
    BY <1>1, <2>1, <2>2 DEF CarriedBy
  <2> QED BY <1>1, <2>1, <2>3 DEF RoutedIn
<1>6. \A i \in DOMAIN responses :
        responses[i].type = "done" =>
          \/ \E result \in results : result.id = responses[i].id
          \/ \E j \in 1 .. i - 1 : /\ responses[j].type = "result"
                                   /\ responses[j].id = responses[i].id
  BY <1>1 DEF InOrderOf
<1> QED BY <1>4, <1>5, <1>6 DEF AnswersAreMatched

(***************************************************************************)
(* ask, receive (client.ts): no answer is ever given to another question,  *)
(* none is lost and none comes twice, whatever is opened in between.       *)
(***************************************************************************)
THEOREM AnswersMatch == Spec => []AnswersAreMatched
<1>1. IInv => AnswersAreMatched
  BY MatchedByInvariant
<1> QED BY <1>1, InductiveInvariant, PTL
=============================================================================
