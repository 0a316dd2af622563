--------------------------- MODULE MCConvert ---------------------------
(***************************************************************************)
(* Up to four documents, over weeks of three days and a period of nine.    *)
(* The documents share operators, lines, stops and days, as those of one   *)
(* registration do.                                                        *)
(***************************************************************************)
EXTENDS Convert

MCBankHolidays == [easter |-> {4}, christmas |-> {8, 20}]

MCNear == {{"p", "q"}, {"q", "r"}}

Break(start, end) == [start |-> start, end |-> end]

Profile(days, breaks, on, off) ==
  [days |-> days, breaks |-> breaks, holidaysOn |-> on, holidaysOff |-> off]

Breaking ==
  {<<>>, <<Break(4, 5)>>, <<Break(1, 2), Break(8, 9)>>, <<Break(3, 4), Break(1, 2)>>,
   <<Break(2, 6)>>, <<Break(7, 9), Break(5, 6)>>, <<Break(1, 9)>>,
   <<Break(0, 0), Break(3, 3)>>}

Profiles ==
  {Profile(days, breaks, on, off) :
     days \in {{0, 1}, {}}, breaks \in Breaking,
     on \in {{}, {"easter"}, {"christmas"}}, off \in {{}, {"easter"}}}

Vehicle(profile, links, fails) ==
  [profile |-> profile, period |-> Break(1, 9), pattern |-> TRUE, links |-> links,
   fails |-> fails, route |-> "line", stops |-> <<"p", "q", "p">>]

Daily == Profile({0, 1, 2}, <<>>, {}, {})

Document(stops, journeys) ==
  [xml |-> "fine", isSchedule |-> TRUE, operators |-> <<"operator">>,
   lines |-> <<"line">>, stops |-> stops, vehicles |-> journeys]

Plain == Document(<<"p", "q">>, <<Vehicle(Daily, <<"l">>, "no")>>)

Ragged ==
  Document(<<"q", "r", "q">>,
    <<Vehicle(Daily, <<"l">>, "service"), Vehicle(None, <<"l">>, "no"),
      Vehicle(Profile({0}, <<>>, {}, {}), <<"l">>, "times"),
      Vehicle(Daily, <<>>, "no"),
      [Vehicle(Daily, <<"l">>, "no") EXCEPT !.pattern = FALSE],
      Vehicle(Daily, <<"l", "m">>, "no"),
      Vehicle(Profile({0}, <<>>, {}, {}), <<"l">>, "no")>>)

NotASchedule == [Plain EXCEPT !.isSchedule = FALSE]

Malformed == [Plain EXCEPT !.xml = "malformed"]

ZipOf(entries) == [kind |-> "zip", entries |-> entries]

XmlOf(document) == [kind |-> "xml", entries |-> <<document>>]

Other == [kind |-> "other", entries |-> <<>>]

MCInputs ==
  {<<XmlOf(Document(<<"p", "q">>, <<Vehicle(Daily, <<"l">>, "no"),
                                  Vehicle(profile, <<"l">>, "no")>>))>> :
     profile \in Profiles} \cup
  {<<ZipOf(<<Plain, Unreadable, Ragged>>), XmlOf(Plain)>>,
   <<ZipOf(<<Ragged, NotASchedule, Plain, Ragged>>)>>,
   <<XmlOf(Ragged), ZipOf(<<>>), ZipOf(<<NotASchedule>>)>>,
   <<ZipOf(<<Plain, Malformed, Plain>>)>>,
   <<XmlOf(Plain), XmlOf(Unreadable)>>,
   <<XmlOf(Plain), Other>>}
=============================================================================
