-------------------------- MODULE MCMergeFeeds --------------------------
(***************************************************************************)
(* Two or three feeds that use the same ids for their own routes,          *)
(* services, trips, blocks and shapes, over two-day weeks and seven dates. *)
(* Every two of the services are merged on one network, and every two or   *)
(* three of the networks with one pair of services.                        *)
(***************************************************************************)
EXTENDS MergeFeeds

MCLocated == [T |-> <<2, 0>>, P |-> <<2, 0>>, Q |-> <<2, 1>>,
              B |-> <<4, 1>>, C |-> <<0, -1>>, N |-> None]
-----------------------------------------------------------------------------
Calendar(days, start, end) == [days |-> days, start |-> start, end |-> end]

Calendars == {NoCalendar, Calendar({0, 1}, 1, 2), Calendar({}, 1, 6),
              Calendar({0}, 2, 6), Calendar({0, 1}, 2, 5), Calendar({1}, 4, 4)}

On(added, removed) == {[date |-> d, type |-> "added"] : d \in added} \cup
                      {[date |-> d, type |-> "removed"] : d \in removed}

Exceptions == {On({}, {}), On({4, 6}, {}), On({1, 3, 4, 7}, {}), On({3}, {2, 4}),
               On({}, {4}), On({}, {2, 4, 6})}

Weekdays == [calendar |-> Calendar({0}, 2, 6), dates |-> On({}, {4})]
-----------------------------------------------------------------------------
Stop(stop, parent, code) == [stop |-> stop, parent |-> parent, code |-> code]

Transfer(from, to, time) == [from |-> from, to |-> to, fromTrip |-> None,
                             toTrip |-> None, time |-> time]

Coupling(at) == [from |-> at, to |-> at, fromTrip |-> "t1", toTrip |-> "t2",
                 time |-> 0]

(* The stops of a feed, what the first trip calls at, and its transfers.   *)
RailStops == <<Stop("T", None, None), Stop("P", "T", "1"), Stop("Q", "T", "1")>>
StreetStops == <<Stop("B", None, "1"), Stop("C", None, "2"), Stop("N", None, None)>>

Networks ==
  {[stops |-> RailStops, at |-> <<"P", "Q">>,
    transfers |-> <<Coupling("Q"), Transfer("T", "B", 2)>>],
   [stops |-> StreetStops, at |-> <<"B", "B", "C", "N">>,
    transfers |-> <<Transfer("B", "C", 2), Transfer("B", "C", 1)>>],
   [stops |-> StreetStops \o RailStops, at |-> <<"Q", "C", "B">>,
    transfers |-> <<Transfer("B", "T", 2), Coupling("B")>>],
   [stops |-> <<Stop("P", None, "1"), Stop("B", None, "1")>>, at |-> <<"B", "P">>,
    transfers |-> <<>>],
   [stops |-> <<Stop("T", None, None), Stop("C", None, "2")>>,
    at |-> <<"T", "C">>, transfers |-> <<Transfer("T", "B", 1)>>]}
-----------------------------------------------------------------------------
Feed(name, service, network) ==
  LET Its(id) == <<name, id>>
  IN  [routes |-> <<[id |-> "r0", removed |-> TRUE, of |-> Its("r0")],
                    [id |-> "r", removed |-> FALSE, of |-> Its("r")]>>,
       services |-> <<[id |-> "s", calendar |-> service.calendar,
                       dates |-> service.dates],
                      [id |-> "daily", calendar |-> Calendar({0, 1}, 2, 5),
                       dates |-> {}]>>,
       trips |-> [i \in 1 .. 3 |->
         [id |-> <<"t1", "t2", "t0">>[i], of |-> Its(<<"t1", "t2", "t0">>[i]),
          service |-> <<"s", "daily", "daily">>[i],
          route |-> <<"r", "r", "r0">>[i],
          block |-> IF i = 3 THEN None ELSE "b",
          shape |-> <<"h", None, "h0">>[i]]],
       calls |-> [i \in DOMAIN network.at |->
                    [trip |-> "t1", stop |-> network.at[i],
                     complete |-> i # 2 \/ Len(network.at) = 2,
                     of |-> Its(<<"t1", i>>)]] \o
                 <<[trip |-> "t0", stop |-> network.stops[2].stop, complete |-> TRUE,
                    of |-> Its(<<"t0", 1>>)],
                   [trip |-> "t2", stop |-> network.at[1], complete |-> TRUE,
                    of |-> Its(<<"t2", 1>>)]>>,
       points |-> <<[shape |-> "h", of |-> Its("point")],
                    [shape |-> "h0", of |-> Its("point0")]>>,
       frequencies |-> <<[trip |-> "t2", of |-> Its("t2")],
                         [trip |-> "t0", of |-> Its("t0")]>>,
       transfers |-> [i \in DOMAIN network.transfers |->
                        network.transfers[i] @@ [of |-> Its(i)]],
       stops |-> network.stops,
       areas |-> <<"area">>,
       members |-> <<[area |-> "area", stop |-> "P"],
                     [area |-> "area", stop |-> "B"]>>]

Services == [calendar : Calendars, dates : Exceptions]

Rail == CHOOSE n \in Networks : n.stops = RailStops

MCInputs ==
  {<<Feed("A", s, Rail), Feed("B", r, Rail)>> : s, r \in Services} \cup
  {<<Feed("A", Weekdays, n), Feed("B", Weekdays, m)>> : n, m \in Networks} \cup
  {<<Feed("A", Weekdays, n), Feed("B", Weekdays, m), Feed("C", Weekdays, k)>> :
     n, m, k \in Networks}
=============================================================================
