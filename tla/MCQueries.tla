----------------------------- MODULE MCQueries -----------------------------
(***************************************************************************)
(* Two sets of three trains around the end of June, with departures after  *)
(* midnight, equal prices, changes that just work, that need another day,  *)
(* and that have to wait for the second train's first day of sale.         *)
(***************************************************************************)
EXTENDS Queries

Day(m, d) == TimeType(<<m, d, 0, 0>>)

Line(stations, start, travel, stop, prices, first, last) ==
    [stations |-> stations, start_time |-> 60 * start[1] + start[2],
     travel_times |-> travel, stop_over_times |-> stop, prices |-> prices,
     seat_num |-> 2, start_sale_date |-> Day(first[1], first[2]),
     end_sale_date |-> Day(last[1], last[2])]

\* 1 and 2 meet twice, with the same total price and time either way.
Eastbound ==
    <<Line(<<1, 2, 3>>, <<23, 30>>, <<45, 60>>, <<10>>, <<5, 7>>, <<6, 29>>, <<6, 30>>),
      Line(<<2, 3, 4>>, <<0, 20>>, <<120, 30>>, <<5>>, <<7, 3>>, <<6, 30>>, <<7, 1>>),
      Line(<<1, 3, 4>>, <<10, 0>>, <<1560, 60>>, <<10>>, <<12, 10>>, <<6, 28>>, <<6, 30>>)>>

\* 1 arrives too late for 2 on that day, and at the minute 3 leaves, which
\* is on sale only later.
Crossing ==
    <<Line(<<1, 2>>, <<12, 0>>, <<90>>, <<>>, <<10>>, <<6, 30>>, <<6, 30>>),
      Line(<<3, 2, 4>>, <<23, 0>>, <<800, 100>>, <<30>>, <<1, 2>>, <<6, 29>>, <<7, 1>>),
      Line(<<2, 4, 1>>, <<13, 30>>, <<200, 2000>>, <<5>>, <<30, 1>>, <<7, 2>>, <<7, 3>>)>>

MCLines == {Eastbound, Crossing}

Buy(user, id, from, to, date, num, q) ==
    [user |-> user, train_ID |-> id, from |-> from, to |-> to, date |-> date,
     num |-> num, is_pending |-> q]

MCPurchases ==
    {Buy(1, 1, 1, 3, <<6, 29>>, 1, FALSE), Buy(1, 1, 2, 3, <<6, 30>>, 2, TRUE),
     Buy(2, 2, 2, 4, <<7, 1>>, 1, FALSE), Buy(1, 3, 3, 4, <<6, 30>>, 2, TRUE),
     Buy(1, 2, 4, 2, <<7, 1>>, 1, TRUE), Buy(2, 1, 1, 2, <<7, 2>>, 1, TRUE)}

MCDates == {<<5, 30>>, <<6, 28>>, <<6, 29>>, <<6, 30>>, <<7, 1>>, <<7, 2>>, <<7, 3>>}

MCArrays == UNION {[1 .. n -> 1 .. 3] : n \in 0 .. 5}
=============================================================================
