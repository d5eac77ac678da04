--------------------------- MODULE MCTicketSystem ---------------------------
(***************************************************************************)
(* One line of three stations; its train leaves the second one after       *)
(* midnight, so a ticket from there on date 2 is for the train of day 1.   *)
(***************************************************************************)
EXTENDS TicketSystem, TLC

Line == [station_num |-> 3, stations |-> <<"A", "B", "C">>,
         total_seat_num |-> 2, leaving_date |-> <<0, 1, 1>>,
         start_sale_date |-> 1, end_sale_date |-> 1]

MCStations == {"A", "B", "C"}
OneLine == {Line}
\* The same line put up again with one seat, two stops and another sale.
TwoLines == {Line, [Line EXCEPT !.station_num = 2, !.total_seat_num = 1,
                                !.end_sale_date = 2]}
MCDates == 1 .. 2

Symmetry == Permutations(Users) \cup Permutations(TrainIDs)
=============================================================================
