--------------------------- MODULE MCTicketLedger ---------------------------
(* The line of MCTicketSystem, checked against the ledger. *)
EXTENDS TicketLedger, TLC

Line == [station_num |-> 3, stations |-> <<"A", "B", "C">>,
         total_seat_num |-> 2, leaving_date |-> <<0, 1, 1>>,
         start_sale_date |-> 1, end_sale_date |-> 1]

MCStations == {"A", "B", "C"}
OneLine == {Line}
MCDates == 1 .. 2
=============================================================================
