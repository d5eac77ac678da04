----------------------------- MODULE Timetable -----------------------------
(***************************************************************************)
(* What the queries of TrainManagement are computed with: TimeType, the    *)
(* arrays a Train is made of, seats between two stations, and Sort.        *)
(*                                                                         *)
(* A time is a number of minutes since June 1st, 00:00; as the program     *)
(* reads and prints it, it is a clock <<month, day, hour, minute>>.  Train *)
(* IDs and station names are integers, in the order of strcmp.             *)
(***************************************************************************)
EXTENDS Integers, Sequences, SequencesExt, FiniteSetsExt

MAX_INT == 2147483647

Month == <<30, 31, 31>>

\* The constructor from a string.
TimeType(c) ==
    1440 * (FoldLeft(+, 0, SubSeq(Month, 1, c[1] - 6)) + c[2] - 1) + 60 * c[3] + c[4]

get_date(t) == t - (t % 1440)

get_time(t) == t % 1440

\* The month and the day that t days from the first of month i + 5 on are.
RECURSIVE MonthAndDay(_, _)
MonthAndDay(i, t) ==
    IF i <= 3 /\ t - Month[i] > 0 THEN MonthAndDay(i + 1, t - Month[i])
    ELSE <<i + 5, t>>

\* Bug: days are counted from zero.
transfer_zero(t) ==
    MonthAndDay(1, t \div 1440) \o <<(t % 1440) \div 60, (t % 1440) % 60>>

transfer(t) ==
    MonthAndDay(1, t \div 1440 + 1) \o <<(t % 1440) \div 60, (t % 1440) % 60>>

\* Printed as xx-xx xx:xx.
NoTime == <<>>

is_legal(date) == date[1] \in 6 .. 8
-----------------------------------------------------------------------------
\* Bug: the stop at the station before is not counted.
Arriving_stop(a, i, before) ==
    (IF i = 2 THEN a.start_time ELSE before[i - 1]) + a.travel_times[i - 1]

\* The arrival at station i > 1, from the arrivals before.
Arriving(a, i, before) ==
    (IF i = 2 THEN a.start_time ELSE before[i - 1] + a.stop_over_times[i - 2])
        + a.travel_times[i - 1]

\* The constructor of Train, from the arguments of add_train: stations, the
\* prices and travel times between them, and the time spent at each but the
\* first and the last.  Times count from the day the train starts on.
Train(a) ==
    LET n == Len(a.stations)
        price_sum[i \in 1 .. n] ==
            IF i = 1 THEN 0 ELSE price_sum[i - 1] + a.prices[i - 1]
        arriving_times[i \in 1 .. n] ==
            IF i = 1 THEN 0 ELSE Arriving(a, i, arriving_times)
    IN [station_num |-> n, stations |-> a.stations, price_sum |-> price_sum,
        total_seat_num |-> a.seat_num,
        arriving_times |-> arriving_times,
        leaving_times |-> [i \in 1 .. n |->
            IF i = 1 THEN a.start_time
            ELSE IF i = n THEN MAX_INT ELSE arriving_times[i] + a.stop_over_times[i - 1]],
        start_sale_date |-> a.start_sale_date, end_sale_date |-> a.end_sale_date,
        is_released |-> FALSE]

\* The most tickets one can buy from station l to the one after r.
query_seat(seat_num, l, r) == Min({MAX_INT} \cup {seat_num[i] : i \in l .. r})
-----------------------------------------------------------------------------
(* What is compared is a sequence of integers: the keys of time_cmp,       *)
(* cost_cmp, order_cmp or station_cmp in the order they look at them.  The *)
(* elements of what is sorted or joined are pairs <<key, value>>.          *)

Less(u, v) ==
    \E i \in DOMAIN u : u[i] < v[i] /\ \A j \in 1 .. i - 1 : u[j] = v[j]

Swapped(a, i, j) ==
    [x \in DOMAIN a |-> a[IF x = i THEN j ELSE IF x = j THEN i ELSE x]]

\* The loop of Sort around the middle element, from both ends inwards.
RECURSIVE Partition(_, _, _, _)
Partition(a, pl, pr, mid) ==
    IF pl > pr THEN [a |-> a, pl |-> pl, pr |-> pr]
    ELSE LET i == Min({x \in pl .. Len(a) : ~ Less(a[x][1], mid)})
             j == Max({x \in 1 .. pr : ~ Less(mid, a[x][1])})
         IN IF i > j THEN [a |-> a, pl |-> i, pr |-> j]
            ELSE Partition(Swapped(a, i, j), i + 1, j - 1, mid)

\* Bug: the right part starts one too far right.
RightPart_short(p) == p.pl + 1

\* Where the part right of the middle starts.
RightPart(p) == p.pl

RECURSIVE SortPart(_, _, _)
SortPart(a, l, r) ==
    IF l >= r THEN a
    ELSE LET p == Partition(a, l, r, a[(l + r) \div 2][1])
             b == SortPart(p.a, l, p.pr)
         IN SortPart(b, RightPart(p), r)

Sort(a) == SortPart(a, 1, Len(a))

\* Two sorted lists are gone through side by side: the pairs of values that
\* have the same key.
RECURSIVE Join(_, _)
Join(a, b) ==
    IF a = <<>> \/ b = <<>> THEN <<>>
    ELSE IF Less(Head(a)[1], Head(b)[1]) THEN Join(Tail(a), b)
    ELSE IF Less(Head(b)[1], Head(a)[1]) THEN Join(a, Tail(b))
    ELSE <<<<Head(a)[2], Head(b)[2]>>>> \o Join(Tail(a), Tail(b))
=============================================================================
