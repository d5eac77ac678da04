------------------------------ MODULE Queries ------------------------------
(***************************************************************************)
(* The queries of TrainManagement, with release_train and buy_ticket,      *)
(* which fill the databases they read.  Trains has every command that      *)
(* changes a database, and leaves out what is here: clock times, prices    *)
(* and what is printed.                                                    *)
(*                                                                         *)
(* The rows of an answer are records; 0 and -1 are an answer without rows. *)
(***************************************************************************)
EXTENDS Timetable

CONSTANTS
    Lines,      \* the trains a run may have: for each ID what add_train got
    TrainIDs,   \* the IDs queries ask for
    Purchases,  \* what buy_ticket may be given
    Users,
    Names,      \* the stations queries ask for
    Dates,      \* the dates they ask for, <<month, day>>
    Arrays,     \* keys for Sort to sort
    MaxOrders   \* bound: largest order ID

VARIABLES
    lines,              \* the arguments of add_train, for the properties
    train_database,     \* train ID -> Train
    station_database,   \* <<station, train ID>> -> Station
    daytrain_database,  \* <<train ID, day>> -> seats left per station
    order_database,     \* <<user, order ID>> -> Order
    order_num,
    answer              \* the command answered last, and its rows

databases == <<lines, train_database, station_database, daytrain_database,
               order_database, order_num>>

vars == <<databases, answer>>

NoAnswer == [command |-> "none"]

Insert(index, entries) ==
    [k \in DOMAIN index \cup DOMAIN entries |->
        IF k \in DOMAIN entries THEN entries[k] ELSE index[k]]

Init ==
    /\ lines \in Lines
    /\ train_database = [id \in DOMAIN lines |-> Train(lines[id])]
    /\ station_database = <<>>
    /\ daytrain_database = <<>>
    /\ order_database = <<>>
    /\ order_num = 0
    /\ answer = NoAnswer

\* The days a train starts on.
SaleDays(train) ==
    {train.start_sale_date + 1440 * i :
        i \in 0 .. (train.end_sale_date - train.start_sale_date) \div 1440}
-----------------------------------------------------------------------------
(* The commands that fill the databases.                                   *)

\* The constructor of Station.
Station(id, train, i) ==
    [train_ID |-> id, station_name |-> train.stations[i],
     price_sum |-> train.price_sum[i],
     start_sale_time |-> train.start_sale_date, end_sale_time |-> train.end_sale_date,
     arriving_time |-> train.arriving_times[i],
     leaving_time |-> train.leaving_times[i], index |-> i]

\* Where a train stops at a station, 0 if it does not.
Position(train, name) == SelectInSeq(train.stations, LAMBDA x : x = name)

release_train(id) ==
    LET train == train_database[id]
        seat_num == [i \in 1 .. train.station_num |-> train.total_seat_num]
    IN /\ ~ train.is_released
       /\ train_database' = [train_database EXCEPT ![id].is_released = TRUE]
       /\ daytrain_database' =
             Insert(daytrain_database, [k \in {id} \X SaleDays(train) |-> seat_num])
       /\ station_database' =
             Insert(station_database, [k \in Range(train.stations) \X {id} |->
                                          Station(id, train, Position(train, k[1]))])
       /\ UNCHANGED <<lines, order_database, order_num, answer>>

\* c is the command of a user who is logged in.
buy_ticket(c) ==
    LET train == train_database[c.train_ID]
        s == Position(train, c.from)
        t == Position(train, c.to)
        start_day == TimeType(c.date \o <<0, 0>>) - get_date(train.leaving_times[s])
        key == <<c.train_ID, start_day>>
        remain_seat == query_seat(daytrain_database[key], s, t - 1)
        enough == remain_seat >= c.num
        order == [train_ID |-> c.train_ID, num |-> c.num,
                  price |-> train.price_sum[t] - train.price_sum[s],
                  start_day |-> start_day,
                  leaving_time |-> train.leaving_times[s],
                  arriving_time |-> train.arriving_times[t],
                  from |-> s, to |-> t,
                  from_station |-> c.from, to_station |-> c.to,
                  status |-> IF enough THEN "success" ELSE "pending"]
    IN /\ train.is_released
       /\ train.total_seat_num >= c.num
       /\ 0 < s /\ s < t
       /\ train.start_sale_date <= start_day /\ start_day <= train.end_sale_date
       /\ c.is_pending \/ enough
       /\ order_num < MaxOrders
       /\ order_num' = order_num + 1
       /\ order_database' = Insert(order_database, [k \in {<<c.user, order_num'>>} |-> order])
       /\ daytrain_database' =
             IF ~ enough THEN daytrain_database
             ELSE [daytrain_database EXCEPT ![key] =
                      [i \in DOMAIN @ |-> IF i \in s .. t - 1 THEN @[i] - c.num ELSE @[i]]]
       /\ UNCHANGED <<lines, train_database, station_database, answer>>
-----------------------------------------------------------------------------
(* query_train                                                             *)

\* What is printed for station i of a train that starts on day.
TrainRow(train, seat_num, day, i) ==
    [station |-> train.stations[i],
     arriving |-> IF i = 1 THEN NoTime ELSE transfer(day + train.arriving_times[i]),
     leaving |-> IF i = train.station_num THEN NoTime
                 ELSE transfer(day + train.leaving_times[i]),
     price |-> train.price_sum[i],
     seat |-> IF i = train.station_num THEN MAX_INT ELSE seat_num[i]]

TrainRows(id, date) ==
    LET train == train_database[id]
        day == TimeType(date \o <<0, 0>>)
        seat_num == IF train.is_released THEN daytrain_database[<<id, day>>]
                    ELSE [i \in 1 .. train.station_num |-> train.total_seat_num]
    IN IF /\ is_legal(date) /\ id \in DOMAIN train_database
          /\ train.start_sale_date <= day /\ day <= train.end_sale_date
       THEN [i \in 1 .. train.station_num |-> TrainRow(train, seat_num, day, i)]
       ELSE <<>>

query_train(id, date) ==
    answer' = [command |-> "query_train", train_ID |-> id, date |-> date,
               rows |-> TrainRows(id, date)]
-----------------------------------------------------------------------------
(* query_ticket                                                            *)

\* ScanKey of a station: its trains in the order of their IDs.
ScanStation(name) ==
    LET ids == SetToSortSeq({id \in DOMAIN train_database :
                                <<name, id>> \in DOMAIN station_database}, <)
    IN [i \in DOMAIN ids |-> <<<<ids[i]>>, station_database[<<name, ids[i]>>]>>]

\* The day a train starts on that leaves the station s on day.
StartDay(day, s) == day - get_date(s.leaving_time)

\* Bug: the last day of sale is left out.
OnSale_last(s, day) ==
    s.start_sale_time <= StartDay(day, s) /\ StartDay(day, s) < s.end_sale_time

OnSale(s, day) ==
    s.start_sale_time <= StartDay(day, s) /\ StartDay(day, s) <= s.end_sale_time

\* Ticket::time and Ticket::cost.
time(s, t) == t.arriving_time - s.leaving_time
cost(s, t) == t.price_sum - s.price_sum

\* time_cmp and cost_cmp.
TicketKey(s, t, type) ==
    <<IF type = "time" THEN time(s, t) ELSE cost(s, t), s.train_ID>>

\* What is printed for a ticket of the train that starts on start_day.
TicketRow(s, t, start_day) ==
    [train_ID |-> s.train_ID, from |-> s.station_name,
     leaving |-> transfer(start_day + s.leaving_time),
     to |-> t.station_name, arriving |-> transfer(start_day + t.arriving_time),
     price |-> cost(s, t),
     seat |-> query_seat(daytrain_database[<<s.train_ID, start_day>>], s.index, t.index - 1)]

TicketRows(from, to, date, type) ==
    LET day == TimeType(date \o <<0, 0>>)
        pairs == Join(ScanStation(from), ScanStation(to))
        tickets == SelectSeq(pairs, LAMBDA p : p[1].index < p[2].index /\ OnSale(p[1], day))
        sorted == Sort([i \in DOMAIN tickets |->
                           <<TicketKey(tickets[i][1], tickets[i][2], type), tickets[i]>>])
    IN IF ~ is_legal(date) \/ from = to THEN <<>>
       ELSE [i \in DOMAIN sorted |->
                LET s == sorted[i][2][1] IN TicketRow(s, sorted[i][2][2], StartDay(day, s))]

query_ticket(from, to, date, type) ==
    answer' = [command |-> "query_ticket", from |-> from, to |-> to, date |-> date,
               type |-> type, rows |-> TicketRows(from, to, date, type)]
-----------------------------------------------------------------------------
(* query_transfer                                                          *)

\* Stations first .. last of a train, sorted by name, with their positions.
SortedStops(train, first, last) ==
    Sort(SubSeq([i \in DOMAIN train.stations |-> <<<<train.stations[i]>>, i>>], first, last))

\* Bug: the train that leaves on the day of arrival is taken in any case.
fast_start_day2_early(arriving, leaving, start_day1) ==
    start_day1 + get_date(arriving) - get_date(leaving)

\* The first day on which the second train, which leaves the station at
\* leaving, starts late enough for a passenger who arrives at arriving.
fast_start_day2(arriving, leaving, start_day1) ==
    start_day1 + get_date(arriving) - get_date(leaving)
        + IF get_time(arriving) <= get_time(leaving) THEN 0 ELSE 1440

\* The ways from s1 to t1 with a change from station k of one train to
\* station l of the other, in the order in which they are looked at.
Transfers(s1, t1, day) ==
    LET train1 == train_database[s1.train_ID]
        train2 == train_database[t1.train_ID]
        start_day1 == StartDay(day, s1)
        stops == Join(SortedStops(train1, s1.index + 1, train1.station_num),
                      SortedStops(train2, 1, t1.index - 1))
        earliest(k, l) == fast_start_day2(train1.arriving_times[k],
                                          train2.leaving_times[l], start_day1)
        inTime == SelectSeq(stops, LAMBDA p : earliest(p[1], p[2]) <= t1.end_sale_time)
    IN [i \in DOMAIN inTime |->
          LET k == inTime[i][1]
              l == inTime[i][2]
              start_day2 == Max({earliest(k, l), t1.start_sale_time})
          IN [s1 |-> s1, k |-> Station(s1.train_ID, train1, k),
              l |-> Station(t1.train_ID, train2, l), t1 |-> t1,
              start_day1 |-> start_day1, start_day2 |-> start_day2,
              COST |-> train1.price_sum[k] - s1.price_sum
                           + t1.price_sum - train2.price_sum[l],
              TIME |-> start_day2 + t1.arriving_time - (start_day1 + s1.leaving_time),
              FIRST_TIME |-> train1.arriving_times[k] - s1.leaving_time]]

\* Every way from one station to the other.
AllTransfers(from, to, day) ==
    LET ans1 == SelectSeq(ScanStation(from), LAMBDA e : OnSale(e[2], day))
        ans2 == ScanStation(to)
        ways(e1) == FlattenSeq([j \in DOMAIN ans2 |->
                        IF e1[1] = ans2[j][1] THEN <<>> ELSE Transfers(e1[2], ans2[j][2], day)])
    IN FlattenSeq([i \in DOMAIN ans1 |-> ways(ans1[i])])

TransferKey(c, type) ==
    IF type = "cost" THEN <<c.COST, c.TIME, c.FIRST_TIME>>
    ELSE <<c.TIME, c.COST, c.FIRST_TIME>>

NoTransfer == [COST |-> MAX_INT, TIME |-> MAX_INT, FIRST_TIME |-> MAX_INT]

TransferRows(from, to, date, type) ==
    LET best == FoldLeft(LAMBDA b, c :
                             IF Less(TransferKey(c, type), TransferKey(b, type)) THEN c ELSE b,
                         NoTransfer, AllTransfers(from, to, TimeType(date \o <<0, 0>>)))
    IN IF ~ is_legal(date) \/ from = to \/ best = NoTransfer THEN <<>>
       ELSE <<TicketRow(best.s1, best.k, best.start_day1),
              TicketRow(best.l, best.t1, best.start_day2)>>

query_transfer(from, to, date, type) ==
    answer' = [command |-> "query_transfer", from |-> from, to |-> to, date |-> date,
               type |-> type, rows |-> TransferRows(from, to, date, type)]
-----------------------------------------------------------------------------
(* query_order                                                             *)

\* Bug: the oldest order comes first.
OrderKey_oldest(order_ID) == <<order_ID>>

\* order_cmp: the newest order comes first.
OrderKey(order_ID) == <<- order_ID>>

OrderRow(order) ==
    [status |-> order.status, train_ID |-> order.train_ID,
     from |-> order.from_station,
     leaving |-> transfer(order.leaving_time + order.start_day),
     to |-> order.to_station,
     arriving |-> transfer(order.arriving_time + order.start_day),
     price |-> order.price, num |-> order.num]

\* ScanKey of a user: the orders by ID.
query_order(user) ==
    LET ids == SetToSortSeq({k[2] : k \in {k \in DOMAIN order_database : k[1] = user}}, <)
        orders == Sort([i \in DOMAIN ids |-> <<OrderKey(ids[i]), ids[i]>>])
    IN answer' = [command |-> "query_order", user |-> user,
                  rows |-> [i \in DOMAIN orders |->
                               OrderRow(order_database[<<user, orders[i][2]>>])]]
-----------------------------------------------------------------------------
(* Dates and sorting by themselves.                                        *)

\* A date that is read and printed again, and the same time a day later.
ReadDate(clock) ==
    LET t == TimeType(clock) IN
    answer' = [command |-> "date", clock |-> clock, printed |-> transfer(t),
               later |-> transfer(t + 1440), date |-> transfer(get_date(t))]

SortArray(a) ==
    answer' = [command |-> "sort", array |-> a,
               sorted |-> Sort([i \in DOMAIN a |-> <<<<a[i]>>, i>>])]

Query ==
    /\ answer = NoAnswer
    /\ \/ \E id \in TrainIDs, date \in Dates : query_train(id, date)
       \/ \E from, to \in Names, date \in Dates, type \in {"time", "cost"} :
             query_ticket(from, to, date, type) \/ query_transfer(from, to, date, type)
       \/ \E user \in Users : query_order(user)
    /\ UNCHANGED databases

Change ==
    /\ answer = NoAnswer
    /\ \/ \E id \in DOMAIN train_database : release_train(id)
       \/ \E c \in Purchases : c.train_ID \in DOMAIN train_database /\ buy_ticket(c)

\* At the start only: the databases do not matter.
Compute ==
    /\ answer = NoAnswer /\ station_database = <<>>
    /\ \/ \E m \in 6 .. 8, d \in 1 .. 31, h \in {0, 5, 23}, n \in {0, 9, 59} :
             d <= Month[m - 5] /\ ReadDate(<<m, d, h, n>>)
       \/ \E a \in Arrays : SortArray(a)
    /\ UNCHANGED databases

\* A query changes nothing: the next command finds the databases as they were.
Answered == answer # NoAnswer /\ answer' = NoAnswer /\ UNCHANGED databases

Next == Compute \/ Query \/ Change \/ Answered

Spec == Init /\ [][Next]_vars
-----------------------------------------------------------------------------
(* What the answers should be, from the arguments of add_train, the orders *)
(* and a calendar.                                                         *)

\* Minutes from midnight of the first day to the departure from station i
\* and to the arrival there.
Departure(id, i) ==
    LET a == lines[id] IN
    a.start_time + MapThenSumSet(LAMBDA x : a.travel_times[x], 1 .. i - 1)
                 + MapThenSumSet(LAMBDA x : a.stop_over_times[x], 1 .. i - 1)

Arrival(id, j) ==
    LET a == lines[id] IN
    a.start_time + MapThenSumSet(LAMBDA x : a.travel_times[x], 1 .. j - 1)
                 + MapThenSumSet(LAMBDA x : a.stop_over_times[x], 1 .. j - 2)

Fare(id, i, j) == MapThenSumSet(LAMBDA x : lines[id].prices[x], i .. j - 1)

\* Seats that no order takes, between station x and the next.
Free(id, day, x) ==
    LET taken == {k \in DOMAIN order_database :
                     LET o == order_database[k] IN
                     /\ o.train_ID = id /\ o.start_day = day
                     /\ o.status = "success" /\ x \in o.from .. o.to - 1}
    IN lines[id].seat_num - MapThenSumSet(LAMBDA k : order_database[k].num, taken)

Released == {id \in DOMAIN lines : train_database[id].is_released}

\* Every ride from one station to another, on every day of sale.
Rides(from, to) ==
    {r \in UNION {[id : {id}, day : SaleDays(lines[id]),
                   i : DOMAIN lines[id].stations, j : DOMAIN lines[id].stations] :
                      id \in Released} :
        r.i < r.j /\ lines[r.id].stations[r.i] \in from /\ lines[r.id].stations[r.j] \in to}

Leaves(r) == r.day + Departure(r.id, r.i)
Arrives(r) == r.day + Arrival(r.id, r.j)
Costs(r) == Fare(r.id, r.i, r.j)

RideRow(r) ==
    [train_ID |-> r.id, from |-> lines[r.id].stations[r.i], leaving |-> transfer(Leaves(r)),
     to |-> lines[r.id].stations[r.j], arriving |-> transfer(Arrives(r)),
     price |-> Costs(r), seat |-> Min({Free(r.id, r.day, x) : x \in r.i .. r.j - 1})]

LeavesOn(r, date) == SubSeq(transfer(Leaves(r)), 1, 2) = date

\* query_ticket lists exactly the rides on sale that leave the station on the
\* date asked for, whatever day their train starts on, each once, sorted,
\* with the times, the fare and the seats that are really left.
TicketsAreRight ==
    answer.command = "query_ticket" =>
        LET rides == IF ~ is_legal(answer.date) THEN {}
                     ELSE {r \in Rides({answer.from}, {answer.to}) : LeavesOn(r, answer.date)}
            key(r) == <<IF answer.type = "time" THEN Arrives(r) - Leaves(r) ELSE Costs(r), r.id>>
        IN answer.rows = [n \in 1 .. Cardinality(rides) |->
               RideRow(CHOOSE r \in rides :
                   Cardinality({p \in rides : Less(key(p), key(r))}) = n - 1)]

\* query_transfer returns two rides with a change in time, and there are none
\* that are better in the first key or, that being equal, in the second;
\* without an answer there are none at all.
TransfersAreBest ==
    answer.command = "query_transfer" =>
        LET first == {r \in Rides({answer.from}, Names) : LeavesOn(r, answer.date)}
            ways == IF ~ is_legal(answer.date) \/ answer.from = answer.to THEN {}
                    ELSE {w \in first \X Rides(Names, {answer.to}) :
                             /\ w[1].id # w[2].id
                             /\ lines[w[1].id].stations[w[1].j] = lines[w[2].id].stations[w[2].i]
                             /\ Arrives(w[1]) <= Leaves(w[2])}
            duration(w) == Arrives(w[2]) - Leaves(w[1])
            fare(w) == Costs(w[1]) + Costs(w[2])
            key(w) == IF answer.type = "cost" THEN <<fare(w), duration(w)>>
                      ELSE <<duration(w), fare(w)>>
        IN IF ways = {} THEN answer.rows = <<>>
           ELSE \E w \in ways : /\ answer.rows = <<RideRow(w[1]), RideRow(w[2])>>
                                /\ \A v \in ways : ~ Less(key(v), key(w))

\* query_train shows every station of a train with the times, the fare from
\* the first station and the seats left to the next one, before and after
\* the train is released.
TimetableIsRight ==
    answer.command = "query_train" =>
        LET id == answer.train_ID
            day == CHOOSE d \in SaleDays(lines[id]) : SubSeq(transfer(d), 1, 2) = answer.date
            n == Len(lines[id].stations)
            row(i) ==
                [station |-> lines[id].stations[i],
                 arriving |-> IF i = 1 THEN NoTime ELSE transfer(day + Arrival(id, i)),
                 leaving |-> IF i = n THEN NoTime ELSE transfer(day + Departure(id, i)),
                 price |-> Fare(id, 1, i),
                 seat |-> IF i = n THEN MAX_INT ELSE Free(id, day, i)]
        IN answer.rows =
              IF /\ id \in DOMAIN lines
                 /\ \E d \in SaleDays(lines[id]) : SubSeq(transfer(d), 1, 2) = answer.date
              THEN [i \in 1 .. n |-> row(i)] ELSE <<>>

\* query_order lists every order of the user, the newest first, with the
\* clock times and the fare of the ride that was bought, and no other.
OrdersAreListed ==
    answer.command = "query_order" =>
        LET ids == {k[2] : k \in {k \in DOMAIN order_database : k[1] = answer.user}}
            order(n) == order_database[<<answer.user,
                            CHOOSE id \in ids : Cardinality({x \in ids : x > id}) = n - 1>>]
            row(o) == LET r == RideRow([id |-> o.train_ID, day |-> o.start_day,
                                        i |-> o.from, j |-> o.to])
                      IN [status |-> o.status, train_ID |-> r.train_ID, from |-> r.from,
                          leaving |-> r.leaving, to |-> r.to, arriving |-> r.arriving,
                          price |-> r.price, num |-> o.num]
        IN answer.rows = [n \in 1 .. Cardinality(ids) |-> row(order(n))]

DaysIn == (6 :> 30) @@ (7 :> 31) @@ (8 :> 31)

\* A date from June to August is printed as it was read, the same time a day
\* later is on the next day of the calendar, and a date has no time of day.
DatesAreKept ==
    answer.command = "date" =>
        LET c == answer.clock
            tomorrow == IF c[2] = DaysIn[c[1]] THEN <<c[1] + 1, 1>> ELSE <<c[1], c[2] + 1>>
        IN /\ answer.printed = c
           /\ answer.later = tomorrow \o SubSeq(c, 3, 4)
           /\ answer.date = SubSeq(c, 1, 2) \o <<0, 0>>

\* Sort returns the elements it was given, each once, in order.
SortSorts ==
    answer.command = "sort" =>
        LET a == answer.array
            b == answer.sorted
        IN /\ {b[i][2] : i \in DOMAIN b} = DOMAIN a /\ Len(b) = Len(a)
           /\ \A i \in DOMAIN b : b[i][1] = <<a[b[i][2]]>>
           /\ \A i \in 1 .. Len(b) - 1 : b[i][1][1] <= b[i + 1][1][1]
=============================================================================
