------------------------------- MODULE Trains -------------------------------
(***************************************************************************)
(* TrainManagement: trains, the seats left on every day, orders and the    *)
(* waiting list.  A command that answers -1 changes nothing: it is a step  *)
(* in which none of the actions below is taken.                            *)
(*                                                                         *)
(* refund_ticket of a bought ticket walks the waiting list of that train   *)
(* and day.  Its loop is modelled one iteration per step, with the locals  *)
(* of the call in the variable refund; the program is a single thread, so  *)
(* no other command runs until the call has returned.                      *)
(***************************************************************************)
EXTENDS Accounts, Integers

CONSTANTS
    TrainIDs,    \* train IDs that appear in commands
    Stations,    \* station names
    Timetables,  \* the trains add_train may be given
    Dates,       \* dates that appear after -d
    MaxTickets,  \* bound: largest number of tickets asked for at once
    MaxOrders,   \* bound: largest order ID
    maxn         \* the fixed length of every per-station array

\* A train as the constructor lays it out: station i is left on day
\* leaving_date[i] of the journey (leaving_times[i].get_date()).
Timetable ==
    [station_num : 2 .. maxn, stations : [1 .. maxn -> Stations],
     total_seat_num : Nat, leaving_date : [1 .. maxn -> Nat],
     start_sale_date : Int, end_sale_date : Int]

ASSUME TrainAssumption ==
    /\ maxn \in Nat
    /\ MaxOrders \in Nat
    /\ MaxTickets \in Nat
    /\ Dates \subseteq Int
    /\ Timetables \subseteq Timetable

VARIABLES
    train_database,          \* train ID -> [timetable, is_released]
    station_database,        \* <<station, train ID>> -> position on the line
    daytrain_database,       \* <<train ID, day>> -> seats left per segment
    order_database,          \* <<user, order ID>> -> Order
    pending_order_database,  \* <<train ID, day, order ID>> -> PendingOrder
    order_num,               \* the last order ID given out
    order_size,              \* size_ of order_database's index
    refund                   \* the refund_ticket call in progress

trainVars == <<train_database, station_database, daytrain_database,
               order_database, pending_order_database, order_num, order_size,
               refund>>

Status == {"success", "pending", "refunded"}

Train == [timetable : Timetables, is_released : BOOLEAN]

DayTrain == [1 .. maxn -> Int]

Order == [train_ID : TrainIDs, start_day : Int, from : 1 .. maxn,
          to : 1 .. maxn, num : 1 .. MaxTickets, status : Status]

PendingOrder == [user_name : Users, from : 1 .. maxn, to : 1 .. maxn,
                 num : 1 .. MaxTickets]

NoRefund == [busy |-> FALSE]

\* refund_order with its ID, tp_daytrain, and what is left of pending_orders.
RefundCall == [busy : {TRUE}, order_ID : 1 .. MaxOrders, refund_order : Order,
               tp_daytrain : DayTrain,
               pending_orders : SUBSET (TrainIDs \X Int \X (1 .. MaxOrders))]

TrainInit ==
    /\ train_database = EmptyIndex
    /\ station_database = EmptyIndex
    /\ daytrain_database = EmptyIndex
    /\ order_database = EmptyIndex
    /\ pending_order_database = EmptyIndex
    /\ order_num = 0
    /\ order_size = 0
    /\ refund = NoRefund
-----------------------------------------------------------------------------
\* Bug: the last segment is not looked at.
HasSeats_short(daytrain, l, r, num) == \A i \in l .. r - 1 : daytrain[i] >= num

\* query_seat(l, r) >= num, which is all its callers ask.
HasSeats(daytrain, l, r, num) == \A i \in l .. r : daytrain[i] >= num

\* Bug: the rest of the array is lost.
modify_seat_partial(daytrain, l, r, val) == [i \in l .. r |-> daytrain[i] + val]

modify_seat(daytrain, l, r, val) ==
    [i \in 1 .. maxn |-> IF i \in l .. r THEN daytrain[i] + val ELSE daytrain[i]]

SaleDays(tt) == tt.start_sale_date .. tt.end_sale_date

\* The whole line of the train, all seats free.
FreshDayTrain(tt) ==
    [i \in 1 .. maxn |-> IF i <= tt.station_num THEN tt.total_seat_num ELSE 0]
-----------------------------------------------------------------------------
add_train(train_ID, tt) ==
    /\ train_ID \notin DOMAIN train_database
    /\ train_database' = InsertEntry(train_database, train_ID,
                           [timetable |-> tt, is_released |-> FALSE])
    /\ UNCHANGED <<station_database, daytrain_database, order_database,
                   pending_order_database, order_num, order_size, refund>>

\* Bug: a released train is deleted too.
delete_train_released(train_ID) ==
    /\ train_ID \in DOMAIN train_database
    /\ train_database' = DeleteEntry(train_database, train_ID)
    /\ UNCHANGED <<station_database, daytrain_database, order_database,
                   pending_order_database, order_num, order_size, refund>>

delete_train(train_ID) ==
    /\ train_ID \in DOMAIN train_database
    /\ ~train_database[train_ID].is_released
    /\ train_database' = DeleteEntry(train_database, train_ID)
    /\ UNCHANGED <<station_database, daytrain_database, order_database,
                   pending_order_database, order_num, order_size, refund>>

\* release_train: the flag, one DayTrain per sale day, one Station per stop.
release_train(train_ID) ==
    /\ train_ID \in DOMAIN train_database
    /\ ~train_database[train_ID].is_released
    /\ LET tt == train_database[train_ID].timetable
           stop(name) == CHOOSE i \in 1 .. tt.station_num : tt.stations[i] = name
           stops == {<<tt.stations[i], train_ID>> : i \in 1 .. tt.station_num}
       IN  /\ train_database' = InsertEntry(train_database, train_ID,
                                  [timetable |-> tt, is_released |-> TRUE])
           /\ daytrain_database' = InsertEntries(daytrain_database,
                                     {train_ID} \X SaleDays(tt), FreshDayTrain(tt))
           /\ station_database' =
                [k \in DOMAIN station_database \cup stops |->
                   IF k \in stops THEN stop(k[1]) ELSE station_database[k]]
    /\ UNCHANGED <<order_database, pending_order_database, order_num,
                   order_size, refund>>
-----------------------------------------------------------------------------
\* The day the train leaves its first station when it leaves station s on date.
StartDay(train_ID, date, s) ==
    date - train_database[train_ID].timetable.leaving_date[s]

\* Both stations are on the line, the first before the second.
OnTheWay(tt, s, t) == t <= tt.station_num /\ s < t

\* What buy_ticket checks before it looks at the seats; s and t are the
\* positions of the stations named after -f and -t.
MayBuy(user, train_ID, date, s, t, num) ==
    /\ user \in DOMAIN login_pool
    /\ train_ID \in DOMAIN train_database
    /\ train_database[train_ID].is_released
    /\ LET tt == train_database[train_ID].timetable
       IN  /\ tt.total_seat_num >= num
           /\ OnTheWay(tt, s, t)
           /\ StartDay(train_ID, date, s) \in SaleDays(tt)

\* ++order_num, and the order stored under the new ID.
NewOrder(user, train_ID, start_day, s, t, num, status) ==
    /\ order_num' = order_num + 1
    /\ order_database' = InsertEntry(order_database, <<user, order_num + 1>>,
          [train_ID |-> train_ID, start_day |-> start_day, from |-> s,
           to |-> t, num |-> num, status |-> status])
    /\ order_size' = order_size
                       + Inserted(order_database, <<user, order_num + 1>>)

\* buy_ticket when the seats are there, with or without -q true.
buy_ticket(user, train_ID, date, s, t, num) ==
    /\ order_num < MaxOrders
    /\ MayBuy(user, train_ID, date, s, t, num)
    /\ LET start_day == StartDay(train_ID, date, s)
           daytrain == daytrain_database[<<train_ID, start_day>>]
       IN  /\ HasSeats(daytrain, s, t - 1, num)
           /\ daytrain_database' =
                InsertEntry(daytrain_database, <<train_ID, start_day>>,
                            modify_seat(daytrain, s, t - 1, -num))
           /\ NewOrder(user, train_ID, start_day, s, t, num, "success")
    /\ UNCHANGED <<train_database, station_database, pending_order_database,
                   refund>>

\* buy_ticket -q true when they are not: the order joins the waiting list.
queue_ticket(user, train_ID, date, s, t, num) ==
    /\ order_num < MaxOrders
    /\ MayBuy(user, train_ID, date, s, t, num)
    /\ LET start_day == StartDay(train_ID, date, s)
       IN  /\ ~HasSeats(daytrain_database[<<train_ID, start_day>>],
                        s, t - 1, num)
           /\ NewOrder(user, train_ID, start_day, s, t, num, "pending")
           /\ pending_order_database' =
                InsertEntry(pending_order_database,
                            <<train_ID, start_day, order_num + 1>>,
                            [user_name |-> user, from |-> s, to |-> t,
                             num |-> num])
    /\ UNCHANGED <<train_database, station_database, daytrain_database, refund>>
-----------------------------------------------------------------------------
\* Bug: an order can be refunded again.
MayRefund_again(user, id) ==
    /\ user \in DOMAIN login_pool
    /\ <<user, id>> \in DOMAIN order_database

\* What refund_ticket checks: the user's x-th newest order exists and has not
\* been refunded.  Every order of the user is the x-th newest for one x.
MayRefund(user, id) ==
    /\ user \in DOMAIN login_pool
    /\ <<user, id>> \in DOMAIN order_database
    /\ order_database[<<user, id>>].status # "refunded"

\* Bug: the changed copy is not written back.
SetStatus_lost(user, id, status) == order_database' = order_database

\* InsertEntry of a copy of the order with another status.
SetStatus(user, id, status) ==
    order_database' = InsertEntry(order_database, <<user, id>>,
                        [order_database[<<user, id>>] EXCEPT !.status = status])

\* refund_ticket of an order that is still waiting.
refund_pending(user, id) ==
    /\ MayRefund(user, id)
    /\ LET o == order_database[<<user, id>>]
       IN  /\ o.status = "pending"
           /\ pending_order_database' = DeleteEntry(pending_order_database,
                                          <<o.train_ID, o.start_day, id>>)
    /\ SetStatus(user, id, "refunded")
    /\ UNCHANGED <<train_database, station_database, daytrain_database,
                   order_num, order_size, refund>>

\* ScanKey(<<train, day, id>>) with the comparator that ignores the last part
\* of the key: it starts at the first key not below the one given, so it
\* returns the waiting orders of that train and day from id on.
ScanPending(train_ID, start_day, id) ==
    {k \in DOMAIN pending_order_database :
        k[1] = train_ID /\ k[2] = start_day /\ k[3] >= id}

\* refund_ticket of a bought ticket, up to the loop: the order is marked, the
\* seats are given back in a local copy, the waiting list is fetched.
refund_start(user, id) ==
    /\ MayRefund(user, id)
    /\ LET o == order_database[<<user, id>>]
       IN  /\ o.status # "pending"
           /\ refund' =
                [busy |-> TRUE, order_ID |-> id, refund_order |-> o,
                 tp_daytrain |->
                   modify_seat(daytrain_database[<<o.train_ID, o.start_day>>],
                               o.from, o.to - 1, o.num),
                 pending_orders |-> ScanPending(o.train_ID, o.start_day, id)]
    /\ SetStatus(user, id, "refunded")
    /\ UNCHANGED <<train_database, station_database, daytrain_database,
                   pending_order_database, order_num, order_size>>

\* Bug: the list is sorted the other way round.
IsNextPending_newest(k) ==
    /\ k \in refund.pending_orders
    /\ \A j \in refund.pending_orders : k[3] >= j[3]

\* The loop visits the fetched orders in ascending order of ID.
IsNextPending(k) ==
    /\ k \in refund.pending_orders
    /\ \A j \in refund.pending_orders : k[3] <= j[3]

\* Bugs: the station where the journey ends needs a seat; no seats are needed.
CanPromote_inclusive(p) ==
    /\ p.from <= refund.refund_order.to
    /\ p.to >= refund.refund_order.from
    /\ HasSeats(refund.tp_daytrain, p.from, p.to, p.num)
CanPromote_unseated(p) ==
    p.from <= refund.refund_order.to /\ p.to >= refund.refund_order.from

\* The loop's two tests: the journeys touch, and the seats suffice.
CanPromote(p) ==
    /\ p.from <= refund.refund_order.to
    /\ p.to >= refund.refund_order.from
    /\ HasSeats(refund.tp_daytrain, p.from, p.to - 1, p.num)

\* Bug: the loop does not move on.
refund_skip_stuck(k) ==
    IsNextPending(k) /\ ~CanPromote(pending_order_database[k]) /\ UNCHANGED trainVars

refund_skip(k) ==
    /\ IsNextPending(k)
    /\ ~CanPromote(pending_order_database[k])
    /\ refund' = [refund EXCEPT !.pending_orders = @ \ {k}]
    /\ UNCHANGED <<train_database, station_database, daytrain_database,
                   order_database, pending_order_database, order_num, order_size>>

refund_promote(k) ==
    /\ IsNextPending(k)
    /\ CanPromote(pending_order_database[k])
    /\ LET p == pending_order_database[k]
       IN  /\ refund' =
                [refund EXCEPT
                   !.pending_orders = @ \ {k},
                   !.tp_daytrain = modify_seat(@, p.from, p.to - 1, -p.num)]
           /\ SetStatus(p.user_name, k[3], "success")
    /\ pending_order_database' = DeleteEntry(pending_order_database, k)
    /\ UNCHANGED <<train_database, station_database, daytrain_database,
                   order_num, order_size>>

\* After the loop the local copy of the seats is written back.
refund_finish ==
    /\ refund.pending_orders = {}
    /\ daytrain_database' =
         InsertEntry(daytrain_database,
           <<refund.refund_order.train_ID, refund.refund_order.start_day>>,
           refund.tp_daytrain)
    /\ refund' = NoRefund
    /\ UNCHANGED <<train_database, station_database, order_database,
                   pending_order_database, order_num, order_size>>
-----------------------------------------------------------------------------
\* The share of clean that concerns the trains: Clear() keeps size_, and
\* order_num is not reset either.
clean_trains ==
    /\ train_database' = EmptyIndex
    /\ station_database' = EmptyIndex
    /\ daytrain_database' = EmptyIndex
    /\ order_database' = EmptyIndex
    /\ pending_order_database' = EmptyIndex
    /\ UNCHANGED <<order_num, order_size, refund>>

\* Bug: order_num is not restored.
restart_trains_from_zero ==
    /\ order_num' = 0
    /\ UNCHANGED <<train_database, station_database, daytrain_database,
                   order_database, pending_order_database, order_size, refund>>

\* exit and the next start: the databases come back from their files and
\* order_num is taken from the size of the order database.
restart_trains ==
    /\ order_num' = order_size
    /\ UNCHANGED <<train_database, station_database, daytrain_database,
                   order_database, pending_order_database, order_size, refund>>

TrainCommand ==
    \/ \E train_ID \in TrainIDs :
          \/ \E tt \in Timetables : add_train(train_ID, tt)
          \/ delete_train(train_ID)
          \/ release_train(train_ID)
    \/ \E user \in Users, train_ID \in TrainIDs, date \in Dates,
          s, t \in 1 .. maxn, num \in 1 .. MaxTickets :
          \/ buy_ticket(user, train_ID, date, s, t, num)
          \/ queue_ticket(user, train_ID, date, s, t, num)
    \/ \E user \in Users, id \in 1 .. MaxOrders :
          \/ refund_pending(user, id)
          \/ refund_start(user, id)

RefundStep ==
    /\ refund.busy
    /\ \/ \E k \in refund.pending_orders : refund_skip(k) \/ refund_promote(k)
       \/ refund_finish
=============================================================================
