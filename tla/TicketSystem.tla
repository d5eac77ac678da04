---------------------------- MODULE TicketSystem ----------------------------
(***************************************************************************)
(* The program: main() reads one command at a time and hands it to         *)
(* AccountManagement or TrainManagement, which share the login pool.       *)
(***************************************************************************)
EXTENDS Trains

vars == <<accountVars, trainVars>>

Init == AccountInit /\ TrainInit

\* The main loop takes the next command only when the last one has returned.
Idle == ~refund.busy

clean == Idle /\ clean_accounts /\ clean_trains

\* exit or end of input, the destructors, and the next run of the program.
restart == Idle /\ exit_accounts /\ restart_trains

Next ==
    \/ Idle /\ AccountCommand /\ UNCHANGED trainVars
    \/ Idle /\ TrainCommand /\ UNCHANGED accountVars
    \/ RefundStep /\ UNCHANGED accountVars
    \/ clean
    \/ restart

Spec == Init /\ [][Next]_vars

\* A call of refund_ticket keeps running: nothing in it waits for anything.
FairSpec == Spec /\ WF_vars(RefundStep /\ UNCHANGED accountVars)
-----------------------------------------------------------------------------
\* Every database maps its keys to values of its class.
TrainTypeOK ==
    /\ DOMAIN train_database \subseteq TrainIDs
    /\ \A k \in DOMAIN train_database : train_database[k] \in Train
    /\ DOMAIN station_database \subseteq Stations \X TrainIDs
    /\ \A k \in DOMAIN station_database : station_database[k] \in 1 .. maxn
    /\ DOMAIN daytrain_database \subseteq TrainIDs \X Int
    /\ \A k \in DOMAIN daytrain_database : daytrain_database[k] \in DayTrain
    /\ DOMAIN order_database \subseteq Users \X (1 .. MaxOrders)
    /\ \A k \in DOMAIN order_database : order_database[k] \in Order
    /\ DOMAIN pending_order_database \subseteq TrainIDs \X Int \X (1 .. MaxOrders)
    /\ \A k \in DOMAIN pending_order_database :
          pending_order_database[k] \in PendingOrder
    /\ order_num \in 0 .. MaxOrders
    /\ order_size \in 0 .. MaxOrders
    /\ refund \in {NoRefund} \cup RefundCall

TypeOK == AccountTypeOK /\ TrainTypeOK

\* The days of a train that can be booked: released, and inside the sale.
OnSale(train_ID, day) ==
    /\ train_ID \in DOMAIN train_database
    /\ train_database[train_ID].is_released
    /\ day \in SaleDays(train_database[train_ID].timetable)

\* A DayTrain exists for exactly the days on sale.
DayTrainsMatchSale ==
    /\ \A k \in DOMAIN daytrain_database : OnSale(k[1], k[2])
    /\ \A i \in DOMAIN train_database :
          train_database[i].is_released =>
             \A d \in SaleDays(train_database[i].timetable) :
                <<i, d>> \in DOMAIN daytrain_database

\* Every order is for such a day and for a stretch of the line.
OrdersAreForTrainsOnSale ==
    \A k \in DOMAIN order_database :
        LET o == order_database[k]
        IN  /\ OnSale(o.train_ID, o.start_day)
            /\ o.from < o.to
            /\ o.to <= train_database[o.train_ID].timetable.station_num

\* buy_ticket, refund_ticket and query_train take element 0 of what SearchKey
\* returned without looking whether it is empty.  They may, whatever trains
\* were deleted, added again and released: a train that was released can never
\* be deleted.
LookupsFind == DayTrainsMatchSale /\ OrdersAreForTrainsOnSale

\* The waiting list and the orders are two copies of the same fact, kept in
\* two files: an order waits in pending_order_database if and only if its
\* record says pending, and the two describe the same purchase.  A stale entry
\* would sell seats to an order that was refunded; a missing one would leave an
\* order waiting for ever.
PendingMatchesOrders ==
    /\ \A k \in DOMAIN pending_order_database :
          LET p == pending_order_database[k]
          IN  /\ <<p.user_name, k[3]>> \in DOMAIN order_database
              /\ order_database[<<p.user_name, k[3]>>] =
                   [train_ID |-> k[1], start_day |-> k[2], from |-> p.from,
                    to |-> p.to, num |-> p.num, status |-> "pending"]
    /\ \A k \in DOMAIN order_database :
          order_database[k].status = "pending" =>
             <<order_database[k].train_ID, order_database[k].start_day, k[2]>>
                \in DOMAIN pending_order_database

\* An order ID names one order of one user, and the next one is new.  It has to
\* survive clean, which resets neither order_num nor the size order_num is
\* restored from at the next start.
OrderIDsAreUnique ==
    /\ \A k \in DOMAIN order_database : k[2] <= order_num
    /\ \A j, k \in DOMAIN order_database : j[2] = k[2] => j = k
    /\ order_num = order_size

\* No seat is sold twice: no segment of any day goes below zero, in the
\* database or in the copy that a refund is working on.
NeverOversold ==
    /\ \A k \in DOMAIN daytrain_database, i \in 1 .. maxn :
          daytrain_database[k][i] >= 0
    /\ refund.busy => \A i \in 1 .. maxn : refund.tp_daytrain[i] >= 0

\* While refund_ticket runs, the entries it still has to visit are there, are
\* for its own train and day, and that day is on sale.
RefundCallIsCurrent ==
    refund.busy =>
        /\ OnSale(refund.refund_order.train_ID, refund.refund_order.start_day)
        /\ refund.pending_orders
             \subseteq ScanPending(refund.refund_order.train_ID,
                                   refund.refund_order.start_day,
                                   refund.order_ID)
-----------------------------------------------------------------------------
\* An order that still waits and could be served from these seats.
WaitsInVain(k, seats) ==
    LET p == pending_order_database[k]
    IN  HasSeats(seats, p.from, p.to - 1, p.num)

\* The waiting order j is one whose journey the running refund may have helped.
TouchesRefund(j) ==
    /\ pending_order_database[j].from <= refund.refund_order.to
    /\ pending_order_database[j].to >= refund.refund_order.from

\* First come, first served inside a refund: when an order is promoted, no
\* older order that the call has fetched, still waiting and touching the
\* returned journey, could have had the seats.
PromotesTheOldest ==
    \A k \in DOMAIN pending_order_database :
        (refund.busy /\ k \notin DOMAIN pending_order_database') =>
           \A j \in ScanPending(k[1], k[2], refund.order_ID) :
              j[3] < k[3] /\ TouchesRefund(j) => ~WaitsInVain(j, refund.tp_daytrain)
OlderOrdersFirst == [][PromotesTheOldest]_vars

\* One pass is enough: when the seats are written back, none of the fetched
\* orders that touch the returned journey could be served any more.
LeavesNobodyOut ==
    (refund.busy /\ ~refund'.busy) =>
        \A j \in ScanPending(refund.refund_order.train_ID,
                             refund.refund_order.start_day, refund.order_ID) :
           TouchesRefund(j) => ~WaitsInVain(j, refund.tp_daytrain)
OnePassIsEnough == [][LeavesNobodyOut]_vars

\* refund_ticket returns: its loop visits each fetched order once.
RefundReturns == refund.busy ~> ~refund.busy

\* document/Intro_by_assistant.md:439: a waiting order counts as bought as soon
\* as there are seats for it.  Between two commands, no order waits for seats
\* that are free.
NobodyWaitsForFreeSeats ==
    Idle => \A k \in DOMAIN pending_order_database :
               ~WaitsInVain(k, daytrain_database[<<k[1], k[2]>>])
=============================================================================
