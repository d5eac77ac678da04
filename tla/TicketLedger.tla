---------------------------- MODULE TicketLedger ----------------------------
(***************************************************************************)
(* The ticket system implements the ledger: the counters in                *)
(* daytrain_database, the two order files and the refund loop make the     *)
(* decisions that the orders alone would justify.                          *)
(***************************************************************************)
EXTENDS TicketSystem, FiniteSets

\* The trips a release of the train puts on sale.
Sale(train_ID, tt) ==
    [k \in {train_ID} \X SaleDays(tt) |-> FreshDayTrain(tt)]

AllSales == {Sale(i, tt) : i \in TrainIDs, tt \in Timetables}

Trip == UNION {DOMAIN sale : sale \in AllSales}

OrderIDs == {k[2] : k \in DOMAIN order_database}

OrderWithID(id) ==
    order_database[CHOOSE k \in DOMAIN order_database : k[2] = id]

\* An order as the ledger writes it down.
Entry(o) ==
    [purchase |-> [trip |-> <<o.train_ID, o.start_day>>,
                   from |-> o.from, to |-> o.to, num |-> o.num],
     status |-> o.status]

LedgerOrders == [id \in OrderIDs |-> Entry(OrderWithID(id))]

LedgerCapacity ==
    [k \in DOMAIN daytrain_database |->
       FreshDayTrain(train_database[k[1]].timetable)]

Ledger == INSTANCE Ledger WITH
    IDs <- 1 .. MaxOrders,
    Purchases <- [trip : Trip, from : 1 .. maxn, to : 1 .. maxn,
                  num : 1 .. MaxTickets],
    Trips <- AllSales,
    capacity <- LedgerCapacity,
    orders <- LedgerOrders

\* Every buy, refund and promotion of the program is one the ledger allows:
\* seats are granted exactly when they are there.
ImplementsLedger == Ledger!Spec

\* The counters of a trip that count: those of the copy in memory while a
\* refund works on it.
SeatsNow(k) ==
    IF refund.busy /\ k = <<refund.refund_order.train_ID, refund.refund_order.start_day>>
    THEN refund.tp_daytrain
    ELSE daytrain_database[k]

\* The counters agree with the orders: what is left on a segment is the train's
\* capacity minus the tickets of the orders that hold it.
SeatsAddUp ==
    \A k \in DOMAIN daytrain_database, i \in 1 .. maxn :
        SeatsNow(k)[i] = Ledger!Room(k, i)
=============================================================================
