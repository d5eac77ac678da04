---------------------------- MODULE TicketProofs ----------------------------
(***************************************************************************)
(* The safety invariants of the ticket system for any number of users,     *)
(* trains, stations, orders and tickets.                                   *)
(***************************************************************************)
EXTENDS TicketSystem, AccountsProofs

\* None of these is inductive alone.  Promotion relies on the waiting list
\* describing existing orders (PendingMatchesOrders), which relies on order IDs
\* being unique, which relies on order_num being the size of the database.
TicketInv ==
    /\ TrainTypeOK
    /\ DayTrainsMatchSale
    /\ OrdersAreForTrainsOnSale
    /\ PendingMatchesOrders
    /\ OrderIDsAreUnique
    /\ NeverOversold
    /\ RefundCallIsCurrent

\* The empty databases satisfy the invariant.
LEMMA TicketInitInv == TrainInit => TicketInv
BY EmptyIndexIs, TrainAssumption
   DEF TrainInit, TicketInv, TrainTypeOK, DayTrainsMatchSale,
       OrdersAreForTrainsOnSale, PendingMatchesOrders, OrderIDsAreUnique,
       NeverOversold, RefundCallIsCurrent, NoRefund

\* A step that leaves the released trains and everything but the trains alone.
LEMMA TrainsOnlyStep ==
    ASSUME TicketInv,
           DOMAIN train_database' \subseteq TrainIDs,
           \A i \in DOMAIN train_database' : train_database'[i] \in Train,
           \A i \in DOMAIN train_database :
              train_database[i].is_released =>
                 i \in DOMAIN train_database' /\ train_database'[i] = train_database[i],
           \A i \in DOMAIN train_database' :
              train_database'[i].is_released =>
                 i \in DOMAIN train_database /\ train_database'[i] = train_database[i],
           UNCHANGED <<station_database, daytrain_database, order_database,
                       pending_order_database, order_num, order_size, refund>>
    PROVE  TicketInv'
<1>1. \A i, d : OnSale(i, d) => OnSale(i, d)' /\ train_database'[i] = train_database[i]
  BY DEF OnSale
<1>2. TrainTypeOK'
  BY DEF TicketInv, TrainTypeOK
<1>3. DayTrainsMatchSale'
  BY <1>1 DEF TicketInv, DayTrainsMatchSale
<1>4. OrdersAreForTrainsOnSale'
  BY <1>1 DEF TicketInv, OrdersAreForTrainsOnSale
<1>5. PendingMatchesOrders' /\ OrderIDsAreUnique' /\ NeverOversold'
  BY DEF TicketInv, PendingMatchesOrders, OrderIDsAreUnique, NeverOversold
<1>6. RefundCallIsCurrent'
  BY <1>1 DEF TicketInv, RefundCallIsCurrent, ScanPending
<1> QED
  BY <1>2, <1>3, <1>4, <1>5, <1>6 DEF TicketInv

\* add_train stores a train that is not released: no order is for it yet.
LEMMA AddTrainStep ==
    ASSUME TicketInv, NEW train_ID \in TrainIDs, NEW tt \in Timetables,
           add_train(train_ID, tt)
    PROVE  TicketInv'
<1>1. /\ DOMAIN train_database' = DOMAIN train_database \cup {train_ID}
      /\ train_database'[train_ID] = [timetable |-> tt, is_released |-> FALSE]
      /\ \A i \in DOMAIN train_database : train_database'[i] = train_database[i]
  BY DEF add_train, InsertEntry
<1>a. [timetable |-> tt, is_released |-> FALSE] \in Train
  BY DEF Train
<1>2. \A i \in DOMAIN train_database' : train_database'[i] \in Train
  BY <1>1, <1>a DEF TicketInv, TrainTypeOK
<1>3. DOMAIN train_database' \subseteq TrainIDs
  BY <1>1 DEF TicketInv, TrainTypeOK
<1>4. UNCHANGED <<station_database, daytrain_database, order_database,
                  pending_order_database, order_num, order_size, refund>>
  BY DEF add_train
<1> QED
  BY <1>1, <1>2, <1>3, <1>4, TrainsOnlyStep

\* delete_train removes a train that was never released, so nothing refers to it.
LEMMA DeleteTrainStep ==
    ASSUME TicketInv, NEW train_ID \in TrainIDs, delete_train(train_ID)
    PROVE  TicketInv'
<1>1. /\ DOMAIN train_database' = DOMAIN train_database \ {train_ID}
      /\ \A i \in DOMAIN train_database' : train_database'[i] = train_database[i]
      /\ ~train_database[train_ID].is_released
  BY DEF delete_train, DeleteEntry
<1>2. /\ DOMAIN train_database' \subseteq TrainIDs
      /\ \A i \in DOMAIN train_database' : train_database'[i] \in Train
  BY <1>1 DEF TicketInv, TrainTypeOK
<1>4. UNCHANGED <<station_database, daytrain_database, order_database,
                  pending_order_database, order_num, order_size, refund>>
  BY DEF delete_train
<1> QED
  BY <1>1, <1>2, <1>4, TrainsOnlyStep

\* release_train makes the DayTrains of every sale day, all seats free.
LEMMA ReleaseTrainStep ==
    ASSUME TicketInv, NEW train_ID \in TrainIDs, release_train(train_ID)
    PROVE  TicketInv'
<1> DEFINE tt == train_database[train_ID].timetable
           days == {train_ID} \X SaleDays(tt)
           stop(name) == CHOOSE i \in 1 .. tt.station_num : tt.stations[i] = name
           stops == {<<tt.stations[i], train_ID>> : i \in 1 .. tt.station_num}
<1>1. /\ train_ID \in DOMAIN train_database
      /\ ~train_database[train_ID].is_released
      /\ DOMAIN train_database' = DOMAIN train_database
      /\ train_database'[train_ID] = [timetable |-> tt, is_released |-> TRUE]
      /\ \A i \in DOMAIN train_database :
            i # train_ID => train_database'[i] = train_database[i]
  BY DEF release_train, InsertEntry
<1>2. /\ DOMAIN daytrain_database' = DOMAIN daytrain_database \cup days
      /\ \A k \in DOMAIN daytrain_database' :
            daytrain_database'[k] = IF k \in days THEN FreshDayTrain(tt)
                                    ELSE daytrain_database[k]
  BY DEF release_train, InsertEntries
<1>3. station_database' = [k \in DOMAIN station_database \cup stops |->
                             IF k \in stops THEN stop(k[1]) ELSE station_database[k]]
  BY DEF release_train
<1>4. UNCHANGED <<order_database, pending_order_database, order_num, order_size,
                  refund>>
  BY DEF release_train
<1>5. tt \in Timetables /\ tt \in Timetable
  BY <1>1, TrainAssumption DEF TicketInv, TrainTypeOK, Train
<1>6. /\ tt.station_num \in 2 .. maxn
      /\ tt.stations \in [1 .. maxn -> Stations]
      /\ tt.total_seat_num \in Nat
      /\ tt.start_sale_date \in Int
      /\ tt.end_sale_date \in Int
  BY <1>5 DEF Timetable
<1>7. /\ FreshDayTrain(tt) \in DayTrain
      /\ \A i \in 1 .. maxn : FreshDayTrain(tt)[i] >= 0
  <2> HIDE DEF tt
  <2> QED
    BY <1>6, TrainAssumption DEF FreshDayTrain, DayTrain
<1>8. \A i, d : OnSale(i, d) =>
         /\ OnSale(i, d)'
         /\ i # train_ID
         /\ train_database'[i] = train_database[i]
  BY <1>1 DEF OnSale
<1>9. \A k \in days : /\ k \in TrainIDs \X Int
                      /\ OnSale(k[1], k[2])'
  BY <1>1, <1>6 DEF OnSale, SaleDays
<1>10. TrainTypeOK'
  <2>1. /\ DOMAIN train_database' \subseteq TrainIDs
        /\ \A i \in DOMAIN train_database' : train_database'[i] \in Train
    <3>1. [timetable |-> tt, is_released |-> TRUE] \in Train
      BY <1>5 DEF Train
    <3> QED
      BY <1>1, <3>1 DEF TicketInv, TrainTypeOK
  <2>2. /\ DOMAIN daytrain_database' \subseteq TrainIDs \X Int
        /\ \A k \in DOMAIN daytrain_database' : daytrain_database'[k] \in DayTrain
    BY <1>2, <1>7, <1>9 DEF TicketInv, TrainTypeOK
  <2>3. /\ DOMAIN station_database' \subseteq Stations \X TrainIDs
        /\ \A k \in DOMAIN station_database' : station_database'[k] \in 1 .. maxn
    <3> HIDE DEF tt
    <3>1. ASSUME NEW k \in stops
          PROVE  k \in Stations \X TrainIDs /\ stop(k[1]) \in 1 .. maxn
      <4>1. PICK i \in 1 .. tt.station_num : k = <<tt.stations[i], train_ID>>
        OBVIOUS
      <4>2. stop(k[1]) \in 1 .. tt.station_num
        BY <4>1
      <4> QED
        BY <4>1, <4>2, <1>6, TrainAssumption
    <3> HIDE DEF stops, stop
    <3> QED
      BY <1>3, <3>1 DEF TicketInv, TrainTypeOK
  <2> QED
    BY <2>1, <2>2, <2>3, <1>4 DEF TicketInv, TrainTypeOK
<1>11. DayTrainsMatchSale'
  <2>1. \A k \in DOMAIN daytrain_database' : OnSale(k[1], k[2])'
    BY <1>2, <1>8, <1>9 DEF TicketInv, DayTrainsMatchSale
  <2>2. ASSUME NEW i \in DOMAIN train_database', train_database'[i].is_released,
               NEW d \in SaleDays(train_database'[i].timetable)
        PROVE  <<i, d>> \in DOMAIN daytrain_database'
    <3>1. CASE i = train_ID
      BY <2>2, <3>1, <1>1, <1>2
    <3>2. CASE i # train_ID
      BY <2>2, <3>2, <1>1, <1>2 DEF TicketInv, DayTrainsMatchSale
    <3> QED
      BY <3>1, <3>2
  <2> QED
    BY <2>1, <2>2 DEF DayTrainsMatchSale
<1>12. OrdersAreForTrainsOnSale'
  BY <1>4, <1>8 DEF TicketInv, OrdersAreForTrainsOnSale
<1>13. PendingMatchesOrders' /\ OrderIDsAreUnique'
  BY <1>4 DEF TicketInv, PendingMatchesOrders, OrderIDsAreUnique
<1>14. NeverOversold'
  BY <1>2, <1>4, <1>7 DEF TicketInv, NeverOversold
<1>15. RefundCallIsCurrent'
  BY <1>4, <1>8 DEF TicketInv, RefundCallIsCurrent, ScanPending
<1> QED
  BY <1>10, <1>11, <1>12, <1>13, <1>14, <1>15 DEF TicketInv

\* modify_seat keeps the type, and never goes below zero when it takes no more
\* than HasSeats found.
LEMMA ModifySeatIs ==
    ASSUME NEW dt \in DayTrain, NEW l \in Int, NEW r \in Int, NEW val \in Int
    PROVE  /\ modify_seat(dt, l, r, val) \in DayTrain
           /\ (/\ \A i \in 1 .. maxn : dt[i] >= 0
               /\ val >= 0 \/ HasSeats(dt, l, r, -val))
                => \A i \in 1 .. maxn : modify_seat(dt, l, r, val)[i] >= 0
BY TrainAssumption DEF modify_seat, HasSeats, DayTrain

\* The order that NewOrder stores.
NewOrderValue(train_ID, date, s, t, num, status) ==
    [train_ID |-> train_ID, start_day |-> StartDay(train_ID, date, s),
     from |-> s, to |-> t, num |-> num, status |-> status]

\* A purchase, whichever way it goes: the trains, the sale and what a refund is
\* doing are not touched, and a new order is added under a new ID.
LEMMA NewOrderStep ==
    ASSUME TicketInv, NEW user \in Users, NEW train_ID \in TrainIDs,
           NEW date \in Dates, NEW s \in 1 .. maxn, NEW t \in 1 .. maxn,
           NEW num \in 1 .. MaxTickets, NEW status \in {"success", "pending"},
           order_num < MaxOrders,
           MayBuy(user, train_ID, date, s, t, num),
           NewOrder(user, train_ID, StartDay(train_ID, date, s), s, t, num, status),
           UNCHANGED train_database
    PROVE  /\ NewOrderValue(train_ID, date, s, t, num, status) \in Order
           /\ <<user, order_num + 1>> \notin DOMAIN order_database
           /\ DOMAIN order_database' =
                DOMAIN order_database \cup {<<user, order_num + 1>>}
           /\ order_database'[<<user, order_num + 1>>] =
                NewOrderValue(train_ID, date, s, t, num, status)
           /\ \A k \in DOMAIN order_database : order_database'[k] = order_database[k]
           /\ \A k \in DOMAIN order_database : k[2] # order_num + 1
           /\ DOMAIN order_database' \subseteq Users \X (1 .. MaxOrders)
           /\ \A k \in DOMAIN order_database' : order_database'[k] \in Order
           /\ order_num' \in 0 .. MaxOrders
           /\ order_size' \in 0 .. MaxOrders
           /\ <<train_ID, StartDay(train_ID, date, s)>> \in DOMAIN daytrain_database
           /\ OrdersAreForTrainsOnSale'
           /\ OrderIDsAreUnique'
<1> DEFINE start_day == StartDay(train_ID, date, s)
           key == <<user, order_num + 1>>
           o == [train_ID |-> train_ID, start_day |-> start_day, from |-> s,
                 to |-> t, num |-> num, status |-> status]
           tt == train_database[train_ID].timetable
<1>1. /\ order_num \in 0 .. MaxOrders
      /\ order_size = order_num
      /\ MaxOrders \in Nat
  BY TrainAssumption DEF TicketInv, TrainTypeOK, OrderIDsAreUnique
<1>2. key \notin DOMAIN order_database
      /\ \A k \in DOMAIN order_database : k[2] \in 1 .. order_num
  BY <1>1 DEF TicketInv, TrainTypeOK, OrderIDsAreUnique
<1>3. /\ DOMAIN order_database' = DOMAIN order_database \cup {key}
      /\ order_database'[key] = o
      /\ \A k \in DOMAIN order_database : order_database'[k] = order_database[k]
      /\ order_num' = order_num + 1
      /\ order_size' = order_size + 1
  BY <1>2 DEF NewOrder, InsertEntry, Inserted
<1>4. /\ train_ID \in DOMAIN train_database
      /\ train_database[train_ID].is_released
      /\ t <= tt.station_num
      /\ s < t
      /\ start_day \in SaleDays(tt)
  BY DEF MayBuy, OnTheWay
<1>5. tt \in Timetable
  BY <1>4, TrainAssumption DEF TicketInv, TrainTypeOK, Train
<1>6. start_day \in Int /\ OnSale(train_ID, start_day)
  BY <1>4, <1>5 DEF SaleDays, Timetable, OnSale
<1>7. o \in Order
  <2> HIDE DEF start_day
  <2> QED
    BY <1>6 DEF Order, Status
<1>8. <<train_ID, start_day>> \in DOMAIN daytrain_database
  BY <1>4 DEF TicketInv, DayTrainsMatchSale
<1>9. DOMAIN order_database' \subseteq Users \X (1 .. MaxOrders)
  BY <1>1, <1>3 DEF TicketInv, TrainTypeOK
<1>10. \A k \in DOMAIN order_database' : order_database'[k] \in Order
  <2> HIDE DEF o
  <2> QED
    BY <1>3, <1>7 DEF TicketInv, TrainTypeOK
<1>12. OrdersAreForTrainsOnSale'
  <2> DEFINE Sound(q) ==
               /\ OnSale(q.train_ID, q.start_day)
               /\ q.from < q.to
               /\ q.to <= train_database[q.train_ID].timetable.station_num
  <2>1. \A k \in DOMAIN order_database : Sound(order_database[k])
    BY DEF TicketInv, OrdersAreForTrainsOnSale
  <2>2. Sound(o)
    BY <1>4, <1>6
  <2>3. \A k \in DOMAIN order_database' : Sound(order_database'[k])
    <3> HIDE DEF o, Sound
    <3> QED
      BY <1>3, <2>1, <2>2
  <2> QED
    BY <2>3 DEF OrdersAreForTrainsOnSale, OnSale
<1>13. OrderIDsAreUnique'
  <2> HIDE DEF o
  <2>1. \A k \in DOMAIN order_database' : k[2] <= order_num'
    BY <1>1, <1>2, <1>3
  <2>2. \A j, k \in DOMAIN order_database' : j[2] = k[2] => j = k
    BY <1>1, <1>2, <1>3 DEF TicketInv, OrderIDsAreUnique
  <2> QED
    BY <1>1, <1>3, <2>1, <2>2 DEF OrderIDsAreUnique
<1>14. \A k \in DOMAIN order_database : k[2] # order_num + 1
  BY <1>1, <1>2
<1>15. order_num' \in 0 .. MaxOrders /\ order_size' \in 0 .. MaxOrders
  BY <1>1, <1>3
<1> QED
  BY <1>2, <1>3, <1>7, <1>8, <1>9, <1>10, <1>12, <1>13, <1>14, <1>15
     DEF NewOrderValue

\* buy_ticket takes only seats that it has seen to be free.
LEMMA BuyTicketStep ==
    ASSUME TicketInv, NEW user \in Users, NEW train_ID \in TrainIDs,
           NEW date \in Dates, NEW s \in 1 .. maxn, NEW t \in 1 .. maxn,
           NEW num \in 1 .. MaxTickets,
           buy_ticket(user, train_ID, date, s, t, num)
    PROVE  TicketInv'
<1> DEFINE start_day == StartDay(train_ID, date, s)
           day == <<train_ID, start_day>>
           seats == modify_seat(daytrain_database[day], s, t - 1, -num)
           key == <<user, order_num + 1>>
           o == NewOrderValue(train_ID, date, s, t, num, "success")
<1>1. /\ order_num < MaxOrders
      /\ MayBuy(user, train_ID, date, s, t, num)
      /\ HasSeats(daytrain_database[day], s, t - 1, num)
      /\ NewOrder(user, train_ID, start_day, s, t, num, "success")
      /\ daytrain_database' = InsertEntry(daytrain_database, day, seats)
      /\ UNCHANGED <<train_database, station_database, pending_order_database,
                     refund>>
  BY DEF buy_ticket
<1>2. /\ DOMAIN order_database' = DOMAIN order_database \cup {key}
      /\ order_database'[key] = o
      /\ \A k \in DOMAIN order_database : order_database'[k] = order_database[k]
      /\ DOMAIN order_database' \subseteq Users \X (1 .. MaxOrders)
      /\ \A k \in DOMAIN order_database' : order_database'[k] \in Order
      /\ order_num' \in 0 .. MaxOrders
      /\ order_size' \in 0 .. MaxOrders
      /\ day \in DOMAIN daytrain_database
      /\ OrdersAreForTrainsOnSale'
      /\ OrderIDsAreUnique'
  <2>1. "success" \in {"success", "pending"} /\ train_database' = train_database
    BY <1>1
  <2> QED
    BY <1>1, <2>1, NewOrderStep
<1>3. daytrain_database[day] \in DayTrain
      /\ \A i \in 1 .. maxn : daytrain_database[day][i] >= 0
  BY <1>2 DEF TicketInv, TrainTypeOK, NeverOversold
<1>4. seats \in DayTrain /\ \A i \in 1 .. maxn : seats[i] >= 0
  <2>1. -num \in Int /\ -(-num) = num /\ s \in Int /\ t - 1 \in Int
    BY TrainAssumption
  <2> HIDE DEF day
  <2> QED
    BY <1>1, <1>3, <2>1, ModifySeatIs
<1> HIDE DEF day, seats, o
<1>5. /\ DOMAIN daytrain_database' = DOMAIN daytrain_database
      /\ daytrain_database'[day] = seats
      /\ \A k \in DOMAIN daytrain_database :
            k # day => daytrain_database'[k] = daytrain_database[k]
  BY <1>1, <1>2 DEF InsertEntry
<1>6. TrainTypeOK'
  BY <1>1, <1>2, <1>4, <1>5 DEF TicketInv, TrainTypeOK
<1>7. DayTrainsMatchSale'
  BY <1>1, <1>5 DEF TicketInv, DayTrainsMatchSale, OnSale
<1>8. PendingMatchesOrders'
  <2>1. o.status = "success"
    BY DEF o, NewOrderValue
  <2> QED
    BY <1>1, <1>2, <2>1 DEF TicketInv, PendingMatchesOrders
<1>9. NeverOversold'
  BY <1>1, <1>4, <1>5 DEF TicketInv, NeverOversold
<1>10. RefundCallIsCurrent'
  BY <1>1 DEF TicketInv, RefundCallIsCurrent, ScanPending, OnSale
<1> QED
  BY <1>2, <1>6, <1>7, <1>8, <1>9, <1>10 DEF TicketInv

\* queue_ticket writes the order and its waiting-list entry together.
LEMMA QueueTicketStep ==
    ASSUME TicketInv, Idle, NEW user \in Users, NEW train_ID \in TrainIDs,
           NEW date \in Dates, NEW s \in 1 .. maxn, NEW t \in 1 .. maxn,
           NEW num \in 1 .. MaxTickets,
           queue_ticket(user, train_ID, date, s, t, num)
    PROVE  TicketInv'
<1> DEFINE start_day == StartDay(train_ID, date, s)
           key == <<user, order_num + 1>>
           pkey == <<train_ID, start_day, order_num + 1>>
           p == [user_name |-> user, from |-> s, to |-> t, num |-> num]
           o == NewOrderValue(train_ID, date, s, t, num, "pending")
<1>1. /\ order_num < MaxOrders
      /\ MayBuy(user, train_ID, date, s, t, num)
      /\ NewOrder(user, train_ID, start_day, s, t, num, "pending")
      /\ pending_order_database' = InsertEntry(pending_order_database, pkey, p)
      /\ UNCHANGED <<train_database, station_database, daytrain_database, refund>>
  BY DEF queue_ticket
<1>2. /\ o \in Order
      /\ DOMAIN order_database' = DOMAIN order_database \cup {key}
      /\ order_database'[key] = o
      /\ \A k \in DOMAIN order_database : order_database'[k] = order_database[k]
      /\ \A k \in DOMAIN order_database : k[2] # order_num + 1
      /\ DOMAIN order_database' \subseteq Users \X (1 .. MaxOrders)
      /\ \A k \in DOMAIN order_database' : order_database'[k] \in Order
      /\ order_num' \in 0 .. MaxOrders
      /\ order_size' \in 0 .. MaxOrders
      /\ OrdersAreForTrainsOnSale'
      /\ OrderIDsAreUnique'
  <2>1. "pending" \in {"success", "pending"} /\ train_database' = train_database
    BY <1>1
  <2> QED
    BY <1>1, <2>1, NewOrderStep
<1>3. \A k \in DOMAIN pending_order_database : k[3] # order_num + 1
  BY <1>2 DEF TicketInv, PendingMatchesOrders
<1>4. /\ DOMAIN pending_order_database' = DOMAIN pending_order_database \cup {pkey}
      /\ pending_order_database'[pkey] = p
      /\ \A k \in DOMAIN pending_order_database :
            pending_order_database'[k] = pending_order_database[k]
  BY <1>1, <1>3 DEF InsertEntry
<1>5. /\ pkey \in TrainIDs \X Int \X (1 .. MaxOrders)
      /\ p \in PendingOrder
  <2>1. start_day \in Int
    BY <1>2 DEF Order, NewOrderValue
  <2>2. order_num + 1 \in 1 .. MaxOrders
    BY <1>1, TrainAssumption DEF TicketInv, TrainTypeOK
  <2> QED
    BY <2>1, <2>2 DEF PendingOrder
<1>6. TrainTypeOK'
  <2> HIDE DEF p, pkey, o
  <2> QED
    BY <1>1, <1>2, <1>4, <1>5 DEF TicketInv, TrainTypeOK
<1>7. DayTrainsMatchSale' /\ NeverOversold'
  BY <1>1 DEF TicketInv, DayTrainsMatchSale, OnSale, NeverOversold
<1>8. PendingMatchesOrders'
  <2>1. ASSUME NEW k \in DOMAIN pending_order_database'
        PROVE  /\ <<pending_order_database'[k].user_name, k[3]>>
                     \in DOMAIN order_database'
               /\ order_database'[<<pending_order_database'[k].user_name, k[3]>>] =
                   [train_ID |-> k[1], start_day |-> k[2],
                    from |-> pending_order_database'[k].from,
                    to |-> pending_order_database'[k].to,
                    num |-> pending_order_database'[k].num, status |-> "pending"]
    <3>1. CASE k = pkey
      BY <3>1, <1>2, <1>4 DEF NewOrderValue
    <3>2. CASE k \in DOMAIN pending_order_database
      BY <3>2, <1>2, <1>4 DEF TicketInv, PendingMatchesOrders
    <3> QED
      BY <3>1, <3>2, <1>4
  <2>2. ASSUME NEW k \in DOMAIN order_database', order_database'[k].status = "pending"
        PROVE  <<order_database'[k].train_ID, order_database'[k].start_day, k[2]>>
                  \in DOMAIN pending_order_database'
    <3>1. CASE k = key
      BY <3>1, <1>2, <1>4 DEF NewOrderValue
    <3>2. CASE k \in DOMAIN order_database
      BY <2>2, <3>2, <1>2, <1>4 DEF TicketInv, PendingMatchesOrders
    <3> QED
      BY <3>1, <3>2, <1>2
  <2> QED
    BY <2>1, <2>2 DEF PendingMatchesOrders
<1>9. RefundCallIsCurrent'
  BY <1>1 DEF Idle, RefundCallIsCurrent
<1> QED
  BY <1>2, <1>6, <1>7, <1>8, <1>9 DEF TicketInv

\* The entry k of the waiting list and its order.
LEMMA PendingEntry ==
    ASSUME TicketInv, NEW k \in DOMAIN pending_order_database
    PROVE  /\ k = <<k[1], k[2], k[3]>>
           /\ k[3] \in 1 .. MaxOrders
           /\ pending_order_database[k] \in PendingOrder
           /\ pending_order_database[k].user_name \in Users
           /\ <<pending_order_database[k].user_name, k[3]>> \in DOMAIN order_database
           /\ order_database[<<pending_order_database[k].user_name, k[3]>>].train_ID
                = k[1]
           /\ order_database[<<pending_order_database[k].user_name, k[3]>>].start_day
                = k[2]
           /\ order_database[<<pending_order_database[k].user_name, k[3]>>].status
                = "pending"
<1>1. k \in TrainIDs \X Int \X (1 .. MaxOrders)
  BY DEF TicketInv, TrainTypeOK
<1>2. pending_order_database[k] \in PendingOrder
  BY DEF TicketInv, TrainTypeOK
<1>3. /\ <<pending_order_database[k].user_name, k[3]>> \in DOMAIN order_database
      /\ order_database[<<pending_order_database[k].user_name, k[3]>>] =
           [train_ID |-> k[1], start_day |-> k[2],
            from |-> pending_order_database[k].from,
            to |-> pending_order_database[k].to,
            num |-> pending_order_database[k].num, status |-> "pending"]
  BY DEF TicketInv, PendingMatchesOrders
<1>4. pending_order_database[k].user_name \in Users
  BY <1>2 DEF PendingOrder
<1> QED
  BY <1>1, <1>2, <1>3, <1>4

\* SetStatus changes the status of one existing order and nothing else: the
\* orders stay typed, stay on sale, and keep their IDs.
LEMMA SetStatusStep ==
    ASSUME TicketInv, NEW user \in Users, NEW id \in 1 .. MaxOrders,
           NEW status \in Status,
           <<user, id>> \in DOMAIN order_database,
           SetStatus(user, id, status),
           UNCHANGED <<train_database, order_num, order_size>>
    PROVE  /\ DOMAIN order_database' = DOMAIN order_database
           /\ order_database'[<<user, id>>] =
                [order_database[<<user, id>>] EXCEPT !.status = status]
           /\ order_database'[<<user, id>>].status = status
           /\ \A k \in DOMAIN order_database :
                 k # <<user, id>> => order_database'[k] = order_database[k]
           /\ \A k \in DOMAIN order_database : order_database'[k] \in Order
           /\ OrdersAreForTrainsOnSale'
           /\ OrderIDsAreUnique'
<1> DEFINE o == order_database[<<user, id>>]
           n == [o EXCEPT !.status = status]
<1>1. /\ DOMAIN order_database' = DOMAIN order_database
      /\ order_database'[<<user, id>>] = n
      /\ \A k \in DOMAIN order_database :
            k # <<user, id>> => order_database'[k] = order_database[k]
  BY DEF SetStatus, InsertEntry
<1>2. o \in Order
  BY DEF TicketInv, TrainTypeOK
<1>3. /\ n \in Order
      /\ n.status = status
      /\ n.train_ID = o.train_ID /\ n.start_day = o.start_day
      /\ n.from = o.from /\ n.to = o.to /\ n.num = o.num
  BY <1>2 DEF Order
<1> HIDE DEF n
<1>4. \A k \in DOMAIN order_database : order_database'[k] \in Order
  BY <1>1, <1>3 DEF TicketInv, TrainTypeOK
<1>5. OrdersAreForTrainsOnSale'
  BY <1>1, <1>3 DEF TicketInv, OrdersAreForTrainsOnSale, OnSale
<1>6. OrderIDsAreUnique'
  BY <1>1 DEF TicketInv, OrderIDsAreUnique
<1> QED
  BY <1>1, <1>3, <1>4, <1>5, <1>6 DEF n

\* refund_ticket of a waiting order removes its waiting-list entry as well.
LEMMA RefundPendingStep ==
    ASSUME TicketInv, Idle, NEW user \in Users, NEW id \in 1 .. MaxOrders,
           refund_pending(user, id)
    PROVE  TicketInv'
<1> DEFINE o == order_database[<<user, id>>]
           pkey == <<o.train_ID, o.start_day, id>>
<1>1. /\ <<user, id>> \in DOMAIN order_database
      /\ o.status = "pending"
      /\ pending_order_database' = DeleteEntry(pending_order_database, pkey)
      /\ SetStatus(user, id, "refunded")
      /\ UNCHANGED <<train_database, station_database, daytrain_database,
                     order_num, order_size, refund>>
  BY DEF refund_pending, MayRefund
<1>2. /\ DOMAIN order_database' = DOMAIN order_database
      /\ order_database'[<<user, id>>].status = "refunded"
      /\ \A k \in DOMAIN order_database :
            k # <<user, id>> => order_database'[k] = order_database[k]
      /\ \A k \in DOMAIN order_database : order_database'[k] \in Order
      /\ OrdersAreForTrainsOnSale'
      /\ OrderIDsAreUnique'
  <2>1. "refunded" \in Status
    BY DEF Status
  <2> QED
    BY <1>1, <2>1, SetStatusStep
<1>3. /\ DOMAIN pending_order_database' = DOMAIN pending_order_database \ {pkey}
      /\ \A k \in DOMAIN pending_order_database' :
            pending_order_database'[k] = pending_order_database[k]
  BY <1>1 DEF DeleteEntry
<1>4. TrainTypeOK'
  BY <1>1, <1>2, <1>3 DEF TicketInv, TrainTypeOK
<1>5. DayTrainsMatchSale' /\ NeverOversold' /\ RefundCallIsCurrent'
  BY <1>1 DEF TicketInv, DayTrainsMatchSale, OnSale, NeverOversold, Idle,
       RefundCallIsCurrent
<1>6. PendingMatchesOrders'
  <2>1. ASSUME NEW k \in DOMAIN pending_order_database'
        PROVE  <<pending_order_database[k].user_name, k[3]>> # <<user, id>>
    <3>1. SUFFICES ASSUME <<pending_order_database[k].user_name, k[3]>> = <<user, id>>
                   PROVE  FALSE
      OBVIOUS
    <3>2. o.train_ID = k[1] /\ o.start_day = k[2] /\ k[3] = id
      BY <1>3, <3>1, PendingEntry
    <3>3. k = <<k[1], k[2], k[3]>>
      BY <1>3, PendingEntry
    <3> QED
      BY <1>3, <3>2, <3>3
  <2>2. ASSUME NEW k \in DOMAIN order_database, order_database'[k].status = "pending"
        PROVE  <<order_database'[k].train_ID, order_database'[k].start_day, k[2]>>
                  \in DOMAIN pending_order_database'
    <3>1. k # <<user, id>> /\ order_database'[k] = order_database[k]
      BY <2>2, <1>2
    <3>2. k[2] # id
      BY <3>1, <1>1 DEF TicketInv, OrderIDsAreUnique
    <3> QED
      BY <2>2, <3>1, <3>2, <1>3 DEF TicketInv, PendingMatchesOrders
  <2> QED
    BY <2>1, <2>2, <1>2, <1>3 DEF TicketInv, PendingMatchesOrders
<1> QED
  BY <1>2, <1>4, <1>5, <1>6 DEF TicketInv

\* The first part of refund_ticket: the order is marked, its seats are in the copy.
LEMMA RefundStartStep ==
    ASSUME TicketInv, NEW user \in Users, NEW id \in 1 .. MaxOrders,
           refund_start(user, id)
    PROVE  TicketInv'
<1> DEFINE o == order_database[<<user, id>>]
           day == <<o.train_ID, o.start_day>>
           seats == modify_seat(daytrain_database[day], o.from, o.to - 1, o.num)
           scan == ScanPending(o.train_ID, o.start_day, id)
<1>1. /\ <<user, id>> \in DOMAIN order_database
      /\ o.status # "pending"
      /\ refund' = [busy |-> TRUE, order_ID |-> id, refund_order |-> o,
                    tp_daytrain |-> seats, pending_orders |-> scan]
      /\ SetStatus(user, id, "refunded")
      /\ UNCHANGED <<train_database, station_database, daytrain_database,
                     pending_order_database, order_num, order_size>>
  BY DEF refund_start, MayRefund
<1>2. /\ DOMAIN order_database' = DOMAIN order_database
      /\ order_database'[<<user, id>>].status = "refunded"
      /\ \A k \in DOMAIN order_database :
            k # <<user, id>> => order_database'[k] = order_database[k]
      /\ \A k \in DOMAIN order_database : order_database'[k] \in Order
      /\ OrdersAreForTrainsOnSale'
      /\ OrderIDsAreUnique'
  <2>1. "refunded" \in Status
    BY DEF Status
  <2> QED
    BY <1>1, <2>1, SetStatusStep
<1>3. o \in Order /\ OnSale(o.train_ID, o.start_day)
  BY <1>1 DEF TicketInv, TrainTypeOK, OrdersAreForTrainsOnSale
<1>4. day \in DOMAIN daytrain_database
  BY <1>3 DEF TicketInv, DayTrainsMatchSale, OnSale
<1>5. seats \in DayTrain /\ \A i \in 1 .. maxn : seats[i] >= 0
  <2>1. /\ daytrain_database[day] \in DayTrain
        /\ \A i \in 1 .. maxn : daytrain_database[day][i] >= 0
    BY <1>4 DEF TicketInv, TrainTypeOK, NeverOversold
  <2>2. o.from \in Int /\ o.to - 1 \in Int /\ o.num \in Int /\ o.num >= 0
    BY <1>3, TrainAssumption DEF Order
  <2> HIDE DEF o, day
  <2> QED
    BY <2>1, <2>2, ModifySeatIs
<1>6. scan \subseteq TrainIDs \X Int \X (1 .. MaxOrders)
  BY DEF ScanPending, TicketInv, TrainTypeOK
<1>7. refund' \in RefundCall
  <2> HIDE DEF o, seats, scan
  <2> QED
    BY <1>1, <1>3, <1>5, <1>6 DEF RefundCall
<1>8. TrainTypeOK'
  BY <1>1, <1>2, <1>7 DEF TicketInv, TrainTypeOK
<1>9. DayTrainsMatchSale'
  BY <1>1 DEF TicketInv, DayTrainsMatchSale, OnSale
<1>10. PendingMatchesOrders'
  <2>1. ASSUME NEW k \in DOMAIN pending_order_database
        PROVE  <<pending_order_database[k].user_name, k[3]>> # <<user, id>>
    BY <1>1, PendingEntry
  <2> QED
    BY <2>1, <1>1, <1>2 DEF TicketInv, PendingMatchesOrders
<1>11. NeverOversold'
  <2> HIDE DEF seats
  <2> QED
    BY <1>1, <1>5 DEF TicketInv, NeverOversold
<1>12. RefundCallIsCurrent'
  BY <1>1, <1>3 DEF RefundCallIsCurrent, ScanPending, OnSale
<1> QED
  BY <1>2, <1>8, <1>9, <1>10, <1>11, <1>12 DEF TicketInv

\* What is known while the loop of refund_ticket runs.
LEMMA RefundBusy ==
    ASSUME TicketInv, refund.busy
    PROVE  /\ refund \in RefundCall
           /\ refund.tp_daytrain \in DayTrain
           /\ refund.refund_order.train_ID \in TrainIDs
           /\ refund.refund_order.start_day \in Int
           /\ refund.pending_orders \subseteq DOMAIN pending_order_database
           /\ \A i \in 1 .. maxn : refund.tp_daytrain[i] >= 0
<1>1. refund \in RefundCall
  BY DEF TicketInv, TrainTypeOK, NoRefund
<1>2. refund.tp_daytrain \in DayTrain /\ refund.refund_order \in Order
  BY <1>1 DEF RefundCall
<1>3. /\ refund.refund_order.train_ID \in TrainIDs
      /\ refund.refund_order.start_day \in Int
  BY <1>2 DEF Order
<1>4. refund.pending_orders \subseteq DOMAIN pending_order_database
  BY DEF TicketInv, RefundCallIsCurrent, ScanPending
<1> QED
  BY <1>1, <1>2, <1>3, <1>4 DEF TicketInv, NeverOversold

\* An order the loop skips is only taken off the list of those to visit.
LEMMA RefundSkipStep ==
    ASSUME TicketInv, refund.busy, NEW k \in refund.pending_orders, refund_skip(k)
    PROVE  TicketInv'
<1>1. refund \in RefundCall
  BY RefundBusy
<1>2. /\ refund' = [refund EXCEPT !.pending_orders = refund.pending_orders \ {k}]
      /\ UNCHANGED <<train_database, station_database, daytrain_database,
                     order_database, pending_order_database, order_num, order_size>>
  BY DEF refund_skip
<1>3. /\ refund' \in RefundCall
      /\ refund'.pending_orders = refund.pending_orders \ {k}
      /\ refund'.refund_order = refund.refund_order
      /\ refund'.order_ID = refund.order_ID
      /\ refund'.tp_daytrain = refund.tp_daytrain
  BY <1>1, <1>2 DEF RefundCall
<1>4. TrainTypeOK'
  BY <1>2, <1>3 DEF TicketInv, TrainTypeOK
<1>5. /\ DayTrainsMatchSale' /\ OrdersAreForTrainsOnSale'
      /\ PendingMatchesOrders' /\ OrderIDsAreUnique'
  BY <1>2 DEF TicketInv, DayTrainsMatchSale, OrdersAreForTrainsOnSale, OnSale,
       PendingMatchesOrders, OrderIDsAreUnique
<1>6. NeverOversold'
  BY <1>2, <1>3 DEF TicketInv, NeverOversold
<1>7. RefundCallIsCurrent'
  BY <1>2, <1>3 DEF TicketInv, RefundCallIsCurrent, ScanPending, OnSale
<1> QED
  BY <1>4, <1>5, <1>6, <1>7 DEF TicketInv

\* A promotion moves an order out of the waiting list and takes free seats.
LEMMA RefundPromoteStep ==
    ASSUME TicketInv, refund.busy, NEW k \in refund.pending_orders,
           refund_promote(k)
    PROVE  TicketInv'
<1> DEFINE p == pending_order_database[k]
           seats == modify_seat(refund.tp_daytrain, p.from, p.to - 1, -p.num)
<1>1. /\ refund \in RefundCall
      /\ k \in DOMAIN pending_order_database
      /\ refund.tp_daytrain \in DayTrain
      /\ \A i \in 1 .. maxn : refund.tp_daytrain[i] >= 0
  BY RefundBusy
<1>2. /\ HasSeats(refund.tp_daytrain, p.from, p.to - 1, p.num)
      /\ refund' = [refund EXCEPT !.pending_orders = refund.pending_orders \ {k},
                                  !.tp_daytrain = seats]
      /\ SetStatus(p.user_name, k[3], "success")
      /\ pending_order_database' = DeleteEntry(pending_order_database, k)
      /\ UNCHANGED <<train_database, station_database, daytrain_database,
                     order_num, order_size>>
  BY DEF refund_promote, CanPromote
<1>3. /\ k = <<k[1], k[2], k[3]>>
      /\ k[3] \in 1 .. MaxOrders
      /\ p \in PendingOrder
      /\ p.user_name \in Users
      /\ <<p.user_name, k[3]>> \in DOMAIN order_database
  BY <1>1, PendingEntry
<1>4. /\ DOMAIN order_database' = DOMAIN order_database
      /\ order_database'[<<p.user_name, k[3]>>].status = "success"
      /\ \A j \in DOMAIN order_database :
            j # <<p.user_name, k[3]>> => order_database'[j] = order_database[j]
      /\ \A j \in DOMAIN order_database : order_database'[j] \in Order
      /\ OrdersAreForTrainsOnSale'
      /\ OrderIDsAreUnique'
  <2>1. "success" \in Status
    BY DEF Status
  <2> HIDE DEF p
  <2> QED
    BY <1>2, <1>3, <2>1, SetStatusStep
<1>5. seats \in DayTrain /\ \A i \in 1 .. maxn : seats[i] >= 0
  <2>1. /\ p.from \in Int /\ p.to - 1 \in Int
        /\ -p.num \in Int /\ -(-p.num) = p.num
    BY <1>3, TrainAssumption DEF PendingOrder
  <2> HIDE DEF p
  <2> QED
    BY <1>1, <1>2, <2>1, ModifySeatIs
<1>6. /\ refund' \in RefundCall
      /\ refund'.pending_orders = refund.pending_orders \ {k}
      /\ refund'.refund_order = refund.refund_order
      /\ refund'.order_ID = refund.order_ID
      /\ refund'.tp_daytrain = seats
  <2> HIDE DEF seats
  <2> QED
    BY <1>1, <1>2, <1>5 DEF RefundCall
<1> HIDE DEF seats
<1>7. /\ DOMAIN pending_order_database' = DOMAIN pending_order_database \ {k}
      /\ \A j \in DOMAIN pending_order_database' :
            pending_order_database'[j] = pending_order_database[j]
  BY <1>2 DEF DeleteEntry
<1>8. TrainTypeOK'
  BY <1>2, <1>4, <1>6, <1>7 DEF TicketInv, TrainTypeOK
<1>9. DayTrainsMatchSale'
  BY <1>2 DEF TicketInv, DayTrainsMatchSale, OnSale
<1>10. NeverOversold'
  BY <1>2, <1>5, <1>6 DEF TicketInv, NeverOversold
<1>11. RefundCallIsCurrent'
  BY <1>2, <1>6, <1>7 DEF TicketInv, RefundCallIsCurrent, ScanPending, OnSale
<1>12. PendingMatchesOrders'
  <2>1. ASSUME NEW j \in DOMAIN pending_order_database'
        PROVE  <<pending_order_database[j].user_name, j[3]>> # <<p.user_name, k[3]>>
    <3>1. SUFFICES ASSUME <<pending_order_database[j].user_name, j[3]>>
                            = <<p.user_name, k[3]>>
                   PROVE  FALSE
      OBVIOUS
    <3> DEFINE q == order_database[<<p.user_name, k[3]>>]
    <3>2. q.train_ID = k[1] /\ q.start_day = k[2]
      BY <1>1, PendingEntry
    <3>3. /\ order_database[<<pending_order_database[j].user_name, j[3]>>].train_ID = j[1]
          /\ order_database[<<pending_order_database[j].user_name, j[3]>>].start_day = j[2]
          /\ j = <<j[1], j[2], j[3]>>
      BY <1>7, PendingEntry
    <3>4. q.train_ID = j[1] /\ q.start_day = j[2] /\ j[3] = k[3]
      BY <3>1, <3>3
    <3> QED
      BY <1>3, <1>7, <3>2, <3>3, <3>4
  <2>2. ASSUME NEW j \in DOMAIN order_database, order_database'[j].status = "pending"
        PROVE  <<order_database'[j].train_ID, order_database'[j].start_day, j[2]>>
                  \in DOMAIN pending_order_database'
    <3>1. j # <<p.user_name, k[3]>> /\ order_database'[j] = order_database[j]
      BY <2>2, <1>4
    <3>2. j[2] # k[3]
      BY <3>1, <1>3 DEF TicketInv, OrderIDsAreUnique
    <3> QED
      BY <2>2, <3>1, <3>2, <1>3, <1>7 DEF TicketInv, PendingMatchesOrders
  <2> QED
    BY <2>1, <2>2, <1>4, <1>7 DEF TicketInv, PendingMatchesOrders
<1> QED
  BY <1>4, <1>8, <1>9, <1>10, <1>11, <1>12 DEF TicketInv

\* The seats written back are those of the copy, which never went below zero.
LEMMA RefundFinishStep ==
    ASSUME TicketInv, refund.busy, refund_finish
    PROVE  TicketInv'
<1> DEFINE day == <<refund.refund_order.train_ID, refund.refund_order.start_day>>
<1>1. /\ daytrain_database' =
           InsertEntry(daytrain_database, day, refund.tp_daytrain)
      /\ refund' = NoRefund
      /\ UNCHANGED <<train_database, station_database, order_database,
                     pending_order_database, order_num, order_size>>
  BY DEF refund_finish
<1>2. day \in DOMAIN daytrain_database
  BY DEF TicketInv, RefundCallIsCurrent, DayTrainsMatchSale, OnSale
<1>3. /\ refund.tp_daytrain \in DayTrain
      /\ \A i \in 1 .. maxn : refund.tp_daytrain[i] >= 0
  BY RefundBusy
<1> HIDE DEF day
<1>4. /\ DOMAIN daytrain_database' = DOMAIN daytrain_database
      /\ daytrain_database'[day] = refund.tp_daytrain
      /\ \A k \in DOMAIN daytrain_database :
            k # day => daytrain_database'[k] = daytrain_database[k]
  BY <1>1, <1>2 DEF InsertEntry
<1>5. TrainTypeOK'
  BY <1>1, <1>3, <1>4 DEF TicketInv, TrainTypeOK
<1>6. /\ DayTrainsMatchSale' /\ OrdersAreForTrainsOnSale'
      /\ PendingMatchesOrders' /\ OrderIDsAreUnique'
  BY <1>1, <1>4 DEF TicketInv, DayTrainsMatchSale, OrdersAreForTrainsOnSale,
       OnSale, PendingMatchesOrders, OrderIDsAreUnique
<1>7. ~refund'.busy
  BY <1>1 DEF NoRefund
<1>8. NeverOversold' /\ RefundCallIsCurrent'
  BY <1>3, <1>4, <1>7 DEF TicketInv, NeverOversold, RefundCallIsCurrent
<1> QED
  BY <1>5, <1>6, <1>8 DEF TicketInv

\* clean empties all databases and keeps order_num and size_ equal.
LEMMA CleanStep ==
    ASSUME TicketInv, Idle, clean_trains
    PROVE  TicketInv'
BY EmptyIndexIs
   DEF Idle, clean_trains, TicketInv, TrainTypeOK, DayTrainsMatchSale,
       OrdersAreForTrainsOnSale, PendingMatchesOrders, OrderIDsAreUnique,
       NeverOversold, RefundCallIsCurrent

\* A restart takes order_num from size_, which it equals.
LEMMA RestartStep ==
    ASSUME TicketInv, Idle, restart_trains
    PROVE  TicketInv'
BY DEF Idle, restart_trains, TicketInv, TrainTypeOK, DayTrainsMatchSale, OnSale,
       OrdersAreForTrainsOnSale, PendingMatchesOrders, OrderIDsAreUnique,
       NeverOversold, RefundCallIsCurrent

\* A step of the accounts, or a stuttering step.
LEMMA UnchangedStep ==
    ASSUME TicketInv, UNCHANGED trainVars
    PROVE  TicketInv'
BY DEF trainVars, TicketInv, TrainTypeOK, DayTrainsMatchSale, OnSale,
       OrdersAreForTrainsOnSale, PendingMatchesOrders, OrderIDsAreUnique,
       NeverOversold, RefundCallIsCurrent, ScanPending

\* Every step of the program keeps the invariant: one case per command.
LEMMA TicketStep == TicketInv /\ [Next]_vars => TicketInv'
<1> SUFFICES ASSUME TicketInv, [Next]_vars
             PROVE  TicketInv'
  OBVIOUS
<1>1. CASE Idle /\ TrainCommand
  BY <1>1, AddTrainStep, DeleteTrainStep, ReleaseTrainStep, BuyTicketStep,
     QueueTicketStep, RefundPendingStep, RefundStartStep DEF TrainCommand
<1>2. CASE RefundStep
  BY <1>2, RefundSkipStep, RefundPromoteStep, RefundFinishStep DEF RefundStep
<1>3. CASE clean
  BY <1>3, CleanStep DEF clean
<1>4. CASE restart
  BY <1>4, RestartStep DEF restart
<1>5. CASE UNCHANGED trainVars
  BY <1>5, UnchangedStep
<1> QED
  BY <1>1, <1>2, <1>3, <1>4, <1>5 DEF Next, vars

\* The accounts' invariant holds in the whole program too.
LEMMA AccountsInSystem == Spec => []AccountInv
<1>1. AccountInv /\ [Next]_vars => AccountInv'
  <2> SUFFICES ASSUME AccountInv, [Next]_vars
               PROVE  AccountInv'
    OBVIOUS
  <2>1. CASE AccountCommand \/ clean_accounts \/ exit_accounts
    BY <2>1, AccountStep
  <2>2. CASE UNCHANGED accountVars
    BY <2>2 DEF accountVars, AccountInv, AccountTypeOK, LoggedInUsersExist,
         AtMostOneRoot, Roots
  <2> QED
    BY <2>1, <2>2 DEF Next, vars, clean, restart
<1> QED
  BY AccountInitInv, <1>1, PTL DEF Spec, Init

\* The whole inductive invariant, in one formula.
LEMMA TicketInvHolds == Spec => []TicketInv
BY TicketInitInv, TicketStep, PTL DEF Spec, Init

\* Every database keeps its type, whatever the commands.
THEOREM TypesAreKept == Spec => []TypeOK
<1>1. AccountInv /\ TicketInv => TypeOK
  BY DEF AccountInv, TicketInv, TypeOK
<1> QED
  BY <1>1, AccountsInSystem, TicketInvHolds, PTL

\* The waiting list and the orders never disagree.
THEOREM WaitingListMatches == Spec => []PendingMatchesOrders
<1>1. TicketInv => PendingMatchesOrders
  BY DEF TicketInv
<1> QED
  BY <1>1, TicketInvHolds, PTL

\* No seat is ever sold twice.
THEOREM SeatsNeverNegative == Spec => []NeverOversold
<1>1. TicketInv => NeverOversold
  BY DEF TicketInv
<1> QED
  BY <1>1, TicketInvHolds, PTL

\* Order IDs are unique across users, clean and restarts.
THEOREM IDsNeverReused == Spec => []OrderIDsAreUnique
<1>1. TicketInv => OrderIDsAreUnique
  BY DEF TicketInv
<1> QED
  BY <1>1, TicketInvHolds, PTL

\* The unchecked element 0 of a DayTrain lookup always exists.
THEOREM LookupsSucceed == Spec => []LookupsFind
<1>1. TicketInv => LookupsFind
  BY DEF TicketInv, LookupsFind
<1> QED
  BY <1>1, TicketInvHolds, PTL

-----------------------------------------------------------------------------
\* What one refund does for the waiting list, for any number of orders.

\* The loop of refund_ticket only takes seats, so an order it has passed over
\* cannot be served later in the same call.
PassedOverForGood ==
    refund.busy =>
        \A j \in ScanPending(refund.refund_order.train_ID,
                             refund.refund_order.start_day, refund.order_ID)
                 \ refund.pending_orders :
           TouchesRefund(j) => ~WaitsInVain(j, refund.tp_daytrain)

\* Taking seats does not make room.
LEMMA SeatsOnlyGo ==
    ASSUME NEW dt \in DayTrain, NEW l \in Int, NEW r \in Int, NEW num \in Nat,
           NEW a \in 1 .. maxn, NEW b \in 0 .. maxn, NEW n \in Int,
           HasSeats(modify_seat(dt, l, r, -num), a, b, n)
    PROVE  HasSeats(dt, a, b, n)
<1> SUFFICES ASSUME NEW i \in a .. b
             PROVE  dt[i] >= n
  BY DEF HasSeats
<1>1. modify_seat(dt, l, r, -num)[i] >= n
  BY DEF HasSeats
<1>2. i \in 1 .. maxn /\ dt[i] \in Int
  BY TrainAssumption DEF DayTrain
<1>3. modify_seat(dt, l, r, -num)[i] = IF i \in l .. r THEN dt[i] + (-num) ELSE dt[i]
  BY <1>2 DEF modify_seat
<1> QED
  BY <1>1, <1>2, <1>3

\* The loop goes on with the copy of the seats and the list it had.
LEMMA PassedOverStep == TicketInv /\ PassedOverForGood /\ [Next]_vars => PassedOverForGood'
<1> SUFFICES ASSUME TicketInv, PassedOverForGood, [Next]_vars, refund'.busy
             PROVE  PassedOverForGood'
  BY DEF PassedOverForGood
<1> USE DEF TouchesRefund, WaitsInVain
<1>1. CASE ~refund.busy
  <2>1. CASE Idle /\ TrainCommand
    <3>1. refund' # refund
      BY <1>1
    <3>2. \A train_ID \in TrainIDs : /\ \A tt \in Timetables : ~add_train(train_ID, tt)
                                     /\ ~delete_train(train_ID)
                                     /\ ~release_train(train_ID)
      BY <3>1 DEF add_train, delete_train, release_train
    <3>3. \A user \in Users, train_ID \in TrainIDs, date \in Dates,
             s, t \in 1 .. maxn, num \in 1 .. MaxTickets :
             /\ ~buy_ticket(user, train_ID, date, s, t, num)
             /\ ~queue_ticket(user, train_ID, date, s, t, num)
      BY <3>1 DEF buy_ticket, queue_ticket
    <3>4. \A user \in Users, id \in 1 .. MaxOrders : ~refund_pending(user, id)
      BY <3>1 DEF refund_pending
    <3>5. PICK user \in Users, id \in 1 .. MaxOrders : refund_start(user, id)
      BY <2>1, <3>2, <3>3, <3>4 DEF TrainCommand
    <3>6. refund'.pending_orders =
            ScanPending(refund'.refund_order.train_ID, refund'.refund_order.start_day,
                        refund'.order_ID)
      BY <3>5 DEF refund_start
    <3>7. UNCHANGED pending_order_database
      BY <3>5 DEF refund_start
    <3> QED
      BY <3>6, <3>7 DEF PassedOverForGood, ScanPending
  <2>2. CASE clean \/ restart
    BY <1>1, <2>2 DEF clean, restart, clean_trains, restart_trains
  <2> QED
    BY <1>1, <2>1, <2>2 DEF Next, RefundStep, trainVars, vars
<1>2. CASE refund.busy
  <2> DEFINE scan == ScanPending(refund.refund_order.train_ID,
                                 refund.refund_order.start_day, refund.order_ID)
  <2>1. CASE UNCHANGED trainVars
    BY <2>1 DEF trainVars, PassedOverForGood, ScanPending
  <2>2. ASSUME NEW k \in refund.pending_orders, refund_skip(k)
        PROVE  PassedOverForGood'
    <3>1. refund \in RefundCall
      BY <1>2, RefundBusy
    <3>2. /\ refund' = [refund EXCEPT !.pending_orders = refund.pending_orders \ {k}]
          /\ UNCHANGED pending_order_database
      BY <2>2 DEF refund_skip
    <3>3. /\ refund'.pending_orders = refund.pending_orders \ {k}
          /\ refund'.refund_order = refund.refund_order
          /\ refund'.order_ID = refund.order_ID
          /\ refund'.tp_daytrain = refund.tp_daytrain
      BY <3>1, <3>2 DEF RefundCall
    <3>4. ~CanPromote(pending_order_database[k])
      BY <2>2 DEF refund_skip
    <3> QED
      BY <1>2, <3>2, <3>3, <3>4 DEF PassedOverForGood, CanPromote, ScanPending
  <2>3. ASSUME NEW k \in refund.pending_orders, refund_promote(k)
        PROVE  PassedOverForGood'
    <3> DEFINE p == pending_order_database[k]
               seats == modify_seat(refund.tp_daytrain, p.from, p.to - 1, -p.num)
    <3>1. /\ refund \in RefundCall
          /\ refund.tp_daytrain \in DayTrain
          /\ refund.pending_orders \subseteq DOMAIN pending_order_database
      BY <1>2, RefundBusy
    <3>2. /\ refund' = [refund EXCEPT !.pending_orders = refund.pending_orders \ {k},
                                      !.tp_daytrain = seats]
          /\ pending_order_database' = DeleteEntry(pending_order_database, k)
      BY <2>3 DEF refund_promote
    <3>3. /\ refund'.pending_orders = refund.pending_orders \ {k}
          /\ refund'.refund_order = refund.refund_order
          /\ refund'.order_ID = refund.order_ID
          /\ refund'.tp_daytrain = seats
      <4> HIDE DEF seats
      <4> QED
        BY <3>1, <3>2 DEF RefundCall
    <3>4. /\ DOMAIN pending_order_database' = DOMAIN pending_order_database \ {k}
          /\ \A j \in DOMAIN pending_order_database' :
                pending_order_database'[j] = pending_order_database[j]
      BY <3>2 DEF DeleteEntry
    <3>5. \A j \in DOMAIN pending_order_database :
             pending_order_database[j] \in PendingOrder
      BY DEF TicketInv, TrainTypeOK
    <3>6. p.from \in Int /\ p.to - 1 \in Int /\ p.num \in Nat
      BY <3>1, <3>5, TrainAssumption DEF PendingOrder
    <3>7. ASSUME NEW j \in DOMAIN pending_order_database,
                 WaitsInVain(j, seats)
          PROVE  WaitsInVain(j, refund.tp_daytrain)
      <4> DEFINE q == pending_order_database[j]
      <4>1. q.from \in 1 .. maxn /\ q.to - 1 \in 0 .. maxn /\ q.num \in Int
        BY <3>5, TrainAssumption DEF PendingOrder
      <4>2. HasSeats(seats, q.from, q.to - 1, q.num)
        BY <3>7
      <4> HIDE DEF q, p
      <4>3. HasSeats(refund.tp_daytrain, q.from, q.to - 1, q.num)
        BY <3>1, <3>6, <4>1, <4>2, SeatsOnlyGo
      <4> QED
        BY <4>3 DEF q
    <3> HIDE DEF seats
    <3> QED
      BY <1>2, <3>3, <3>4, <3>7 DEF PassedOverForGood, ScanPending
  <2>4. CASE refund_finish
    BY <2>4 DEF refund_finish, NoRefund
  <2> QED
    BY <1>2, <2>1, <2>2, <2>3, <2>4 DEF Next, RefundStep, Idle, clean, restart, vars
<1> QED
  BY <1>1, <1>2

LEMMA PassedOverHolds == Spec => []PassedOverForGood
<1>1. TrainInit => PassedOverForGood
  BY DEF TrainInit, NoRefund, PassedOverForGood
<1> QED
  BY <1>1, PassedOverStep, TicketInvHolds, PTL DEF Spec, Init

\* A refund never promotes an order past an older one it could have served.
THEOREM FirstComeFirstServed == Spec => OlderOrdersFirst
<1>1. TicketInv /\ PassedOverForGood /\ [Next]_vars => [PromotesTheOldest]_vars
  <2> SUFFICES ASSUME TicketInv, PassedOverForGood, [Next]_vars, refund.busy,
                      NEW k \in DOMAIN pending_order_database,
                      k \notin DOMAIN pending_order_database',
                      NEW j \in ScanPending(k[1], k[2], refund.order_ID),
                      j[3] < k[3], TouchesRefund(j)
               PROVE  ~WaitsInVain(j, refund.tp_daytrain)
    BY DEF PromotesTheOldest
  <2>1. PICK i \in refund.pending_orders : refund_promote(i)
    BY DEF Next, RefundStep, Idle, clean, restart, refund_skip, refund_finish, vars,
         trainVars
  <2>2. k = i /\ IsNextPending(k)
    BY <2>1 DEF refund_promote, DeleteEntry
  <2>3. k[1] = refund.refund_order.train_ID /\ k[2] = refund.refund_order.start_day
    BY <2>2 DEF IsNextPending, TicketInv, RefundCallIsCurrent, ScanPending
  <2>4. j \notin refund.pending_orders
    <3>1. j[3] \in Int /\ k[3] \in Int
      BY DEF ScanPending, TicketInv, TrainTypeOK
    <3> QED
      BY <2>2, <3>1 DEF IsNextPending
  <2> QED
    BY <2>3, <2>4 DEF PassedOverForGood
<1> QED
  BY <1>1, TicketInvHolds, PassedOverHolds, PTL DEF Spec, OlderOrdersFirst

\* When refund_ticket writes the seats back, no order of its list that touches
\* the returned journey could still be served.
THEOREM OnePassSuffices == Spec => OnePassIsEnough
<1>1. TicketInv /\ PassedOverForGood /\ [Next]_vars => [LeavesNobodyOut]_vars
  <2> SUFFICES ASSUME TicketInv, PassedOverForGood, [Next]_vars, refund.busy, ~refund'.busy
               PROVE  LeavesNobodyOut
    BY DEF LeavesNobodyOut
  <2>1. ASSUME NEW k \in refund.pending_orders, refund_skip(k) \/ refund_promote(k)
        PROVE  FALSE
    <3>1. refund \in RefundCall
      BY RefundBusy
    <3>2. refund'.busy = refund.busy
      BY <2>1, <3>1 DEF refund_skip, refund_promote, RefundCall
    <3> QED
      BY <3>2
  <2>2. refund.pending_orders = {}
    BY <2>1 DEF Next, RefundStep, Idle, clean, restart, refund_finish, vars, trainVars
  <2> QED
    BY <2>2 DEF PassedOverForGood, LeavesNobodyOut
<1> QED
  BY <1>1, TicketInvHolds, PassedOverHolds, PTL DEF Spec, OnePassIsEnough

=============================================================================
