------------------------- MODULE TicketLedgerProofs -------------------------
(***************************************************************************)
(* The ticket system implements the ledger, for any number of users,       *)
(* trains, stations, orders and tickets.                                   *)
(***************************************************************************)
EXTENDS TicketLedger, TicketProofs, FiniteSetTheorems

\* The tickets valid on a segment, and how many there are.
TicketsOf(orders, granted) ==
    UNION {{id} \X (1 .. orders[id].purchase.num) : id \in granted}

Booked(k, i) == Cardinality(Ledger!Tickets(k, i))

LEMMA RoomIs ==
    ASSUME NEW k, NEW i
    PROVE  /\ Ledger!Room(k, i) = LedgerCapacity[k][i] - Booked(k, i)
           /\ Ledger!Room(k, i)' = LedgerCapacity'[k][i] - Booked(k, i)'
<1>1. \A S : Ledger!Cardinality(S) = Cardinality(S)
  BY DEF Ledger!Cardinality, Cardinality
<1> QED
  BY <1>1 DEF Ledger!Room, Booked

\* An order more: its tickets more.
LEMMA OneOrderMore ==
    ASSUME NEW old, IsFiniteSet(old), NEW id, NEW n \in Nat,
           \A ticket \in old : ticket[1] # id
    PROVE  Cardinality(old \cup ({id} \X (1 .. n))) = Cardinality(old) + n
<1> DEFINE new == {id} \X (1 .. n)
<1>1. IsFiniteSet(new) /\ Cardinality(new) = n
  <2>1. IsFiniteSet({id}) /\ Cardinality({id}) = 1
    BY FS_Singleton
  <2>2. IsFiniteSet(1 .. n) /\ Cardinality(1 .. n) = n
    BY FS_Interval
  <2>3. IsFiniteSet(new) /\ Cardinality(new) = 1 * n
    BY <2>1, <2>2, FS_Product
  <2> QED
    BY <2>3
<1>2. old \cap new = {}
  OBVIOUS
<1> HIDE DEF new
<1>3. Cardinality(old \cup new) = Cardinality(old) + Cardinality(new) - Cardinality({})
  BY <1>1, <1>2, FS_Union
<1>4. Cardinality({}) = 0 /\ Cardinality(old) \in Nat
  BY FS_EmptySet, FS_CardinalityType
<1> QED
  BY <1>1, <1>3, <1>4 DEF new

\* The ledger's entry for an ID is that of its order.
EntriesMatch ==
    /\ DOMAIN LedgerOrders = OrderIDs
    /\ OrderIDs \subseteq 1 .. MaxOrders
    /\ \A k \in DOMAIN order_database :
          k[2] \in OrderIDs /\ LedgerOrders[k[2]] = Entry(order_database[k])
    /\ \A id \in OrderIDs : LedgerOrders[id].purchase.num \in 1 .. MaxTickets

\* It is, because IDs are unique.
LEMMA EntriesAre == TicketInv => EntriesMatch
<1> SUFFICES ASSUME TicketInv
             PROVE  EntriesMatch
  OBVIOUS
<1>1. DOMAIN LedgerOrders = OrderIDs /\ OrderIDs \subseteq 1 .. MaxOrders
  BY DEF LedgerOrders, OrderIDs, TicketInv, TrainTypeOK
<1>2. ASSUME NEW k \in DOMAIN order_database
      PROVE  k[2] \in OrderIDs /\ LedgerOrders[k[2]] = Entry(order_database[k])
  <2>1. k[2] \in OrderIDs
    BY DEF OrderIDs
  <2>2. (CHOOSE j \in DOMAIN order_database : j[2] = k[2]) = k
    BY DEF TicketInv, OrderIDsAreUnique
  <2> QED
    BY <2>1, <2>2 DEF LedgerOrders, OrderWithID
<1>3. ASSUME NEW id \in OrderIDs
      PROVE  LedgerOrders[id].purchase.num \in 1 .. MaxTickets
  <2>1. PICK k \in DOMAIN order_database : id = k[2]
    BY DEF OrderIDs
  <2>2. order_database[k] \in Order
    BY DEF TicketInv, TrainTypeOK
  <2>3. Entry(order_database[k]).purchase.num = order_database[k].num
    BY DEF Entry
  <2> QED
    BY <1>2, <2>1, <2>2, <2>3 DEF Order
<1> QED
  BY <1>1, <1>2, <1>3 DEF EntriesMatch

LEMMA EntriesAreNext == TicketInv' => EntriesMatch'
BY EntriesAre, PTL

\* There are finitely many tickets.
LEMMA FinitelyMany ==
    ASSUME TicketInv, NEW granted \in SUBSET OrderIDs
    PROVE  /\ IsFiniteSet(TicketsOf(LedgerOrders, granted))
           /\ Cardinality(TicketsOf(LedgerOrders, granted)) \in Nat
<1>1. IsFiniteSet(1 .. MaxOrders) /\ IsFiniteSet(1 .. MaxTickets)
  BY FS_Interval, TrainAssumption
<1>2. IsFiniteSet((1 .. MaxOrders) \X (1 .. MaxTickets))
  BY <1>1, FS_Product
<1>3. TicketsOf(LedgerOrders, granted) \subseteq (1 .. MaxOrders) \X (1 .. MaxTickets)
  BY EntriesAre, TrainAssumption DEF TicketsOf, EntriesMatch
<1> QED
  BY <1>2, <1>3, FS_Subset, FS_CardinalityType

\* The tickets of one order of those granted, and of the others.
LEMMA OneOrderOf ==
    ASSUME NEW orders, NEW granted, NEW id, NEW n \in Nat,
           id \in granted => n = orders[id].purchase.num,
           IsFiniteSet(TicketsOf(orders, granted \ {id})),
           Cardinality(TicketsOf(orders, granted \ {id})) \in Nat
    PROVE  Cardinality(TicketsOf(orders, granted))
             = Cardinality(TicketsOf(orders, granted \ {id})) + IF id \in granted THEN n ELSE 0
<1> DEFINE others == TicketsOf(orders, granted \ {id})
<1>1. CASE id \in granted
  <2>1. TicketsOf(orders, granted) = others \cup ({id} \X (1 .. n))
    BY <1>1 DEF TicketsOf
  <2>2. \A ticket \in others : ticket[1] # id
    BY DEF TicketsOf
  <2>3. IsFiniteSet(others)
    OBVIOUS
  <2> HIDE DEF others
  <2>4. Cardinality(others \cup ({id} \X (1 .. n))) = Cardinality(others) + n
    BY <2>2, <2>3, OneOrderMore
  <2> QED
    BY <1>1, <2>1, <2>4 DEF others
<1>2. CASE id \notin granted
  <2>1. granted \ {id} = granted
    BY <1>2
  <2>2. TicketsOf(orders, granted) = others
    BY <2>1
  <2>3. Cardinality(others) \in Nat
    OBVIOUS
  <2> HIDE DEF others
  <2>4. Cardinality(others) = Cardinality(others) + IF id \in granted THEN n ELSE 0
    BY <1>2, <2>3
  <2> QED
    BY <2>2, <2>4 DEF others
<1> QED
  BY <1>1, <1>2

\* A step that changes at most the entry of one ID, an order of n tickets, and
\* what it does to the number of tickets booked.
OnlyChanges(id, n) ==
    /\ DOMAIN LedgerOrders \ {id} = DOMAIN LedgerOrders' \ {id}
    /\ \A x \in DOMAIN LedgerOrders \ {id} : LedgerOrders'[x] = LedgerOrders[x]
    /\ id \in DOMAIN LedgerOrders => n = LedgerOrders[id].purchase.num
    /\ id \in DOMAIN LedgerOrders' => n = LedgerOrders'[id].purchase.num

BooksOnly(id, n, k, i) ==
    /\ Booked(k, i) \in Nat
    /\ Booked(k, i)' = Booked(k, i)
         - (IF id \in Ledger!Granted(k, i) THEN n ELSE 0)
         + (IF id \in Ledger!Granted(k, i)' THEN n ELSE 0)

LEMMA BookedChange ==
    ASSUME TicketInv, TicketInv', NEW id, NEW k, NEW i, NEW n \in Nat, OnlyChanges(id, n)
    PROVE  BooksOnly(id, n, k, i)
<1> USE DEF OnlyChanges
<1> DEFINE before == Ledger!Granted(k, i)
           after == Ledger!Granted(k, i)'
           others == TicketsOf(LedgerOrders, before \ {id})
<1>1. before \ {id} = after \ {id}
  BY DEF Ledger!Granted
<1>2. /\ before \subseteq DOMAIN LedgerOrders
      /\ after \subseteq DOMAIN LedgerOrders'
      /\ DOMAIN LedgerOrders = OrderIDs
  BY DEF Ledger!Granted, LedgerOrders
<1>3. /\ Ledger!Tickets(k, i) = TicketsOf(LedgerOrders, before)
      /\ Ledger!Tickets(k, i)' = TicketsOf(LedgerOrders', after)
  BY DEF Ledger!Tickets, TicketsOf
<1> HIDE DEF before, after
<1>4. IsFiniteSet(others) /\ Cardinality(others) \in Nat
  BY <1>2, FinitelyMany
<1>5. TicketsOf(LedgerOrders', after \ {id}) = others
  BY <1>1, <1>2 DEF TicketsOf
<1>6. Cardinality(TicketsOf(LedgerOrders, before))
        = Cardinality(others) + IF id \in before THEN n ELSE 0
  BY <1>2, <1>4, OneOrderOf
<1>7. Cardinality(TicketsOf(LedgerOrders', after))
        = Cardinality(others) + IF id \in after THEN n ELSE 0
  BY <1>2, <1>4, <1>5, OneOrderOf
<1> HIDE DEF others
<1>8. /\ Booked(k, i) = Cardinality(others) + IF id \in before THEN n ELSE 0
      /\ Booked(k, i)' = Cardinality(others) + IF id \in after THEN n ELSE 0
  BY <1>3, <1>6, <1>7 DEF Booked
<1> QED
  BY <1>4, <1>8 DEF before, after, BooksOnly

\* The entries of the ledger when nothing of the orders changes, when an order
\* is new and when one gets another status.
LEMMA SameEntries ==
    ASSUME UNCHANGED order_database
    PROVE  LedgerOrders' = LedgerOrders
BY DEF LedgerOrders, OrderIDs, OrderWithID

LEMMA NewEntry ==
    ASSUME TicketInv, TicketInv', NEW user, NEW id, NEW o,
           DOMAIN order_database' = DOMAIN order_database \cup {<<user, id>>},
           order_database'[<<user, id>>] = o,
           \A k \in DOMAIN order_database :
              k[2] # id /\ order_database'[k] = order_database[k]
    PROVE  /\ id \notin DOMAIN LedgerOrders
           /\ LedgerOrders' = Ledger!With(LedgerOrders, id, Entry(o))
<1>1. OrderIDs' = OrderIDs \cup {id} /\ id \notin OrderIDs
  BY DEF OrderIDs
<1>2. EntriesMatch /\ EntriesMatch'
  BY EntriesAre, EntriesAreNext
<1>3. LedgerOrders'[id] = Entry(o)
  <2>1. <<user, id>>[2] = id /\ <<user, id>> \in DOMAIN order_database'
    OBVIOUS
  <2> QED
    BY <1>2, <2>1 DEF EntriesMatch
<1>4. ASSUME NEW x \in OrderIDs
      PROVE  LedgerOrders'[x] = LedgerOrders[x]
  <2>1. PICK k \in DOMAIN order_database : k[2] = x
    BY DEF OrderIDs
  <2> QED
    BY <1>2, <2>1 DEF EntriesMatch
<1>5. /\ LedgerOrders = [x \in OrderIDs |-> LedgerOrders[x]]
      /\ LedgerOrders' = [x \in OrderIDs' |-> LedgerOrders'[x]]
  BY DEF LedgerOrders
<1> QED
  BY <1>1, <1>3, <1>4, <1>5 DEF Ledger!With

LEMMA StatusOfEntry ==
    ASSUME TicketInv, TicketInv', NEW user \in Users, NEW id \in 1 .. MaxOrders,
           NEW status \in Status,
           <<user, id>> \in DOMAIN order_database,
           SetStatus(user, id, status),
           UNCHANGED <<train_database, order_num, order_size>>
    PROVE  /\ id \in DOMAIN LedgerOrders
           /\ LedgerOrders[id] = Entry(order_database[<<user, id>>])
           /\ LedgerOrders' = [LedgerOrders EXCEPT ![id].status = status]
<1> DEFINE o == order_database[<<user, id>>]
<1>1. /\ DOMAIN order_database' = DOMAIN order_database
      /\ order_database'[<<user, id>>] = [o EXCEPT !.status = status]
      /\ \A k \in DOMAIN order_database :
            k # <<user, id>> => order_database'[k] = order_database[k]
  BY SetStatusStep
<1>2. OrderIDs' = OrderIDs
  BY <1>1 DEF OrderIDs
<1>3. EntriesMatch /\ EntriesMatch'
  BY EntriesAre, EntriesAreNext
<1>4. /\ id \in OrderIDs
      /\ LedgerOrders[id] = Entry(o)
      /\ LedgerOrders'[id] = Entry([o EXCEPT !.status = status])
  <2>1. <<user, id>>[2] = id
    OBVIOUS
  <2> QED
    BY <1>1, <1>3, <2>1 DEF EntriesMatch
<1>5. o \in Order
  BY DEF TicketInv, TrainTypeOK
<1>6. Entry([o EXCEPT !.status = status]) = [Entry(o) EXCEPT !.status = status]
  BY <1>5 DEF Entry, Order
<1>7. ASSUME NEW x \in OrderIDs, x # id
      PROVE  LedgerOrders'[x] = LedgerOrders[x]
  <2>1. PICK k \in DOMAIN order_database : k[2] = x
    BY DEF OrderIDs
  <2>2. k # <<user, id>>
    BY <1>7, <2>1
  <2> QED
    BY <1>1, <1>3, <2>1, <2>2 DEF EntriesMatch
<1>8. /\ LedgerOrders = [x \in OrderIDs |-> LedgerOrders[x]]
      /\ LedgerOrders' = [x \in OrderIDs' |-> LedgerOrders'[x]]
  BY DEF LedgerOrders
<1>9. LedgerOrders'[id] = [LedgerOrders[id] EXCEPT !.status = status]
  BY <1>4, <1>6
<1> HIDE DEF o
<1> QED
  BY <1>2, <1>4, <1>7, <1>8, <1>9 DEF o

\* What every step has to show.
Follows == SeatsAddUp' /\ [Ledger!Next]_(Ledger!ledgerVars)

\* A trip keeps its capacity as long as it stays on sale.
LEMMA SameCapacity ==
    ASSUME DOMAIN daytrain_database' = DOMAIN daytrain_database,
           \A k \in DOMAIN daytrain_database :
              train_database'[k[1]] = train_database[k[1]]
    PROVE  LedgerCapacity' = LedgerCapacity
BY DEF LedgerCapacity

\* A step that changes no order and no counter that counts.
LEMMA QuietStep ==
    ASSUME SeatsAddUp,
           UNCHANGED order_database,
           DOMAIN daytrain_database' = DOMAIN daytrain_database,
           \A k \in DOMAIN daytrain_database :
              /\ SeatsNow(k)' = SeatsNow(k)
              /\ train_database'[k[1]] = train_database[k[1]]
    PROVE  Follows
<1>1. LedgerOrders' = LedgerOrders /\ LedgerCapacity' = LedgerCapacity
  BY SameEntries, SameCapacity
<1>2. \A k, i : Ledger!Room(k, i)' = Ledger!Room(k, i)
  BY <1>1 DEF Ledger!Room, Ledger!Tickets, Ledger!Granted
<1> QED
  BY <1>1, <1>2 DEF Follows, SeatsAddUp, Ledger!ledgerVars

\* The counters decide as the ledger would.
LEMMA SeatsDecide ==
    ASSUME TicketInv, SeatsAddUp, NEW p, p.trip \in DOMAIN daytrain_database,
           p.from \in 1 .. maxn, p.to \in 1 .. maxn
    PROVE  Ledger!Fits(p) <=> HasSeats(SeatsNow(p.trip), p.from, p.to - 1, p.num)
<1>1. \A i \in p.from .. p.to - 1 : i \in 1 .. maxn
  BY TrainAssumption
<1>2. \A i \in p.from .. p.to - 1 : SeatsNow(p.trip)[i] = Ledger!Room(p.trip, i)
  BY <1>1 DEF SeatsAddUp
<1> QED
  BY <1>2 DEF Ledger!Fits, HasSeats

\* The trips on sale are among those the ledger knows.
LEMMA TripsAreKnown ==
    ASSUME TicketInv, NEW k \in DOMAIN daytrain_database
    PROVE  /\ k \in Trip
           /\ LedgerCapacity[k] \in [1 .. maxn -> Int]
<1> DEFINE tt == train_database[k[1]].timetable
<1>1. k \in TrainIDs \X Int /\ OnSale(k[1], k[2])
  BY DEF TicketInv, TrainTypeOK, DayTrainsMatchSale
<1>2. k[1] \in TrainIDs /\ tt \in Timetables /\ k[2] \in SaleDays(tt)
  BY <1>1 DEF OnSale, TicketInv, TrainTypeOK, Train
<1>3. Sale(k[1], tt) \in AllSales
  BY <1>2 DEF AllSales
<1>4. k \in DOMAIN Sale(k[1], tt)
  BY <1>1, <1>2 DEF Sale
<1>5. LedgerCapacity[k] = FreshDayTrain(tt)
  BY DEF LedgerCapacity
<1>6. tt.total_seat_num \in Nat
  BY <1>2, TrainAssumption DEF Timetable
<1> HIDE DEF tt
<1> QED
  BY <1>3, <1>4, <1>5, <1>6 DEF Trip, FreshDayTrain

\* release_train opens its trips.  Nobody can have booked them: orders are for
\* trains that were released before.
LEMMA ReleaseFollows ==
    ASSUME TicketInv, TicketInv', SeatsAddUp, Idle, NEW train_ID \in TrainIDs,
           release_train(train_ID)
    PROVE  Follows
<1> DEFINE tt == train_database[train_ID].timetable
           days == {train_ID} \X SaleDays(tt)
<1>1. /\ train_ID \in DOMAIN train_database
      /\ ~train_database[train_ID].is_released
      /\ train_database'[train_ID].timetable = tt
      /\ \A j \in DOMAIN train_database :
            j # train_ID => train_database'[j] = train_database[j]
  BY DEF release_train, InsertEntry
<1>2. /\ DOMAIN daytrain_database' = DOMAIN daytrain_database \cup days
      /\ \A k \in DOMAIN daytrain_database' :
            daytrain_database'[k] = IF k \in days THEN FreshDayTrain(tt)
                                    ELSE daytrain_database[k]
      /\ UNCHANGED <<order_database, refund>>
  BY DEF release_train, InsertEntries
<1>3. \A k \in DOMAIN daytrain_database :
         k[1] # train_ID /\ k[1] \in DOMAIN train_database
  BY <1>1 DEF TicketInv, DayTrainsMatchSale, OnSale
<1>4. tt \in Timetables
  BY <1>1 DEF TicketInv, TrainTypeOK, Train
<1>5. LedgerOrders' = LedgerOrders
  BY <1>2, SameEntries
<1>6. Ledger!Open
  <2> DEFINE sale == Sale(train_ID, tt)
  <2>1. sale \in AllSales
    BY <1>4 DEF AllSales
  <2>2. /\ DOMAIN sale = days
        /\ \A k \in days : k[1] = train_ID /\ sale[k] = FreshDayTrain(tt)
    BY DEF Sale
  <2> HIDE DEF sale, days
  <2>3. /\ DOMAIN LedgerCapacity = DOMAIN daytrain_database
        /\ DOMAIN sale \cap DOMAIN LedgerCapacity = {}
    BY <1>3, <2>2 DEF LedgerCapacity
  <2>4. LedgerCapacity' = [k \in DOMAIN sale \cup DOMAIN LedgerCapacity |->
                             IF k \in DOMAIN sale THEN sale[k] ELSE LedgerCapacity[k]]
    BY <1>1, <1>2, <1>3, <2>2, <2>3 DEF LedgerCapacity
  <2> QED
    BY <1>5, <2>1, <2>3, <2>4 DEF Ledger!Open
<1>7. ASSUME NEW k \in DOMAIN daytrain_database', NEW i \in 1 .. maxn
      PROVE  SeatsNow(k)'[i] = Ledger!Room(k, i)'
  <2>1. SeatsNow(k)' = daytrain_database'[k]
    BY <1>2 DEF Idle, SeatsNow
  <2>2. Ledger!Tickets(k, i)' = Ledger!Tickets(k, i)
    BY <1>5 DEF Ledger!Tickets, Ledger!Granted
  <2>3. CASE k \in days
    <3>1. Ledger!Tickets(k, i) = {}
      <4>1. ASSUME NEW id \in Ledger!Granted(k, i)
            PROVE  FALSE
        <5>1. id \in OrderIDs /\ LedgerOrders[id].purchase.trip = k
          BY DEF Ledger!Granted, LedgerOrders
        <5>2. PICK j \in DOMAIN order_database : j[2] = id
          BY <5>1 DEF OrderIDs
        <5>3. LedgerOrders[id] = Entry(order_database[j])
          BY <5>2, EntriesAre DEF EntriesMatch
        <5>4. k[1] = order_database[j].train_ID
          BY <5>1, <5>3 DEF Entry
        <5>5. k[1] = train_ID
          BY <2>3
        <5> QED
          BY <1>1, <5>4, <5>5 DEF TicketInv, OrdersAreForTrainsOnSale, OnSale
      <4> QED
        BY <4>1 DEF Ledger!Tickets
    <3>2. Booked(k, i)' = 0
      BY <2>2, <3>1, FS_EmptySet DEF Booked
    <3>3. LedgerCapacity'[k] = FreshDayTrain(tt) /\ k[1] = train_ID
      BY <1>1, <2>3 DEF LedgerCapacity
    <3>4. FreshDayTrain(tt)[i] \in Int
      BY <1>4, TrainAssumption DEF FreshDayTrain, Timetable
    <3> QED
      BY <1>2, <2>1, <2>3, <3>2, <3>3, <3>4, RoomIs
  <2>4. CASE k \notin days
    <3>1. k \in DOMAIN daytrain_database
      BY <1>2, <2>4
    <3>2. LedgerCapacity'[k] = LedgerCapacity[k]
      BY <1>1, <1>3, <3>1 DEF LedgerCapacity
    <3>3. SeatsNow(k) = daytrain_database[k]
      BY DEF SeatsNow, Idle
    <3>4. SeatsNow(k)' = SeatsNow(k)
      BY <1>2, <2>1, <2>4, <3>3
    <3> QED
      BY <2>2, <3>1, <3>2, <3>4 DEF Ledger!Room, SeatsAddUp
  <2> QED
    BY <2>3, <2>4
<1> QED
  BY <1>6, <1>7 DEF Follows, SeatsAddUp, Ledger!Next

\* A new order, with the status that the counters call for, of which they are
\* reduced.
LEMMA OrderFollows ==
    ASSUME TicketInv, TicketInv', SeatsAddUp, Idle,
           NEW user, NEW id \in 1 .. MaxOrders, NEW o,
           DOMAIN order_database' = DOMAIN order_database \cup {<<user, id>>},
           order_database'[<<user, id>>] = o,
           \A k \in DOMAIN order_database :
              k[2] # id /\ order_database'[k] = order_database[k],
           UNCHANGED <<train_database, refund>>,
           NEW day \in DOMAIN daytrain_database,
           NEW s \in 1 .. maxn, NEW t \in 1 .. maxn, NEW num \in 1 .. MaxTickets,
           NEW status \in {"success", "pending"},
           Entry(o) = [purchase |-> [trip |-> day, from |-> s, to |-> t, num |-> num],
                       status |-> status],
           DOMAIN daytrain_database' = DOMAIN daytrain_database,
           status = IF HasSeats(daytrain_database[day], s, t - 1, num)
                    THEN "success" ELSE "pending",
           \A k \in DOMAIN daytrain_database : \A i \in 1 .. maxn :
              daytrain_database'[k][i] = daytrain_database[k][i]
                - IF status = "success" /\ k = day /\ i \in s .. t - 1 THEN num ELSE 0
    PROVE  Follows
<1> DEFINE p == [trip |-> day, from |-> s, to |-> t, num |-> num]
<1>3. /\ id \notin DOMAIN LedgerOrders
      /\ LedgerOrders' = Ledger!With(LedgerOrders, id, [purchase |-> p, status |-> status])
  BY NewEntry
<1>4. LedgerCapacity' = LedgerCapacity
  BY SameCapacity
<1>5. \A k \in DOMAIN daytrain_database : /\ SeatsNow(k) = daytrain_database[k]
                                          /\ SeatsNow(k)' = daytrain_database'[k]
  BY DEF SeatsNow, Idle
<1>6. Ledger!Order(id, p, status)
  <2>1. Ledger!Fits(p) <=> HasSeats(daytrain_database[day], s, t - 1, num)
    BY <1>5, SeatsDecide
  <2>2. day \in DOMAIN LedgerCapacity
    BY DEF LedgerCapacity
  <2> QED
    BY <1>3, <1>4, <2>1, <2>2 DEF Ledger!Order
<1>7. p \in [trip : Trip, from : 1 .. maxn, to : 1 .. maxn, num : 1 .. MaxTickets]
  BY TripsAreKnown
<1>8. ASSUME NEW k \in DOMAIN daytrain_database, NEW i \in 1 .. maxn
      PROVE  SeatsNow(k)'[i] = Ledger!Room(k, i)'
  <2>1. /\ DOMAIN LedgerOrders' = DOMAIN LedgerOrders \cup {id}
        /\ LedgerOrders'[id] = [purchase |-> p, status |-> status]
        /\ \A x \in DOMAIN LedgerOrders : LedgerOrders'[x] = LedgerOrders[x]
    BY <1>3 DEF Ledger!With
  <2>2. id \notin Ledger!Granted(k, i)
    BY <1>3 DEF Ledger!Granted
  <2>3. id \in Ledger!Granted(k, i)' <=> status = "success" /\ k = day /\ i \in s .. t - 1
    BY <2>1 DEF Ledger!Granted
  <2>4. num \in Nat
    BY TrainAssumption
  <2>5. BooksOnly(id, num, k, i)
    <3>1. OnlyChanges(id, num)
      BY <1>3, <2>1 DEF OnlyChanges
    <3> QED
      BY <2>4, <3>1, BookedChange
  <2>6. daytrain_database[k][i] = LedgerCapacity[k][i] - Booked(k, i)
    BY <1>5, RoomIs DEF SeatsAddUp
  <2>7. LedgerCapacity[k][i] \in Int
    BY TripsAreKnown
  <2>8. daytrain_database'[k][i] = LedgerCapacity[k][i] - Booked(k, i)'
    BY <2>2, <2>3, <2>4, <2>5, <2>6, <2>7 DEF BooksOnly
  <2> QED
    BY <1>4, <1>5, <2>8, RoomIs
<1> HIDE DEF p
<1> QED
  BY <1>6, <1>7, <1>8 DEF Follows, SeatsAddUp, Ledger!Next

\* An order gets another status, and the counters follow.
LEMMA StatusFollows ==
    ASSUME TicketInv, TicketInv', SeatsAddUp,
           NEW user \in Users, NEW id \in 1 .. MaxOrders,
           NEW status \in {"success", "refunded"},
           <<user, id>> \in DOMAIN order_database,
           SetStatus(user, id, status),
           UNCHANGED <<train_database, daytrain_database, order_num, order_size>>,
           NEW o, o = order_database[<<user, id>>],
           \A k \in DOMAIN daytrain_database : \A i \in 1 .. maxn :
              SeatsNow(k)'[i] = SeatsNow(k)[i]
                + (IF /\ o.status = "success"
                      /\ k = <<o.train_ID, o.start_day>>
                      /\ i \in o.from .. o.to - 1 THEN o.num ELSE 0)
                - (IF /\ status = "success"
                      /\ k = <<o.train_ID, o.start_day>>
                      /\ i \in o.from .. o.to - 1 THEN o.num ELSE 0)
    PROVE  /\ SeatsAddUp'
           /\ id \in DOMAIN LedgerOrders
           /\ LedgerOrders[id] = Entry(o)
           /\ Ledger!SetStatus(id, status)
<1>1. /\ id \in DOMAIN LedgerOrders
      /\ LedgerOrders[id] = Entry(o)
      /\ LedgerOrders' = [LedgerOrders EXCEPT ![id].status = status]
  <2>1. status \in Status /\ UNCHANGED <<train_database, order_num, order_size>>
    BY DEF Status
  <2> QED
    BY <2>1, StatusOfEntry
<1>2. LedgerCapacity' = LedgerCapacity
  BY SameCapacity
<1>3. o.num \in Nat
  BY TrainAssumption DEF TicketInv, TrainTypeOK, Order
<1>4. /\ DOMAIN LedgerOrders' = DOMAIN LedgerOrders
      /\ LedgerOrders'[id] = [Entry(o) EXCEPT !.status = status]
      /\ \A x \in DOMAIN LedgerOrders \ {id} : LedgerOrders'[x] = LedgerOrders[x]
  BY <1>1
<1>5. /\ Entry(o).purchase = [trip |-> <<o.train_ID, o.start_day>>,
                              from |-> o.from, to |-> o.to, num |-> o.num]
      /\ Entry(o).status = o.status
      /\ [Entry(o) EXCEPT !.status = status].purchase = Entry(o).purchase
      /\ [Entry(o) EXCEPT !.status = status].status = status
  BY DEF Entry
<1>6. ASSUME NEW k \in DOMAIN daytrain_database, NEW i \in 1 .. maxn,
             NEW n \in Nat, n = o.num
      PROVE  SeatsNow(k)'[i] = Ledger!Room(k, i)'
  <2>1. /\ LedgerOrders[id].purchase.num = n
        /\ LedgerOrders'[id].purchase.num = n
    <3>1. Entry(o).purchase.num = o.num
      BY <1>5
    <3>2. LedgerOrders[id].purchase = Entry(o).purchase
      BY <1>1
    <3>3. LedgerOrders'[id].purchase = Entry(o).purchase
      BY <1>4, <1>5
    <3> QED
      BY <1>6, <3>1, <3>2, <3>3
  <2>2. BooksOnly(id, n, k, i)
    <3>1. OnlyChanges(id, n)
      BY <1>4, <2>1 DEF OnlyChanges
    <3> QED
      BY <3>1, BookedChange
  <2> DEFINE rides == k = <<o.train_ID, o.start_day>> /\ i \in o.from .. o.to - 1
  <2>3. id \in Ledger!Granted(k, i) <=> o.status = "success" /\ rides
    BY <1>1, <1>5 DEF Ledger!Granted
  <2>4. id \in Ledger!Granted(k, i)' <=> status = "success" /\ rides
    BY <1>1, <1>4, <1>5 DEF Ledger!Granted
  <2>5. SeatsNow(k)[i] = LedgerCapacity[k][i] - Booked(k, i)
    BY RoomIs DEF SeatsAddUp
  <2>6. LedgerCapacity[k][i] \in Int
    BY TripsAreKnown
  <2>7. SeatsNow(k)'[i] = SeatsNow(k)[i]
          + (IF o.status = "success" /\ rides THEN n ELSE 0)
          - (IF status = "success" /\ rides THEN n ELSE 0)
    BY <1>6
  <2> HIDE DEF rides
  <2>8. SeatsNow(k)'[i] = LedgerCapacity[k][i] - Booked(k, i)'
    BY <2>2, <2>3, <2>4, <2>5, <2>6, <2>7 DEF BooksOnly
  <2> QED
    BY <1>2, <2>8, RoomIs
<1>7. SeatsAddUp'
  BY <1>3, <1>6 DEF SeatsAddUp
<1> QED
  BY <1>1, <1>2, <1>7 DEF Ledger!SetStatus

\* What modify_seat does to one counter.
LEMMA ModifySeatAt ==
    ASSUME NEW dt, NEW l, NEW r, NEW val, NEW i \in 1 .. maxn
    PROVE  modify_seat(dt, l, r, val)[i] = IF i \in l .. r THEN dt[i] + val ELSE dt[i]
BY DEF modify_seat

\* buy_ticket books what the ledger grants, and queue_ticket waits when it does
\* not.
LEMMA BuyFollows ==
    ASSUME TicketInv, TicketInv', SeatsAddUp, Idle, NEW user \in Users,
           NEW train_ID \in TrainIDs, NEW date \in Dates,
           NEW s \in 1 .. maxn, NEW t \in 1 .. maxn, NEW num \in 1 .. MaxTickets,
           \/ buy_ticket(user, train_ID, date, s, t, num)
           \/ queue_ticket(user, train_ID, date, s, t, num)
    PROVE  Follows
<1> DEFINE day == <<train_ID, StartDay(train_ID, date, s)>>
           granted == HasSeats(daytrain_database[day], s, t - 1, num)
           status == IF granted THEN "success" ELSE "pending"
           o == NewOrderValue(train_ID, date, s, t, num, status)
<1>1. /\ order_num < MaxOrders
      /\ MayBuy(user, train_ID, date, s, t, num)
      /\ NewOrder(user, train_ID, StartDay(train_ID, date, s), s, t, num, status)
      /\ UNCHANGED <<train_database, refund>>
      /\ daytrain_database' = IF granted
           THEN InsertEntry(daytrain_database, day,
                            modify_seat(daytrain_database[day], s, t - 1, -num))
           ELSE daytrain_database
  BY DEF buy_ticket, queue_ticket
<1> HIDE DEF granted
<1>2. status \in {"success", "pending"} /\ UNCHANGED train_database
  BY <1>1
<1>3. /\ DOMAIN order_database' = DOMAIN order_database \cup {<<user, order_num + 1>>}
      /\ order_database'[<<user, order_num + 1>>] = o
      /\ \A k \in DOMAIN order_database : order_database'[k] = order_database[k]
      /\ \A k \in DOMAIN order_database : k[2] # order_num + 1
      /\ day \in DOMAIN daytrain_database
  <2> HIDE DEF status
  <2> QED
    BY <1>1, <1>2, NewOrderStep
<1>4. order_num + 1 \in 1 .. MaxOrders
  BY <1>1, TrainAssumption DEF TicketInv, TrainTypeOK
<1>5. Entry(o) = [purchase |-> [trip |-> day, from |-> s, to |-> t, num |-> num],
                  status |-> status]
  BY DEF Entry, NewOrderValue
<1> HIDE DEF day, o
<1>6. DOMAIN daytrain_database' = DOMAIN daytrain_database
  BY <1>1, <1>3 DEF InsertEntry
<1>7. ASSUME NEW k \in DOMAIN daytrain_database, NEW i \in 1 .. maxn
      PROVE  daytrain_database'[k][i] = daytrain_database[k][i]
               - IF status = "success" /\ k = day /\ i \in s .. t - 1 THEN num ELSE 0
  <2>1. daytrain_database[k][i] \in Int /\ num \in Int
    BY TrainAssumption DEF TicketInv, TrainTypeOK, DayTrain
  <2>2. CASE granted /\ k = day
    <3>1. daytrain_database'[k] = modify_seat(daytrain_database[k], s, t - 1, -num)
      BY <1>1, <2>2 DEF InsertEntry
    <3>2. daytrain_database'[k][i] = IF i \in s .. t - 1 THEN daytrain_database[k][i] + (-num)
                                     ELSE daytrain_database[k][i]
      BY <3>1, ModifySeatAt
    <3> QED
      BY <2>1, <2>2, <3>2
  <2>3. CASE ~granted \/ k # day
    <3>1. daytrain_database'[k] = daytrain_database[k]
      BY <1>1, <2>3 DEF InsertEntry
    <3> QED
      BY <2>1, <2>3, <3>1
  <2> QED
    BY <2>2, <2>3
<1>8. status = IF HasSeats(daytrain_database[day], s, t - 1, num)
               THEN "success" ELSE "pending"
  BY DEF granted
<1> HIDE DEF status
<1> QED
  BY <1>1, <1>2, <1>3, <1>4, <1>5, <1>6, <1>7, <1>8, OrderFollows

\* refund_ticket of a waiting order cancels it, and no counter changes.
LEMMA RefundPendingFollows ==
    ASSUME TicketInv, TicketInv', SeatsAddUp, Idle, NEW user \in Users,
           NEW id \in 1 .. MaxOrders, refund_pending(user, id)
    PROVE  Follows
<1> DEFINE o == order_database[<<user, id>>]
<1>1. /\ <<user, id>> \in DOMAIN order_database
      /\ o.status = "pending"
      /\ SetStatus(user, id, "refunded")
      /\ UNCHANGED <<train_database, daytrain_database, order_num, order_size, refund>>
  BY DEF refund_pending, MayRefund
<1>2. \A k \in DOMAIN daytrain_database : \A i \in 1 .. maxn :
         /\ SeatsNow(k)' = SeatsNow(k)
         /\ SeatsNow(k)[i] \in Int
  BY <1>1 DEF SeatsNow, Idle, TicketInv, TrainTypeOK, DayTrain
<1> HIDE DEF o
<1>3. /\ SeatsAddUp'
      /\ id \in DOMAIN LedgerOrders
      /\ LedgerOrders[id] = Entry(o)
      /\ Ledger!SetStatus(id, "refunded")
  <2>1. \A k \in DOMAIN daytrain_database : \A i \in 1 .. maxn :
           SeatsNow(k)'[i] = SeatsNow(k)[i]
             + (IF /\ o.status = "success"
                   /\ k = <<o.train_ID, o.start_day>>
                   /\ i \in o.from .. o.to - 1 THEN o.num ELSE 0)
             - (IF /\ "refunded" = "success"
                   /\ k = <<o.train_ID, o.start_day>>
                   /\ i \in o.from .. o.to - 1 THEN o.num ELSE 0)
    BY <1>1, <1>2
  <2>2. "refunded" \in {"success", "refunded"} /\ o = order_database[<<user, id>>]
    BY DEF o
  <2> QED
    BY <1>1, <2>1, <2>2, StatusFollows
<1>4. LedgerOrders[id].status = "pending"
  BY <1>1, <1>3 DEF Entry
<1> QED
  BY <1>3, <1>4 DEF Follows, Ledger!Next, Ledger!Cancel

\* refund_ticket of a bought ticket cancels it, and gives the seats back in the
\* copy, which is the one that counts from here on.
LEMMA RefundStartFollows ==
    ASSUME TicketInv, TicketInv', SeatsAddUp, Idle, NEW user \in Users,
           NEW id \in 1 .. MaxOrders, refund_start(user, id)
    PROVE  Follows
<1> DEFINE o == order_database[<<user, id>>]
           day == <<o.train_ID, o.start_day>>
<1>1. /\ <<user, id>> \in DOMAIN order_database
      /\ o.status # "pending" /\ o.status # "refunded"
      /\ SetStatus(user, id, "refunded")
      /\ UNCHANGED <<train_database, daytrain_database, order_num, order_size>>
      /\ refund'.busy
      /\ refund'.refund_order = o
      /\ refund'.tp_daytrain = modify_seat(daytrain_database[day], o.from, o.to - 1, o.num)
  BY DEF refund_start, MayRefund
<1>2. o \in Order
  BY <1>1 DEF TicketInv, TrainTypeOK
<1> HIDE DEF o
<1>3. o.status = "success" /\ o.num \in Int
  BY <1>1, <1>2, TrainAssumption DEF Order, Status
<1>4. ASSUME NEW k \in DOMAIN daytrain_database, NEW i \in 1 .. maxn
      PROVE  SeatsNow(k)'[i] = SeatsNow(k)[i]
               + (IF /\ o.status = "success"
                     /\ k = <<o.train_ID, o.start_day>>
                     /\ i \in o.from .. o.to - 1 THEN o.num ELSE 0)
               - (IF /\ "refunded" = "success"
                     /\ k = <<o.train_ID, o.start_day>>
                     /\ i \in o.from .. o.to - 1 THEN o.num ELSE 0)
  <2>1. SeatsNow(k) = daytrain_database[k] /\ daytrain_database[k][i] \in Int
    BY DEF SeatsNow, Idle, TicketInv, TrainTypeOK, DayTrain
  <2>2. SeatsNow(k)' = IF k = day THEN refund'.tp_daytrain ELSE daytrain_database[k]
    BY <1>1 DEF SeatsNow
  <2>3. k = day => refund'.tp_daytrain[i] =
           IF i \in o.from .. o.to - 1 THEN daytrain_database[k][i] + o.num
                                       ELSE daytrain_database[k][i]
    BY <1>1, ModifySeatAt
  <2> QED
    BY <1>3, <2>1, <2>2, <2>3
<1>5. /\ SeatsAddUp'
      /\ id \in DOMAIN LedgerOrders
      /\ LedgerOrders[id] = Entry(o)
      /\ Ledger!SetStatus(id, "refunded")
  <2>1. "refunded" \in {"success", "refunded"} /\ o = order_database[<<user, id>>]
    BY DEF o
  <2> HIDE DEF day
  <2> QED
    BY <1>1, <1>4, <2>1, StatusFollows
<1>6. LedgerOrders[id].status = "success"
  BY <1>3, <1>5 DEF Entry
<1> QED
  BY <1>5, <1>6 DEF Follows, Ledger!Next, Ledger!Cancel

\* A promotion is one the ledger makes: its order waits, and the seats are there.
LEMMA PromoteFollows ==
    ASSUME TicketInv, TicketInv', SeatsAddUp, refund.busy,
           NEW k \in refund.pending_orders, refund_promote(k)
    PROVE  Follows
<1> DEFINE p == pending_order_database[k]
           o == order_database[<<p.user_name, k[3]>>]
           day == <<refund.refund_order.train_ID, refund.refund_order.start_day>>
<1>1. /\ HasSeats(refund.tp_daytrain, p.from, p.to - 1, p.num)
      /\ refund' = [refund EXCEPT !.pending_orders = refund.pending_orders \ {k},
                      !.tp_daytrain = modify_seat(refund.tp_daytrain, p.from, p.to - 1,
                                                  -p.num)]
      /\ SetStatus(p.user_name, k[3], "success")
      /\ UNCHANGED <<train_database, daytrain_database, order_num, order_size>>
  BY DEF refund_promote, CanPromote
<1>2. /\ k \in DOMAIN pending_order_database
      /\ refund \in RefundCall
      /\ refund.tp_daytrain \in DayTrain
  BY RefundBusy
<1>3. /\ k[3] \in 1 .. MaxOrders
      /\ p.user_name \in Users
      /\ <<p.user_name, k[3]>> \in DOMAIN order_database
  BY <1>2, PendingEntry
<1>4. o = [train_ID |-> k[1], start_day |-> k[2], from |-> p.from, to |-> p.to,
           num |-> p.num, status |-> "pending"]
  BY <1>2 DEF TicketInv, PendingMatchesOrders
<1>5. <<k[1], k[2]>> = day /\ day \in DOMAIN daytrain_database
  BY DEF TicketInv, RefundCallIsCurrent, ScanPending, DayTrainsMatchSale, OnSale
<1>6. p.from \in 1 .. maxn /\ p.to \in 1 .. maxn /\ p.num \in Int
  BY <1>2, TrainAssumption DEF TicketInv, TrainTypeOK, PendingOrder
<1> HIDE DEF p
<1>7. /\ o.status = "pending"
      /\ <<o.train_ID, o.start_day>> = day
      /\ o.from = p.from /\ o.to = p.to /\ o.num = p.num
  BY <1>4, <1>5
<1>8. /\ refund'.busy
      /\ refund'.refund_order = refund.refund_order
      /\ refund'.tp_daytrain = modify_seat(refund.tp_daytrain, p.from, p.to - 1, -p.num)
  BY <1>1, <1>2 DEF RefundCall
<1> HIDE DEF o
<1>9. ASSUME NEW j \in DOMAIN daytrain_database, NEW i \in 1 .. maxn
      PROVE  SeatsNow(j)'[i] = SeatsNow(j)[i]
               + (IF /\ o.status = "success"
                     /\ j = <<o.train_ID, o.start_day>>
                     /\ i \in o.from .. o.to - 1 THEN o.num ELSE 0)
               - (IF /\ "success" = "success"
                     /\ j = <<o.train_ID, o.start_day>>
                     /\ i \in o.from .. o.to - 1 THEN o.num ELSE 0)
  <2>1. /\ SeatsNow(j) = IF j = day THEN refund.tp_daytrain ELSE daytrain_database[j]
        /\ SeatsNow(j)' = IF j = day THEN refund'.tp_daytrain ELSE daytrain_database[j]
    BY <1>1, <1>8 DEF SeatsNow
  <2>2. daytrain_database[j][i] \in Int /\ refund.tp_daytrain[i] \in Int
    BY <1>2 DEF TicketInv, TrainTypeOK, DayTrain
  <2>3. refund'.tp_daytrain[i] =
           IF i \in p.from .. p.to - 1 THEN refund.tp_daytrain[i] + (-p.num)
                                       ELSE refund.tp_daytrain[i]
    BY <1>8, ModifySeatAt
  <2> HIDE DEF day
  <2> QED
    BY <1>6, <1>7, <2>1, <2>2, <2>3
<1>10. /\ SeatsAddUp'
       /\ k[3] \in DOMAIN LedgerOrders
       /\ LedgerOrders[k[3]] = Entry(o)
       /\ Ledger!SetStatus(k[3], "success")
  <2>1. "success" \in {"success", "refunded"} /\ o = order_database[<<p.user_name, k[3]>>]
    BY DEF o
  <2> QED
    BY <1>1, <1>3, <1>9, <2>1, StatusFollows
<1>11. /\ LedgerOrders[k[3]].status = "pending"
       /\ LedgerOrders[k[3]].purchase = [trip |-> day, from |-> p.from, to |-> p.to,
                                         num |-> p.num]
  BY <1>7, <1>10 DEF Entry
<1>12. Ledger!Fits(LedgerOrders[k[3]].purchase)
  <2> DEFINE q == LedgerOrders[k[3]].purchase
  <2>1. q.trip = day /\ q.from = p.from /\ q.to = p.to /\ q.num = p.num
    BY <1>11
  <2>2. SeatsNow(day) = refund.tp_daytrain
    BY DEF SeatsNow
  <2> HIDE DEF q, day
  <2>3. Ledger!Fits(q)
    BY <1>1, <1>5, <1>6, <2>1, <2>2, SeatsDecide
  <2> QED
    BY <2>3 DEF q
<1> QED
  BY <1>10, <1>11, <1>12 DEF Follows, Ledger!Next, Ledger!Promote

\* Between promotions the loop changes nothing that counts; at its end the copy
\* becomes the database.
LEMMA LoopFollows ==
    ASSUME TicketInv, SeatsAddUp, refund.busy,
           (\E k \in refund.pending_orders : refund_skip(k)) \/ refund_finish
    PROVE  Follows
<1> DEFINE day == <<refund.refund_order.train_ID, refund.refund_order.start_day>>
<1>1. UNCHANGED <<train_database, order_database>>
  BY DEF refund_skip, refund_finish
<1>2. day \in DOMAIN daytrain_database
  BY DEF TicketInv, RefundCallIsCurrent, DayTrainsMatchSale, OnSale
<1>3. /\ DOMAIN daytrain_database' = DOMAIN daytrain_database
      /\ \A k \in DOMAIN daytrain_database : SeatsNow(k)' = SeatsNow(k)
  <2>1. CASE refund_finish
    BY <1>2, <2>1 DEF refund_finish, InsertEntry, NoRefund, SeatsNow
  <2>2. ASSUME NEW k \in refund.pending_orders, refund_skip(k)
        PROVE  /\ DOMAIN daytrain_database' = DOMAIN daytrain_database
               /\ \A j \in DOMAIN daytrain_database : SeatsNow(j)' = SeatsNow(j)
    <3>1. refund \in RefundCall
      BY RefundBusy
    <3>2. /\ refund'.busy = refund.busy
          /\ refund'.refund_order = refund.refund_order
          /\ refund'.tp_daytrain = refund.tp_daytrain
          /\ UNCHANGED daytrain_database
      BY <2>2, <3>1 DEF refund_skip, RefundCall
    <3> QED
      BY <3>2 DEF SeatsNow
  <2> QED
    BY <2>1, <2>2
<1> QED
  BY <1>1, <1>3, QuietStep

\* clean is the ledger's reset.
LEMMA CleanFollows ==
    ASSUME clean_trains
    PROVE  Follows
<1>1. /\ DOMAIN order_database' = {} /\ DOMAIN daytrain_database' = {}
  BY EmptyIndexIs DEF clean_trains
<1>2. LedgerOrders' = Ledger!NoTrips
  <2>1. OrderIDs' = {}
    BY <1>1 DEF OrderIDs
  <2> QED
    BY <2>1 DEF LedgerOrders, Ledger!NoTrips
<1>3. LedgerCapacity' = Ledger!NoTrips
  BY <1>1 DEF LedgerCapacity, Ledger!NoTrips
<1>4. SeatsAddUp'
  BY <1>1 DEF SeatsAddUp
<1> QED
  BY <1>2, <1>3, <1>4 DEF Follows, Ledger!Next, Ledger!Reset

\* Trains that are not on sale do not concern the ledger.
LEMMA TrainFollows ==
    ASSUME TicketInv, SeatsAddUp, Idle, NEW train_ID \in TrainIDs,
           \/ \E tt \in Timetables : add_train(train_ID, tt)
           \/ delete_train(train_ID)
    PROVE  Follows
<1>1. UNCHANGED <<order_database, daytrain_database, refund>>
  BY DEF add_train, delete_train
<1>2. \A i \in DOMAIN train_database :
         train_database[i].is_released => train_database'[i] = train_database[i]
  <2>1. CASE delete_train(train_ID)
    BY <2>1 DEF delete_train, DeleteEntry
  <2>2. CASE \E tt \in Timetables : add_train(train_ID, tt)
    BY <2>2 DEF add_train, InsertEntry
  <2> QED
    BY <2>1, <2>2
<1>3. \A k \in DOMAIN daytrain_database : train_database'[k[1]] = train_database[k[1]]
  BY <1>2 DEF TicketInv, DayTrainsMatchSale, OnSale
<1>4. \A k \in DOMAIN daytrain_database : SeatsNow(k)' = SeatsNow(k)
  BY <1>1 DEF SeatsNow
<1> QED
  BY <1>1, <1>3, <1>4, QuietStep

\* Every step of the program keeps the counters right and is one of the ledger.
LEMMA EveryStepFollows ==
    ASSUME TicketInv, TicketInv', SeatsAddUp, [Next]_vars
    PROVE  Follows
<1>1. CASE Idle /\ TrainCommand
  BY <1>1, TrainFollows, ReleaseFollows, BuyFollows, RefundPendingFollows,
     RefundStartFollows DEF TrainCommand
<1>2. CASE RefundStep
  BY <1>2, LoopFollows, PromoteFollows DEF RefundStep
<1>3. CASE clean
  BY <1>3, CleanFollows DEF clean
<1>4. CASE restart \/ UNCHANGED trainVars
  <2>1. UNCHANGED <<train_database, daytrain_database, order_database, refund>>
    BY <1>4 DEF restart, restart_trains, trainVars
  <2>2. \A k \in DOMAIN daytrain_database : SeatsNow(k)' = SeatsNow(k)
    BY <2>1 DEF SeatsNow
  <2> QED
    BY <2>1, <2>2, QuietStep
<1> QED
  BY <1>1, <1>2, <1>3, <1>4 DEF Next, vars

\* A new program has no orders and no trips.
LEMMA EmptyLedger == TrainInit => SeatsAddUp /\ Ledger!Init
<1> SUFFICES ASSUME TrainInit
             PROVE  SeatsAddUp /\ Ledger!Init
  OBVIOUS
<1>1. DOMAIN order_database = {} /\ DOMAIN daytrain_database = {}
  BY EmptyIndexIs DEF TrainInit
<1>2. OrderIDs = {}
  BY <1>1 DEF OrderIDs
<1>3. LedgerOrders = Ledger!NoTrips /\ LedgerCapacity = Ledger!NoTrips
  BY <1>1, <1>2 DEF LedgerOrders, LedgerCapacity, Ledger!NoTrips
<1> QED
  BY <1>1, <1>3 DEF SeatsAddUp, Ledger!Init

\* The seat counters never drift from the orders, through any sequence of
\* purchases, refunds, promotions, cleans and restarts.
THEOREM CountersAddUp == Spec => []SeatsAddUp
<1>1. TicketInv /\ TicketInv' /\ SeatsAddUp /\ [Next]_vars => SeatsAddUp'
  BY EveryStepFollows DEF Follows
<1> QED
  BY <1>1, EmptyLedger, TicketInvHolds, PTL DEF Spec, Init

\* The ticket system implements the ledger: it grants seats exactly when the
\* orders leave room, and promotes only where they do.
THEOREM SystemImplementsLedger == Spec => ImplementsLedger
<1>1. /\ TicketInv /\ TicketInv' /\ SeatsAddUp /\ [Next]_vars
      => [Ledger!Next]_(Ledger!ledgerVars)
  BY EveryStepFollows DEF Follows
<1> QED
  BY <1>1, EmptyLedger, CountersAddUp, TicketInvHolds, PTL
     DEF Spec, Init, ImplementsLedger, Ledger!Spec
=============================================================================
