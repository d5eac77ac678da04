------------------------------- MODULE Ledger -------------------------------
(***************************************************************************)
(* What ticketing promises, without seat counters, waiting-list files or   *)
(* refund loops: a purchase is granted only if the orders already granted  *)
(* leave room for it, has to wait only if they do not, and room is all a   *)
(* waiting order needs.  The room left is computed from the orders, so it  *)
(* cannot drift from them.                                                 *)
(***************************************************************************)
EXTENDS Integers, FiniteSets

CONSTANTS
    IDs,        \* order IDs
    Purchases,  \* what can be asked for: [trip, from, to, num]
    Trips       \* trip -> seats per segment, for every trip ever put on sale

VARIABLES
    capacity,   \* the trips on sale -> seats per segment
    orders      \* order ID -> [purchase, status]

ledgerVars == <<capacity, orders>>

NoTrips == [k \in {} |-> 0]

Init == capacity = NoTrips /\ orders = NoTrips

Granted(trip, segment) ==
    {id \in DOMAIN orders :
        LET p == orders[id].purchase
        IN  /\ orders[id].status = "success"
            /\ p.trip = trip
            /\ segment \in p.from .. p.to - 1}

\* Every ticket that is valid there, numbered within its order.
Tickets(trip, segment) ==
    UNION {{id} \X (1 .. orders[id].purchase.num) : id \in Granted(trip, segment)}

Room(trip, segment) == capacity[trip][segment] - Cardinality(Tickets(trip, segment))

Fits(p) == \A segment \in p.from .. p.to - 1 : Room(p.trip, segment) >= p.num

With(f, k, v) == [x \in DOMAIN f \cup {k} |-> IF x = k THEN v ELSE f[x]]

\* A train is released: some trips that were not on sale now are.
Open ==
    \E sale \in Trips :
        /\ DOMAIN sale \cap DOMAIN capacity = {}
        /\ capacity' = [k \in DOMAIN sale \cup DOMAIN capacity |->
                          IF k \in DOMAIN sale THEN sale[k] ELSE capacity[k]]
        /\ UNCHANGED orders

Order(id, p, status) ==
    /\ id \notin DOMAIN orders
    /\ p.trip \in DOMAIN capacity
    /\ status = IF Fits(p) THEN "success" ELSE "pending"
    /\ orders' = With(orders, id, [purchase |-> p, status |-> status])
    /\ UNCHANGED capacity

SetStatus(id, status) ==
    /\ orders' = [orders EXCEPT ![id].status = status]
    /\ UNCHANGED capacity

Cancel(id) == orders[id].status # "refunded" /\ SetStatus(id, "refunded")

Promote(id) ==
    /\ orders[id].status = "pending"
    /\ Fits(orders[id].purchase)
    /\ SetStatus(id, "success")

\* The administrator wipes everything.
Reset == capacity' = NoTrips /\ orders' = NoTrips

Next ==
    \/ Open
    \/ \E id \in IDs, p \in Purchases, status \in {"success", "pending"} :
          Order(id, p, status)
    \/ \E id \in DOMAIN orders : Cancel(id) \/ Promote(id)
    \/ Reset

Spec == Init /\ [][Next]_ledgerVars
=============================================================================
