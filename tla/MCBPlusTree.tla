---------------------------- MODULE MCBPlusTree -----------------------------
(***************************************************************************)
(* The two search trees behind the accounts: the B+ tree of an index, such *)
(* as user_database, and the map login_pool.  They share no state, so a    *)
(* call of one commutes with every call of the other: it is enough to run  *)
(* each while the other is empty.                                          *)
(*                                                                         *)
(* Every key has a value of its own, as the records of the program do, and *)
(* one key a second value, to which it can be modified.                    *)
(***************************************************************************)
EXTENDS IndexIterator, RedBlackMap

MCValues == [k \in Keys |-> IF k = 5 THEN {k, -k} ELSE {k}]

MCFirst == [k \in Keys |-> k \div 4]

MCInit == Init /\ MapInit

MCNext ==
    \/ mp = EmptyMap /\ Next /\ UNCHANGED mapVars
    \/ tree = EmptyTree /\ MapNext /\ UNCHANGED vars

MCSpec == MCInit /\ [][MCNext]_<<vars, mapVars>>
=============================================================================
