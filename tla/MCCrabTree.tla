----------------------------- MODULE MCCrabTree -----------------------------
(***************************************************************************)
(* Small trees and the tasks that make their threads meet.  AdjustRoot     *)
(* unlocks the root latch too often, which harms a third operation; where  *)
(* a tree may lose its root there are two threads, except in the run that  *)
(* shows the harm.                                                         *)
(***************************************************************************)
EXTENDS CrabTree

Task(type, keys) == [type : {type}, key : keys, value : {-1}]

MCFirst == [k \in Keys |-> IF k < 9 THEN 0 ELSE 1]

MCValues == [k \in Keys |-> {k}]

\* Three leaves of two entries under one root that stays: removals merge and
\* redistribute, insertions split.
Wide ==
    [keys |-> <<1, 2, 4, 6, 7, 9>>, threads |-> 3,
     tasks |-> Task("FIND", {4, 7}) \cup Task("MULTIFIND", {1, 4})
               \cup Task("OPTIMISTIC_INSERT", {3, 4, 5, 8})
               \cup Task("OPTIMISTIC_DELETE", {2, 4, 7})]

\* Four leaves of two entries, and two pages of two children below the root:
\* one removal takes a level away, and insertions split on two levels.
Tall ==
    [keys |-> <<1, 2, 3, 4, 6, 7, 9, 10>>, threads |-> 2,
     tasks |-> Task("FIND", {6}) \cup Task("MULTIFIND", {1, 6})
               \cup Task("OPTIMISTIC_INSERT", {5, 6, 8})
               \cup Task("OPTIMISTIC_DELETE", {1, 4, 6, 10})]

\* The same with a page of three children, whose neighbour takes one over.
Uneven == [Tall EXCEPT !.keys = <<1, 2, 3, 4, 6, 7, 8, 9, 10>>]

\* A tree that may become empty.
Low ==
    [keys |-> <<1>>, threads |-> 2,
     tasks |-> Task("FIND", {1}) \cup Task("MULTIFIND", {1})
               \cup Task("OPTIMISTIC_INSERT", {1, 3})
               \cup Task("OPTIMISTIC_DELETE", {1, 3})]

MCStarts ==
    {Wide, Tall, Uneven, Low, [Low EXCEPT !.keys = <<>>],
     [Low EXCEPT !.keys = <<1, 2, 3, 4>>]}

\* The last entry is removed while two threads insert.
RootStarts ==
    {[Low EXCEPT !.threads = 3,
                 !.tasks = Task("OPTIMISTIC_DELETE", {1}) \cup Task("OPTIMISTIC_INSERT", {2, 3})]}

Symmetry == Permutations(Threads)
=============================================================================
