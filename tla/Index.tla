------------------------------- MODULE Index -------------------------------
(***************************************************************************)
(* What BPlusTreeIndexNTS promises the managers: a dictionary with unique  *)
(* keys.  A database is a function whose DOMAIN is the set of keys held.   *)
(* The tree that implements it has modules of its own.                     *)
(***************************************************************************)

\* Clear(), and a file that does not exist yet: no key at all.
EmptyIndex == [k \in {} |-> 0]

\* IsEmpty(): the tree has no root.
IsEmpty(db) == DOMAIN db = {}

\* InsertEntry(key, value): a key that is already there is modified.
InsertEntry(db, key, value) ==
    [k \in DOMAIN db \cup {key} |-> IF k = key THEN value ELSE db[k]]

\* A loop of InsertEntry calls that stores the same value under every key.
InsertEntries(db, keys, value) ==
    [k \in DOMAIN db \cup keys |-> IF k \in keys THEN value ELSE db[k]]

\* DeleteEntry(key): nothing happens when there is no such entry.
DeleteEntry(db, key) == [k \in DOMAIN db \ {key} |-> db[k]]

\* How much InsertEntry(key, _) adds to size_: 0 for a modification.
Inserted(db, key) == IF key \in DOMAIN db THEN 0 ELSE 1
=============================================================================
