--------------------------- MODULE AccountsProofs ---------------------------
(***************************************************************************)
(* The account invariants for any set of users, passwords and privileges.  *)
(* The step lemma is stated for the parts the ticket system shares (a      *)
(* command, the accounts' share of clean and of exit), so that it serves   *)
(* both AccountSpec and the whole program.                                 *)
(***************************************************************************)
EXTENDS Accounts, TLAPS

\* The conjunction is inductive: AtMostOneRoot needs LoggedInUsersExist to know
\* that the pool is empty when the first user is added.
AccountInv == AccountTypeOK /\ LoggedInUsersExist /\ AtMostOneRoot

\* A cleared database holds no key.
LEMMA EmptyIndexIs == DOMAIN EmptyIndex = {}
BY DEF EmptyIndex

\* The state of a fresh installation satisfies the invariant.
LEMMA AccountInitInv == AccountInit => AccountInv
BY EmptyIndexIs DEF AccountInit, AccountInv, AccountTypeOK, LoggedInUsersExist,
     AtMostOneRoot, Roots

\* Every command of AccountManagement, and what clean and exit do to the
\* accounts, keeps the invariant.
LEMMA AccountStep ==
    ASSUME AccountInv, AccountCommand \/ clean_accounts \/ exit_accounts
    PROVE  AccountInv'
<1> USE AccountAssumption DEF AccountInv, AccountTypeOK, LoggedInUsersExist,
        AtMostOneRoot, Roots, User, RootPrivilege
<1>1. ASSUME NEW username \in Users, NEW password \in Passwords,
             add_first_user(username, password)
      PROVE  AccountInv'
  <2> DEFINE u == [password |-> password, privilege |-> RootPrivilege]
  <2>1. DOMAIN user_database = {} /\ DOMAIN login_pool = {}
    BY <1>1 DEF add_first_user, IsEmpty
  <2>2. /\ DOMAIN user_database' = {username}
        /\ user_database'[username] = u
        /\ login_pool' = login_pool
    BY <1>1, <2>1 DEF add_first_user, InsertEntry
  <2> QED
    BY <2>1, <2>2
<1>2. ASSUME NEW username \in Users, NEW cur \in Users,
             NEW password \in Passwords, NEW privilege \in Privileges,
             add_user(cur, username, password, privilege)
      PROVE  AccountInv'
  <2> DEFINE u == [password |-> password, privilege |-> privilege]
  <2>1. /\ DOMAIN user_database' = DOMAIN user_database \cup {username}
        /\ user_database'[username] = u
        /\ \A k \in DOMAIN user_database :
              k # username => user_database'[k] = user_database[k]
        /\ login_pool' = login_pool
        /\ username \notin DOMAIN user_database
    BY <1>2 DEF add_user, InsertEntry
  <2>2. cur \in DOMAIN login_pool /\ login_pool[cur] > privilege
    BY <1>2 DEF add_user, Outranks
  <2>3. privilege \in 0 .. 9
    BY <2>2
  <2> QED
    BY <2>1, <2>3
<1>3. ASSUME NEW username \in Users, NEW password \in Passwords,
             login(username, password)
      PROVE  AccountInv'
  <2>1. /\ DOMAIN login_pool' = DOMAIN login_pool \cup {username}
        /\ login_pool'[username] = user_database[username].privilege
        /\ \A k \in DOMAIN login_pool :
              k # username => login_pool'[k] = login_pool[k]
        /\ user_database' = user_database
        /\ username \in DOMAIN user_database
    BY <1>3 DEF login, InsertEntry
  <2> QED
    BY <2>1
<1>4. ASSUME NEW username \in Users, logout(username)
      PROVE  AccountInv'
  <2>1. /\ DOMAIN login_pool' = DOMAIN login_pool \ {username}
        /\ \A k \in DOMAIN login_pool' : login_pool'[k] = login_pool[k]
        /\ user_database' = user_database
    BY <1>4 DEF logout, DeleteEntry
  <2> QED
    BY <2>1
<1>5. ASSUME NEW username \in Users, NEW cur \in Users,
             NEW password \in Passwords \cup {Absent},
             NEW privilege \in Privileges,
             modify_profile(cur, username, password, privilege)
      PROVE  AccountInv'
  <2> DEFINE u == user_database[username]
             n == [password  |-> IF password = Absent THEN u.password ELSE password,
                   privilege |-> IF privilege = 0 THEN u.privilege ELSE privilege]
  <2>1. /\ username \in DOMAIN user_database
        /\ cur \in DOMAIN login_pool
        /\ login_pool[cur] > privilege
    BY <1>5 DEF modify_profile, MayAccess, Outranks
  <2>2. /\ DOMAIN user_database' = DOMAIN user_database
        /\ user_database'[username] = n
        /\ \A k \in DOMAIN user_database :
              k # username => user_database'[k] = user_database[k]
        /\ login_pool' = login_pool
    BY <1>5, <2>1 DEF modify_profile, InsertEntry, NewPassword
  <2>3. privilege \in 0 .. 9
    <3> HIDE DEF u, n, AtMostOneRoot, LoggedInUsersExist
    <3> QED
      BY <2>1
  <2>4. u.password \in Passwords /\ u.privilege \in 0 .. RootPrivilege
    BY <2>1
  <2>5. /\ (IF password = Absent THEN u.password ELSE password) \in Passwords
        /\ (IF privilege = 0 THEN u.privilege ELSE privilege) \in 0 .. RootPrivilege
    BY <2>3, <2>4
  <2>6. n \in User /\ (n.privilege = RootPrivilege => u.privilege = RootPrivilege)
    BY <2>3, <2>5
  <2> QED
    BY <2>1, <2>2, <2>6
<1>6. CASE clean_accounts
  BY <1>6, EmptyIndexIs DEF clean_accounts
<1>7. CASE exit_accounts
  BY <1>7, EmptyIndexIs DEF exit_accounts
<1> QED
  BY <1>1, <1>2, <1>3, <1>4, <1>5, <1>6, <1>7 DEF AccountCommand

\* Whatever the sequence of commands: nobody is logged in who is not a user,
\* and privilege 10 belongs to at most one user, the pool's copies included.
THEOREM AccountsAreSound ==
    AccountSpec => [](AccountTypeOK /\ LoggedInUsersExist /\ AtMostOneRoot)
<1>1. AccountInv /\ [AccountNext]_accountVars => AccountInv'
  <2> SUFFICES ASSUME AccountInv, [AccountNext]_accountVars
               PROVE  AccountInv'
    OBVIOUS
  <2>1. CASE AccountNext
    BY <2>1, AccountStep DEF AccountNext
  <2>2. CASE UNCHANGED accountVars
    BY <2>2 DEF accountVars, AccountInv, AccountTypeOK, LoggedInUsersExist,
         AtMostOneRoot, Roots
  <2> QED
    BY <2>1, <2>2
<1> QED
  BY AccountInitInv, <1>1, PTL DEF AccountSpec, AccountInv

\* In particular a permission check never reads the privilege of somebody who
\* is not a user, whatever logins, logouts and cleans came before.
THEOREM NobodyElseIsLoggedIn == AccountSpec => []LoggedInUsersExist
BY AccountsAreSound, PTL
=============================================================================
