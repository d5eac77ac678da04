------------------------------ MODULE Accounts ------------------------------
(***************************************************************************)
(* AccountManagement: the persistent user database and the login pool,     *)
(* which lives in memory and caches the privilege a user had when it       *)
(* logged in.  A command that answers -1 changes nothing: it is a step in  *)
(* which none of the actions below is taken.                               *)
(***************************************************************************)
EXTENDS Naturals, Index

CONSTANTS
    Users,       \* user names that appear in commands
    Passwords,   \* passwords that appear in commands
    Privileges   \* privileges that appear after -g

\* The privilege of the first user, and the empty (absent) option of a command.
RootPrivilege == 10
Absent == ""

ASSUME AccountAssumption ==
    /\ Privileges \subseteq 0 .. RootPrivilege
    /\ Absent \notin Passwords

VARIABLES
    user_database,  \* user name -> [password, privilege]
    login_pool      \* user name -> privilege at the time of login

accountVars == <<user_database, login_pool>>

User == [password : Passwords, privilege : 0 .. RootPrivilege]

AccountInit ==
    /\ user_database = EmptyIndex
    /\ login_pool = EmptyIndex
-----------------------------------------------------------------------------
\* add_user on an empty database: -c and -g are ignored.
add_first_user(username, password) ==
    /\ IsEmpty(user_database)
    /\ user_database' = InsertEntry(user_database, username,
                          [password |-> password, privilege |-> RootPrivilege])
    /\ UNCHANGED login_pool

\* Bug: a user may hand on its own privilege.
Outranks_or_equals(cur, privilege) == login_pool[cur] >= privilege

\* add_user and modify_profile give out less than cur's own privilege, as the
\* pool knows it.
Outranks(cur, privilege) == login_pool[cur] > privilege

\* add_user by the logged-in user cur.
add_user(cur, username, password, privilege) ==
    /\ ~IsEmpty(user_database)
    /\ cur \in DOMAIN login_pool
    /\ Outranks(cur, privilege)
    /\ username \notin DOMAIN user_database
    /\ user_database' = InsertEntry(user_database, username,
                          [password |-> password, privilege |-> privilege])
    /\ UNCHANGED login_pool

login(username, password) ==
    /\ username \in DOMAIN user_database
    /\ username \notin DOMAIN login_pool
    /\ user_database[username].password = password
    /\ login_pool' = InsertEntry(login_pool, username,
                                 user_database[username].privilege)
    /\ UNCHANGED user_database

logout(username) ==
    /\ username \in DOMAIN login_pool
    /\ login_pool' = DeleteEntry(login_pool, username)
    /\ UNCHANGED user_database

\* The test that modify_profile and query_profile share: cur is logged in, and
\* either outranks username or is username.
MayAccess(cur, username) ==
    /\ username \in DOMAIN user_database
    /\ cur \in DOMAIN login_pool
    /\ login_pool[cur] > user_database[username].privilege \/ cur = username

NewPassword(u, password) == IF password = Absent THEN u.password ELSE password

\* modify_profile: Absent and 0 stand for the options that were not given.
modify_profile(cur, username, password, privilege) ==
    /\ MayAccess(cur, username)
    /\ Outranks(cur, privilege)
    /\ LET u == user_database[username]
       IN  user_database' = InsertEntry(user_database, username,
             [password  |-> NewPassword(u, password),
              privilege |-> IF privilege = 0 THEN u.privilege ELSE privilege])
    /\ UNCHANGED login_pool

\* Bug: clean forgets the pool.
clean_accounts_keeps_pool == user_database' = EmptyIndex /\ UNCHANGED login_pool

\* The share of clean that concerns the accounts.
clean_accounts ==
    /\ user_database' = EmptyIndex
    /\ login_pool' = EmptyIndex

\* exit, or the end of the input: the pool dies with the process.
exit_accounts ==
    /\ login_pool' = EmptyIndex
    /\ UNCHANGED user_database

AccountCommand ==
    \E username \in Users :
        \/ logout(username)
        \/ \E password \in Passwords :
              \/ add_first_user(username, password)
              \/ login(username, password)
        \/ \E cur \in Users, privilege \in Privileges :
              \/ \E password \in Passwords :
                    add_user(cur, username, password, privilege)
              \/ \E password \in Passwords \cup {Absent} :
                    modify_profile(cur, username, password, privilege)

AccountNext == AccountCommand \/ clean_accounts \/ exit_accounts

AccountSpec == AccountInit /\ [][AccountNext]_accountVars
-----------------------------------------------------------------------------
\* The two databases map user names to users and to privileges.
AccountTypeOK ==
    /\ DOMAIN user_database \subseteq Users
    /\ \A u \in DOMAIN user_database : user_database[u] \in User
    /\ DOMAIN login_pool \subseteq Users
    /\ \A u \in DOMAIN login_pool : login_pool[u] \in 0 .. RootPrivilege

\* Every command that finds its user in the pool (buy_ticket, refund_ticket,
\* add_user...) may rely on that user's existence: clean empties both, nothing
\* else removes a user.
LoggedInUsersExist == DOMAIN login_pool \subseteq DOMAIN user_database

\* Who holds privilege 10, in the database or (stale) in the pool.
Roots == {u \in DOMAIN user_database : user_database[u].privilege = RootPrivilege}
           \cup {u \in DOMAIN login_pool : login_pool[u] = RootPrivilege}

\* Privilege 10 is only ever given to the first user of an empty database: no
\* sequence of add_user, modify_profile, login and clean makes a second one,
\* although modify_profile and add_user compare with the pool's stale copy.
AtMostOneRoot == \A u, v \in Roots : u = v

\* README.md:489 says the pool is updated whenever a privilege is modified.
PoolIsUpToDate ==
    \A u \in DOMAIN login_pool :
        u \in DOMAIN user_database => login_pool[u] = user_database[u].privilege
=============================================================================
