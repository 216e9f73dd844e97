------------------------------ MODULE Accounts ------------------------------
(***************************************************************************)
(* Sign-in, sign-up and sessions: the login, signup and logout endpoints   *)
(* (backend/fingent/app.py), the password check (auth.py), and the users   *)
(* and sessions tables (store.py).  Every step is what a handler does      *)
(* under one lock or in one statement of the store.                        *)
(*                                                                         *)
(* A password is itself: its hash verifies that password and no other.  A  *)
(* session is one of the number its user has.                              *)
(***************************************************************************)
EXTENDS Requests

CONSTANTS
  Users, Passwords,
  Configured,    \* _USERS: the accounts of the environment, a function to passwords
  MaxAttempts,   \* _LOGIN_MAX_ATTEMPTS
  MaxSessions,   \* bound: sessions of a user
  NoAccount

ASSUME AccountsAssumption ==
  /\ DOMAIN Configured \subseteq Users
  /\ \A u \in DOMAIN Configured : Configured[u] \in Passwords
  /\ NoAccount \notin Passwords
  /\ MaxAttempts \in Nat \ {0} /\ MaxSessions \in Nat

VARIABLES
  accounts,    \* the users table
  sessions,    \* the sessions table: how many of each user
  fails,       \* rec[0] of _login_fails, 0 for no entry
  locked,      \* users whose rec[1] lies ahead
  tries,       \* history: passwords found wrong since the lock last opened, or a success
  overlapped   \* history: names for which two sign-ups were under way at once

accountVars == <<accounts, sessions, fails, locked, tries, overlapped>>

SignInCall ==
  [op : {"login"}, user : Users, password : Passwords, pc : {"verify", "count", "clear", "session"}]
  \cup [op : {"signup"}, user : Users, password : Passwords, pc : {"lookup", "create", "session"}]

AccountsTypeOK ==
  /\ accounts \in [Users -> Passwords \cup {NoAccount}]
  /\ sessions \in [Users -> 0..MaxSessions]
  /\ fails \in [Users -> 0..MaxAttempts - 1]
  /\ locked \subseteq Users
  /\ tries \in [Users -> Nat]
  /\ overlapped \subseteq Users

AccountsInit ==
  /\ accounts = [u \in Users |-> NoAccount]
  /\ sessions = [u \in Users |-> 0]
  /\ fails = [u \in Users |-> 0]
  /\ locked = {}
  /\ tries = [u \in Users |-> 0]
  /\ overlapped = {}

\* _user_record: the environment first.
UserRecord(u) == IF u \in DOMAIN Configured THEN Configured[u] ELSE accounts[u]

-----------------------------------------------------------------------------
(* login.                                                                  *)

\* _login_locked lets it in.
BeginLogin(t, u, password) ==
  /\ u \notin locked
  /\ Accept(t, [op |-> "login", user |-> u, password |-> password, pc |-> "verify"])
  /\ UNCHANGED accountVars

Verify(t) ==
  /\ At(t, "login", "verify")
  /\ LET u == requests[t].user
     IN IF UserRecord(u) = requests[t].password
        THEN Reach(t, "clear") /\ UNCHANGED tries
        ELSE Reach(t, "count") /\ tries' = [tries EXCEPT ![u] = @ + 1]
  /\ UNCHANGED <<accounts, sessions, fails, locked, overlapped>>

\* A bug: one attempt more before the lock.
LockLate(n) == n > MaxAttempts

LockNow(n) == n >= MaxAttempts

\* _record_login_failure.
CountFailure(t) ==
  /\ At(t, "login", "count")
  /\ LET u == requests[t].user
     IN IF LockNow(fails[u] + 1)
        THEN locked' = locked \cup {u} /\ fails' = [fails EXCEPT ![u] = 0]
        ELSE fails' = [fails EXCEPT ![u] = @ + 1] /\ UNCHANGED locked
  /\ Respond(t)
  /\ UNCHANGED <<accounts, sessions, tries, overlapped>>

\* _clear_login_failures: the lock goes, too.
ClearFailures(t) ==
  /\ At(t, "login", "clear")
  /\ LET u == requests[t].user
     IN /\ fails' = [fails EXCEPT ![u] = 0]
        /\ locked' = locked \ {u}
        /\ tries' = [tries EXCEPT ![u] = 0]
  /\ Reach(t, "session")
  /\ UNCHANGED <<accounts, sessions, overlapped>>

\* create_session, the last step of login and of signup.
OpenSession(t) ==
  /\ At(t, "login", "session") \/ At(t, "signup", "session")
  /\ sessions[requests[t].user] < MaxSessions
  /\ sessions' = [sessions EXCEPT ![requests[t].user] = @ + 1]
  /\ Respond(t)
  /\ UNCHANGED <<accounts, fails, locked, tries, overlapped>>

-----------------------------------------------------------------------------
(* signup, and what time, logout and a restart do.                         *)

SigningUp(u) ==
  {t \in Threads : requests[t] # NoRequest /\ requests[t].op = "signup" /\ requests[t].user = u}

BeginSignup(t, u, password) ==
  /\ Accept(t, [op |-> "signup", user |-> u, password |-> password, pc |-> "lookup"])
  /\ overlapped' = IF SigningUp(u) = {} THEN overlapped ELSE overlapped \cup {u}
  /\ UNCHANGED <<accounts, sessions, fails, locked, tries>>

\* A bug: only the accounts of the environment are looked up.
TakenThere(u) == u \in DOMAIN Configured

Taken(u) == UserRecord(u) # NoAccount

LookUp(t) ==
  /\ At(t, "signup", "lookup")
  /\ IF Taken(requests[t].user) THEN Respond(t) ELSE Reach(t, "create")
  /\ UNCHANGED accountVars

\* create_user: an upsert.
CreateUser(t) ==
  /\ At(t, "signup", "create")
  /\ accounts' = [accounts EXCEPT ![requests[t].user] = requests[t].password]
  /\ Reach(t, "session")
  /\ UNCHANGED <<sessions, fails, locked, tries, overlapped>>

SignInStep(t) ==
  Verify(t) \/ CountFailure(t) \/ ClearFailures(t) \/ OpenSession(t) \/ LookUp(t) \/ CreateUser(t)

\* The lockout window passes.
LockOpens(u) ==
  /\ u \in locked
  /\ locked' = locked \ {u}
  /\ tries' = [tries EXCEPT ![u] = 0]
  /\ UNCHANGED <<accounts, sessions, fails, overlapped, requests, accepted>>

\* A session expires, or logout deletes it.
SessionEnds(u) ==
  /\ sessions[u] > 0
  /\ sessions' = [sessions EXCEPT ![u] = @ - 1]
  /\ UNCHANGED <<accounts, fails, locked, tries, overlapped, requests, accepted>>

\* _login_fails is lost; the tables are kept.
AccountsRestart ==
  /\ fails' = [u \in Users |-> 0]
  /\ locked' = {}
  /\ tries' = [u \in Users |-> 0]
  /\ UNCHANGED <<accounts, sessions, overlapped>>

-----------------------------------------------------------------------------
\* However logins overlap, one user's account takes no more wrong passwords than
\* _LOGIN_MAX_ATTEMPTS, and one for every other thread that was past the check,
\* before the lock shuts (app.py: the lock is read before and counted after).
LockoutHolds ==
  \A u \in Users : tries[u] <= MaxAttempts + Cardinality(Threads) - 1

\* Nobody's account is replaced by another sign-up, unless two sign-ups of that
\* name overlapped (app.py: "username already exists").
AccountsKept ==
  [][\A u \in Users : accounts[u] # NoAccount /\ accounts'[u] # accounts[u] => u \in overlapped]_accounts

=============================================================================
