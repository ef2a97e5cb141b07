------------------------------- MODULE Throttles -------------------------------
(***************************************************************************)
(* The failed-login limiter (hub/internal/auth/ratelimit.go) under         *)
(* concurrent logins: Login and ChangePassword ask `blocked`, verify the   *)
(* password without the limiter's lock, and record a failure with `fail`.  *)
(* A window is its age and its count; `guesses` counts, apart from the     *)
(* limiter's own books, the recent failures of an account.                 *)
(***************************************************************************)
EXTENDS Integers, FiniteSets

CONSTANTS
    Accounts, IPs, Logins,
    MaxPair, MaxIP, MaxAcct,    \* maxLoginAttempts, ...PerIP, maxAccountAttempts
    LoginWindow

ASSUME ThrottlesAssumption ==
    /\ IsFiniteSet(Logins) /\ Logins # {}
    /\ {MaxPair, MaxIP, MaxAcct, LoginWindow} \subseteq Nat \ {0}

VARIABLES
    pairs, ips, accts,  \* windows, ipWindows, acctWindows
    login,              \* per worker: the attempt it verifies, or NoAttempt
    guesses             \* history: failures of an account in its last 0 .. LoginWindow ticks

throttlesVars == <<pairs, ips, accts, login, guesses>>

NoAttempt == <<>>
NoWindow == [age |-> 0, count |-> 0]

ThrottlesInit ==
    /\ pairs = [k \in Accounts \X IPs |-> NoWindow]
    /\ ips = [i \in IPs |-> NoWindow]
    /\ accts = [a \in Accounts |-> NoWindow]
    /\ login = [w \in Logins |-> NoAttempt]
    /\ guesses = [a \in Accounts |-> [d \in 0 .. LoginWindow |-> 0]]

-----------------------------------------------------------------------------

\* pruneWindows: a window older than loginWindow is dropped.
Pruned(win) == [k \in DOMAIN win |-> IF win[k].age > LoginWindow THEN NoWindow ELSE win[k]]

Full(win, k, max) == Pruned(win)[k].count >= max

\* Mutant of Blocked: the account axis is missing.
BlockedByAddress(a, i) == Full(pairs, <<a, i>>, MaxPair) \/ Full(ips, i, MaxIP)

\* blocked: any of the three axes is at its limit.
Blocked(a, i) ==
    \/ Full(pairs, <<a, i>>, MaxPair) \/ Full(ips, i, MaxIP) \/ Full(accts, a, MaxAcct)

\* bump: counts within the window, or starts a new one.
Counted(w) == IF w.count = 0 \/ w.age > LoginWindow THEN [age |-> 0, count |-> 1]
              ELSE [w EXCEPT !.count = @ + 1]
Bump(win, k) == [win EXCEPT ![k] = Counted(@)]

\* An attempt that is let through goes on to bcrypt.  (One that is blocked is
\* answered 429 and counts nowhere.)
Attempt(w, a, i) ==
    /\ login[w] = NoAttempt /\ ~Blocked(a, i)
    /\ pairs' = Pruned(pairs) /\ ips' = Pruned(ips) /\ accts' = Pruned(accts)
    /\ login' = [login EXCEPT ![w] = <<a, i>>]
    /\ UNCHANGED guesses

\* fail: one failure on all three axes.
Fail(w) ==
    /\ login[w] # NoAttempt
    /\ LET a == login[w][1]  i == login[w][2] IN
         /\ pairs' = Bump(pairs, <<a, i>>) /\ ips' = Bump(ips, i) /\ accts' = Bump(accts, a)
         /\ guesses' = [guesses EXCEPT ![a] = [d \in 0 .. LoginWindow |-> guesses[a][d] + 1]]
    /\ login' = [login EXCEPT ![w] = NoAttempt]

\* The right password, or an error of the store: no window is touched.
Succeed(w) ==
    /\ login[w] # NoAttempt
    /\ login' = [login EXCEPT ![w] = NoAttempt]
    /\ UNCHANGED <<pairs, ips, accts, guesses>>

Older(win) == [k \in DOMAIN win |->
    IF win[k].count = 0 \/ win[k].age > LoginWindow THEN win[k]
    ELSE [win[k] EXCEPT !.age = @ + 1]]

Tick ==
    /\ pairs' = Older(pairs) /\ ips' = Older(ips) /\ accts' = Older(accts)
    /\ guesses' = [a \in Accounts |-> [d \in 0 .. LoginWindow |->
                                         IF d = 0 THEN 0 ELSE guesses[a][d - 1]]]
    /\ UNCHANGED login

ThrottlesNext ==
    \/ Tick
    \/ \E w \in Logins : Fail(w) \/ Succeed(w)
    \/ \E w \in Logins, a \in Accounts, i \in IPs : Attempt(w, a, i)

ThrottlesSpec == ThrottlesInit /\ [][ThrottlesNext]_throttlesVars

-----------------------------------------------------------------------------
Windows(K) == [K -> [age : 0 .. LoginWindow + 1, count : Nat]]
ThrottlesTypeOK ==
    /\ pairs \in Windows(Accounts \X IPs) /\ ips \in Windows(IPs) /\ accts \in Windows(Accounts)
    /\ login \in [Logins -> (Accounts \X IPs) \cup {NoAttempt}]
    /\ guesses \in [Accounts -> [0 .. LoginWindow -> Nat]]

\* However many addresses the attempts come from, the failures of one account
\* within any loginWindow are bounded: they fall into at most two windows of its
\* own axis, and each of those takes its limit and what was being verified when
\* the limit was reached.
GuessesBounded ==
    \A a \in Accounts : guesses[a][LoginWindow] <= 2 * (MaxAcct + Cardinality(Logins) - 1)
===============================================================================
