------------------------------- MODULE Logins -------------------------------
(***************************************************************************)
(* Logging in (internal/web/auth.go), the sessions kept in the database    *)
(* (internal/db/sessions.go), changing the password                        *)
(* (internal/web/settings.go) and the limiter that counts failed logins of *)
(* an address (internal/web/web.go).  Times are counted down in one unit.  *)
(***************************************************************************)
EXTENDS Integers, FiniteSets

CONSTANTS
    Browsers,
    Addresses,
    AddressOf(_),  \* the address a browser's requests come from
    Passwords,
    Lifetime,      \* how long a session lasts: sessionTTL, 24 hours
    MaxFailures,   \* failed logins after which an address must wait: 5
    Window,        \* how long they count: a minute
    MaxLogins,     \* bound: sessions ever created
    MaxCount       \* bound: failures counted

ASSUME LoginsAssumption ==
    /\ \A b \in Browsers : AddressOf(b) \in Addresses
    /\ Lifetime \in Nat \ {0} /\ Window \in Nat \ {0}
    /\ MaxFailures \in Nat \ {0}
    /\ MaxLogins \in Nat /\ MaxCount \in Nat

VARIABLES
    password,  \* whose hash is admin_password_hash
    sessions,  \* the time left of each token's row, Gone without one
    cookie,    \* the token each browser has, 0: none
    request,   \* where each browser's request is
    typed,     \* the password it carries
    entries,   \* the limiter: failures counted, and time until the reset
    recent,    \* failures of each address, by their age
    logins     \* sessions ever created

loginVars == <<password, sessions, cookie, request, typed, entries, recent, logins>>

Gone == -1
Tokens == 1..MaxLogins
NoEntry == [count |-> 0, left |-> -1]

(* The types of the variables. *)
LoginsTypeOK ==
    /\ password \in Passwords
    /\ sessions \in [Tokens -> Gone..Lifetime]
    /\ cookie \in [Browsers -> 0..MaxLogins]
    /\ request \in [Browsers -> {"idle", "check", "create", "signout"}]
    /\ typed \in [Browsers -> Passwords]
    /\ entries \in [Addresses -> [count : 0..MaxCount, left : -1..Window]]
    /\ recent \in [Addresses -> [0..Window -> 0..MaxCount]]
    /\ logins \in 0..MaxLogins

LoginsInit ==
    /\ password \in Passwords
    /\ sessions = [t \in Tokens |-> Gone]
    /\ cookie = [b \in Browsers |-> 0]
    /\ request = [b \in Browsers |-> "idle"]
    /\ typed = [b \in Browsers |-> password]
    /\ entries = [a \in Addresses |-> NoEntry]
    /\ recent = [a \in Addresses |-> [n \in 0..Window |-> 0]]
    /\ logins = 0

LoggedIn(b) == cookie[b] # 0 /\ sessions[cookie[b]] > 0

-----------------------------------------------------------------------------
(* The limiter.  An entry past its reset counts for nothing, swept or not.  *)

Expired(a) == entries[a].left < 0

blocked(a) == ~Expired(a) /\ entries[a].count >= MaxFailures

(* A mistake LockoutIsEarned rules out: an entry that has expired, and that *)
(* the sweep has not removed yet, is counted on.                            *)
failOn(a) ==
    entries' = [entries EXCEPT ![a] = [count |-> entries[a].count + 1,
                                       left |-> IF Expired(a) THEN Window ELSE entries[a].left]]

fail(a) ==
    entries' = [entries EXCEPT ![a] =
                   IF Expired(a) THEN [count |-> 1, left |-> Window]
                   ELSE [count |-> entries[a].count + 1, left |-> entries[a].left]]

Sweep ==
    /\ entries' = [a \in Addresses |-> IF Expired(a) THEN NoEntry ELSE entries[a]]
    /\ UNCHANGED <<password, sessions, cookie, request, typed, recent, logins>>

-----------------------------------------------------------------------------
(* Requests. *)

Becomes(b, place) == request' = [request EXCEPT ![b] = place]

SubmitLogin(b) ==
    /\ request[b] = "idle"
    /\ ~blocked(AddressOf(b))
    /\ \E p \in Passwords : typed' = [typed EXCEPT ![b] = p]
    /\ Becomes(b, "check")
    /\ UNCHANGED <<password, sessions, cookie, entries, recent, logins>>

WrongPassword(b) ==
    LET a == AddressOf(b)
    IN  /\ request[b] = "check"
        /\ typed[b] # password
        /\ recent[a][0] < MaxCount /\ entries[a].count < MaxCount
        /\ fail(a)
        /\ recent' = [recent EXCEPT ![a][0] = recent[a][0] + 1]
        /\ Becomes(b, "idle")
        /\ UNCHANGED <<password, sessions, cookie, typed, logins>>

RightPassword(b) ==
    /\ request[b] = "check"
    /\ typed[b] = password
    /\ Becomes(b, "create")
    /\ UNCHANGED <<password, sessions, cookie, typed, entries, recent, logins>>

(* The browser gets its cookie with the answer; an error of the database    *)
(* leaves it the one it had.                                                *)
CreateSession(b) ==
    /\ request[b] = "create"
    /\ \/ /\ logins < MaxLogins
          /\ logins' = logins + 1
          /\ sessions' = [sessions EXCEPT ![logins'] = Lifetime]
          /\ cookie' = [cookie EXCEPT ![b] = logins']
       \/ UNCHANGED <<sessions, cookie, logins>>
    /\ Becomes(b, "idle")
    /\ UNCHANGED <<password, typed, entries, recent>>

Logout(b) ==
    /\ request[b] = "idle"
    /\ cookie[b] # 0
    /\ sessions' = [sessions EXCEPT ![cookie[b]] = Gone]
    /\ cookie' = [cookie EXCEPT ![b] = 0]
    /\ UNCHANGED <<password, request, typed, entries, recent, logins>>

ChangePassword(b) ==
    /\ request[b] = "idle"
    /\ LoggedIn(b)
    /\ password' \in Passwords
    /\ Becomes(b, "signout")
    /\ UNCHANGED <<sessions, cookie, typed, entries, recent, logins>>

(* A mistake SessionsLast rules out: the browser that changed the password  *)
(* is signed out itself.                                                    *)
DeleteAllSessions(b) ==
    /\ request[b] = "signout"
    /\ sessions' = [t \in Tokens |-> Gone]
    /\ Becomes(b, "idle")
    /\ UNCHANGED <<password, cookie, typed, entries, recent, logins>>

(* Every other browser has to log in again; an error is ignored. *)
DeleteAllExcept(b) ==
    /\ request[b] = "signout"
    /\ \/ sessions' = [t \in Tokens |-> IF t = cookie[b] THEN sessions[t] ELSE Gone]
       \/ UNCHANGED sessions
    /\ Becomes(b, "idle")
    /\ UNCHANGED <<password, cookie, typed, entries, recent, logins>>

-----------------------------------------------------------------------------
(* Around them. *)

(* Hourly: rows that have expired. *)
CleanupSessions ==
    /\ sessions' = [t \in Tokens |-> IF sessions[t] = 0 THEN Gone ELSE sessions[t]]
    /\ UNCHANGED <<password, cookie, request, typed, entries, recent, logins>>

Less(n) == IF n <= 0 THEN n ELSE n - 1

TimeGoesOn ==
    /\ sessions' = [t \in Tokens |-> Less(sessions[t])]
    /\ entries' = [a \in Addresses |->
                      [entries[a] EXCEPT !.left = IF @ < 0 THEN @ ELSE @ - 1]]
    /\ recent' = [a \in Addresses |->
                     [n \in 0..Window |-> IF n = 0 THEN 0 ELSE recent[a][n - 1]]]
    /\ UNCHANGED <<password, cookie, request, typed, logins>>

(* Sessions are in the database, the limiter is not. *)
RestartServer ==
    /\ request' = [b \in Browsers |-> "idle"]
    /\ entries' = [a \in Addresses |-> NoEntry]
    /\ UNCHANGED <<password, sessions, cookie, typed, recent, logins>>

LoginsNext ==
    \/ \E b \in Browsers :
          \/ SubmitLogin(b) \/ WrongPassword(b) \/ RightPassword(b) \/ CreateSession(b)
          \/ Logout(b)
          \/ ChangePassword(b) \/ DeleteAllExcept(b)
    \/ CleanupSessions
    \/ Sweep
    \/ TimeGoesOn
    \/ RestartServer

LoginsSpec == LoginsInit /\ [][LoginsNext]_loginVars

-----------------------------------------------------------------------------
(* Properties. *)

(* Who has logged in stays so until the session's time is over, unless the  *)
(* browser logs out or in again or another one changes the password: not    *)
(* the cleanup, a restart or anybody else's logout ends a session.          *)
SessionsLast ==
    [][\A b \in Browsers :
          LoggedIn(b) /\ ~LoggedIn(b)' =>
             \/ cookie'[b] # cookie[b]
             \/ sessions[cookie[b]] = 1 /\ sessions'[cookie[b]] = 0
             \/ \E c \in Browsers \ {b} : request[c] = "signout"]_loginVars

(* The failures of an address within the last window, told apart by their   *)
(* age and a number.                                                        *)
Failures(a) ==
    {p \in (0..Window) \X (1..MaxCount) : p[2] <= recent[a][p[1]]}

(* An address is blocked only for as many failures within the last window:  *)
(* older ones do not count, whether the sweep came in time or not.          *)
LockoutIsEarned ==
    \A a \in Addresses :
       blocked(a) => Cardinality(Failures(a)) >= MaxFailures
=============================================================================
