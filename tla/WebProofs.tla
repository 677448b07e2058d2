------------------------------ MODULE WebProofs ------------------------------
(***************************************************************************)
(* Proofs about ActivityLog and Logins, for any number of users, rows,     *)
(* browsers and sessions.                                                  *)
(***************************************************************************)
EXTENDS ActivityLog, Logins, FiniteSetTheorems, TLAPS

(* A row's id tells which event it is about, in the table and on the pages. *)
LogInv ==
    /\ LogTypeOK
    /\ IsFiniteSet(rows)
    /\ events = lastId
    /\ \A r \in rows : r.event = r.id
    /\ \A u \in Users : \A r \in page[u] : r.event = r.id

(* The log is empty at first.                                              *)
LEMMA LogInvInit == LogInit => LogInv
  BY LogAssumption, FS_EmptySet DEF LogInit, LogInv, LogTypeOK

(* A new row has an id larger than any that a row or a page has. *)
LEMMA InsertKeeps ==
  ASSUME LogInv, Insert
  PROVE  LogInv' /\ rows \subseteq rows'
  <1> DEFINE r == [id |-> lastId', event |-> events']
  <1>1. /\ lastId' = lastId + 1 /\ events' = lastId' /\ lastId' \in 1..MaxEntries
        /\ rows' = rows \cup {r} /\ page' = page
    BY LogAssumption DEF LogInv, LogTypeOK, Insert
  <1>2. r \in Row /\ r.event = r.id
    BY <1>1 DEF Row
  <1> HIDE DEF r
  <1>3. IsFiniteSet(rows')
    BY <1>1, FS_AddElement DEF LogInv
  <1>4. LogTypeOK'
    BY <1>1, <1>2 DEF LogInv, LogTypeOK
  <1> QED BY <1>1, <1>2, <1>3, <1>4 DEF LogInv

(* Every step of the log keeps the invariant.                              *)
LEMMA LogInvNext == LogInv /\ [LogNext]_logVars => LogInv'
  <1> SUFFICES ASSUME LogInv, [LogNext]_logVars
               PROVE  LogInv'
    OBVIOUS
  <1>1. CASE UNCHANGED logVars
    BY <1>1 DEF logVars, LogInv, LogTypeOK
  <1>2. CASE Insert
    BY <1>2, InsertKeeps
  <1>3. ASSUME NEW u \in Users, LoadPage(u)
        PROVE  LogInv'
    BY <1>3 DEF LogInv, LogTypeOK, LoadPage
  <1>4. ASSUME rows' \subseteq rows, UNCHANGED <<lastId, events, page>>
        PROVE  LogInv'
    BY <1>4, FS_Subset DEF LogInv, LogTypeOK
  <1>5. ASSUME NEW u \in Users, DeleteSelected(u)
        PROVE  LogInv'
    BY <1>4, <1>5 DEF DeleteSelected
  <1>6. CASE DeleteAll \/ Cleanup
    BY <1>4, <1>6 DEF DeleteAll, Cleanup
  <1> QED BY <1>1, <1>2, <1>3, <1>5, <1>6 DEF LogNext

(* The invariant holds throughout: ids belong to one row each, on pages and *)
(* in the table, and are never given again.                                 *)
THEOREM LogInvariant == LogSpec => []LogInv
  BY LogInvInit, LogInvNext, PTL DEF LogSpec

(* What deletes the ticked rows of a page deletes only rows the page shows. *)
LEMMA DeletesTheTicked ==
  ASSUME LogInv, NEW u \in Users, DeleteSelected(u)
  PROVE  rows \ rows' \subseteq page[u]
  <1> SUFFICES ASSUME NEW r \in rows, r \notin rows'
               PROVE  r \in page[u]
    OBVIOUS
  <1>1. PICK t \in page[u] : t.id = r.id
    BY DEF DeleteSelected
  <1>2. r \in Row /\ t \in Row /\ r.event = r.id /\ t.event = t.id
    BY DEF LogInv, LogTypeOK
  <1>3. r = t
    BY <1>1, <1>2 DEF Row
  <1> QED BY <1>3

(* The cleanup takes a row only if there are enough newer ones.            *)
LEMMA CleanupKeepsNewest ==
  ASSUME LogInv, Cleanup, NEW r \in rows \ rows'
  PROVE  Cardinality(Newer(r)) >= Keep
  <1>1. IsFiniteSet(Newer(r))
    BY FS_Subset DEF LogInv, Newer
  <1>2. Cardinality(Newer(r)) \in Nat
    BY <1>1, FS_CardinalityType
  <1>3. ~(Cardinality(Newer(r)) < Keep)
    BY DEF Cleanup
  <1> QED BY <1>2, <1>3, LogAssumption

(* No clearing, restart or stale page makes the log lose a row that came    *)
(* later: DeleteByIDs deletes what the user has seen, Cleanup what is old.  *)
THEOREM OnlyShownRowsGo == LogSpec => OnlyShownDeleted
  <1> DEFINE Kept ==
        rows' # {} =>
           \A r \in rows \ rows' :
              (\E u \in Users : r \in page[u]) \/ Cardinality(Newer(r)) >= Keep
  <1>1. LogInv /\ [LogNext]_logVars => [Kept]_logVars
    <2> SUFFICES ASSUME LogInv, LogNext
                 PROVE  Kept
      OBVIOUS
    <2>1. CASE Insert
      BY <2>1, InsertKeeps
    <2>2. ASSUME NEW u \in Users, LoadPage(u)
          PROVE  Kept
      BY <2>2 DEF LoadPage
    <2>3. ASSUME NEW u \in Users, DeleteSelected(u)
          PROVE  Kept
      BY <2>3, DeletesTheTicked
    <2>4. CASE DeleteAll
      BY <2>4 DEF DeleteAll
    <2>5. CASE Cleanup
      BY <2>5, CleanupKeepsNewest
    <2> QED BY <2>1, <2>2, <2>3, <2>4, <2>5 DEF LogNext
  <1> QED BY <1>1, LogInvariant, PTL DEF LogSpec, OnlyShownDeleted

-----------------------------------------------------------------------------
(* Logins. *)

(* Every browser's token was given out, and to it alone. *)
LoginsInv ==
    /\ logins \in 0..MaxLogins
    /\ sessions \in [Tokens -> Gone..Lifetime]
    /\ cookie \in [Browsers -> 0..MaxLogins]
    /\ request \in [Browsers -> {"idle", "check", "create", "signout"}]
    /\ \A b \in Browsers : cookie[b] <= logins
    /\ \A b, c \in Browsers : cookie[b] = cookie[c] /\ cookie[b] # 0 => b = c

(* What SessionsLast says of one step. *)
Lasts ==
    \A b \in Browsers :
       LoggedIn(b) /\ ~LoggedIn(b)' =>
          \/ cookie'[b] # cookie[b]
          \/ sessions[cookie[b]] = 1 /\ sessions'[cookie[b]] = 0
          \/ \E c \in Browsers \ {b} : request[c] = "signout"

(* There are no sessions and no tokens at first.                           *)
LEMMA LoginsInvInit == LoginsInit => LoginsInv
  BY LoginsAssumption DEF LoginsInit, LoginsInv, Tokens, Gone

(* Steps that neither create nor end a session. *)
LEMMA StillLogins ==
  ASSUME LoginsInv, UNCHANGED <<sessions, cookie, logins>>,
         request' \in [Browsers -> {"idle", "check", "create", "signout"}]
  PROVE  LoginsInv' /\ Lasts
  BY DEF LoginsInv, Lasts, LoggedIn

(* A new session has a token of its own. *)
LEMMA CreateKeeps ==
  ASSUME LoginsInv, NEW b \in Browsers, CreateSession(b)
  PROVE  LoginsInv' /\ Lasts
  <1>0. request' \in [Browsers -> {"idle", "check", "create", "signout"}]
    BY DEF LoginsInv, CreateSession, Becomes
  <1>1. CASE UNCHANGED <<sessions, cookie, logins>>
    BY <1>0, <1>1, StillLogins
  <1>2. CASE /\ logins < MaxLogins
             /\ logins' = logins + 1
             /\ sessions' = [sessions EXCEPT ![logins'] = Lifetime]
             /\ cookie' = [cookie EXCEPT ![b] = logins']
    <2>1. /\ logins \in Nat /\ MaxLogins \in Nat /\ Lifetime \in Gone..Lifetime
          /\ logins' \in Tokens /\ logins' \in 0..MaxLogins
      BY <1>2, LoginsAssumption DEF LoginsInv, Tokens, Gone
    <2>2. /\ sessions' \in [Tokens -> Gone..Lifetime]
          /\ cookie' \in [Browsers -> 0..MaxLogins]
      BY <1>2, <2>1 DEF LoginsInv
    <2>3. \A c \in Browsers : cookie[c] \in Int /\ cookie[c] <= logins
      BY DEF LoginsInv
    <2>4. \A c \in Browsers : cookie'[c] = IF c = b THEN logins + 1 ELSE cookie[c]
      BY <1>2 DEF LoginsInv
    <2>5. \A c \in Browsers : cookie'[c] <= logins'
      BY <1>2, <2>1, <2>3, <2>4
    <2>6. \A c, d \in Browsers : cookie'[c] = cookie'[d] /\ cookie'[c] # 0 => c = d
      BY <2>1, <2>3, <2>4 DEF LoginsInv
    <2>7. Lasts
      <3> SUFFICES ASSUME NEW c \in Browsers, LoggedIn(c), ~LoggedIn(c)', cookie'[c] = cookie[c]
                   PROVE  FALSE
        BY DEF Lasts
      <3>1. cookie[c] # 0 /\ cookie[c] # logins + 1
        BY <2>1, <2>3 DEF LoggedIn
      <3>2. cookie[c] \in Tokens
        BY <3>1 DEF LoginsInv, Tokens
      <3>3. sessions'[cookie[c]] = sessions[cookie[c]]
        BY <1>2, <3>1, <3>2 DEF LoginsInv
      <3> QED BY <3>3 DEF LoggedIn
    <2> QED BY <1>0, <2>1, <2>2, <2>5, <2>6, <2>7 DEF LoginsInv
  <1> QED BY <1>1, <1>2 DEF CreateSession

(* A logout ends the session of its browser only. *)
LEMMA LogoutKeeps ==
  ASSUME LoginsInv, NEW b \in Browsers, Logout(b)
  PROVE  LoginsInv' /\ Lasts
  <1>1. cookie[b] \in Tokens /\ Gone \in Gone..Lifetime /\ 0 \in 0..MaxLogins
    BY LoginsAssumption DEF LoginsInv, Logout, Tokens, Gone
  <1>2. LoginsInv'
    BY <1>1 DEF LoginsInv, Logout
  <1>3. Lasts
    BY DEF LoginsInv, Logout, Lasts, LoggedIn
  <1> QED BY <1>2, <1>3

(* Only the browsers other than the one that changed the password go. *)
LEMMA SignOutKeeps ==
  ASSUME LoginsInv, NEW b \in Browsers, DeleteAllExcept(b)
  PROVE  LoginsInv' /\ Lasts
  <1>1. Gone \in Gone..Lifetime
    BY LoginsAssumption DEF Gone
  <1>2. LoginsInv'
    BY <1>1 DEF LoginsInv, DeleteAllExcept, Becomes
  <1>3. Lasts
    <2> SUFFICES ASSUME NEW c \in Browsers, LoggedIn(c), ~LoggedIn(c)'
                 PROVE  c # b
      BY DEF Lasts, DeleteAllExcept
    <2>1. cookie[c] \in Tokens
      BY DEF LoginsInv, LoggedIn, Tokens
    <2> QED BY <2>1 DEF DeleteAllExcept, LoggedIn
  <1> QED BY <1>2, <1>3

(* Time ends a session only when its lifetime is over. *)
LEMMA TimeKeeps ==
  ASSUME LoginsInv, CleanupSessions \/ TimeGoesOn
  PROVE  LoginsInv' /\ Lasts
  <1>1. \A t \in Tokens :
           /\ sessions[t] \in Int /\ sessions[t] >= -1 /\ sessions[t] <= Lifetime
           /\ sessions'[t] = IF CleanupSessions
                             THEN IF sessions[t] = 0 THEN Gone ELSE sessions[t]
                             ELSE Less(sessions[t])
    BY LoginsAssumption DEF LoginsInv, CleanupSessions, TimeGoesOn, Gone
  <1>2. \A t \in Tokens : sessions'[t] \in Gone..Lifetime
    BY <1>1, LoginsAssumption DEF Less, Gone
  <1>3. LoginsInv'
    BY <1>2 DEF LoginsInv, CleanupSessions, TimeGoesOn
  <1>4. Lasts
    <2> SUFFICES ASSUME NEW b \in Browsers, LoggedIn(b), ~LoggedIn(b)'
                 PROVE  sessions[cookie[b]] = 1 /\ sessions'[cookie[b]] = 0
      BY DEF Lasts
    <2>1. cookie[b] \in Tokens /\ cookie'[b] = cookie[b]
      BY DEF LoginsInv, LoggedIn, Tokens, CleanupSessions, TimeGoesOn
    <2>2. sessions[cookie[b]] > 0 /\ ~(sessions'[cookie[b]] > 0)
      BY <2>1 DEF LoggedIn
    <2> QED BY <1>1, <2>1, <2>2 DEF Less
  <1> QED BY <1>3, <1>4

(* Every step keeps the invariant and what SessionsLast says. *)
LEMMA LoginsInvNext ==
  LoginsInv /\ [LoginsNext]_loginVars => LoginsInv' /\ [Lasts]_loginVars
  <1> SUFFICES ASSUME LoginsInv, [LoginsNext]_loginVars
               PROVE  LoginsInv' /\ [Lasts]_loginVars
    OBVIOUS
  <1>1. CASE UNCHANGED loginVars
    BY <1>1 DEF loginVars, LoginsInv
  <1>2. ASSUME NEW b \in Browsers,
               SubmitLogin(b) \/ WrongPassword(b) \/ RightPassword(b) \/ ChangePassword(b)
        PROVE  LoginsInv' /\ Lasts
    <2>1. UNCHANGED <<sessions, cookie, logins>>
      BY <1>2 DEF SubmitLogin, WrongPassword, RightPassword, ChangePassword
    <2>2. request' \in [Browsers -> {"idle", "check", "create", "signout"}]
      BY <1>2 DEF LoginsInv, SubmitLogin, WrongPassword, RightPassword, ChangePassword, Becomes
    <2> QED BY <2>1, <2>2, StillLogins
  <1>3. ASSUME NEW b \in Browsers, CreateSession(b) \/ Logout(b) \/ DeleteAllExcept(b)
        PROVE  LoginsInv' /\ Lasts
    BY <1>3, CreateKeeps, LogoutKeeps, SignOutKeeps
  <1>4. CASE CleanupSessions \/ TimeGoesOn
    BY <1>4, TimeKeeps
  <1>5. CASE Sweep \/ RestartServer
    BY <1>5, StillLogins DEF LoginsInv, Sweep, RestartServer
  <1> QED BY <1>1, <1>2, <1>3, <1>4, <1>5 DEF LoginsNext

(* The invariant holds throughout: no two browsers share a token. *)
THEOREM LoginsInvariant == LoginsSpec => []LoginsInv
  <1>1. LoginsInv /\ [LoginsNext]_loginVars => LoginsInv'
    BY LoginsInvNext
  <1> QED BY <1>1, LoginsInvInit, PTL DEF LoginsSpec

(* A session ends by its browser, by its time or by another browser's       *)
(* change of the password, for any number of browsers and sessions.         *)
THEOREM SessionsDoLast == LoginsSpec => SessionsLast
  <1>1. LoginsInv /\ [LoginsNext]_loginVars => [Lasts]_loginVars
    BY LoginsInvNext
  <1>2. [][Lasts]_loginVars => SessionsLast
    <2>1. Lasts <=>
            (\A b \in Browsers :
                LoggedIn(b) /\ ~LoggedIn(b)' =>
                   \/ cookie'[b] # cookie[b]
                   \/ sessions[cookie[b]] = 1 /\ sessions'[cookie[b]] = 0
                   \/ \E c \in Browsers \ {b} : request[c] = "signout")
      BY DEF Lasts
    <2> QED BY <2>1, PTL DEF SessionsLast
  <1> QED BY <1>1, <1>2, LoginsInvariant, PTL DEF LoginsSpec
-----------------------------------------------------------------------------
(* The limiter. *)

(* The failures of an address since its entry began to count.               *)
Counted(a) == {p \in Failures(a) : p[1] <= Window - entries[a].left}

(* An entry counts no more failures than there were since it began.         *)
LimiterInv ==
    /\ password \in Passwords
    /\ typed \in [Browsers -> Passwords]
    /\ entries \in [Addresses -> [count : 0..MaxCount, left : -1..Window]]
    /\ recent \in [Addresses -> [0..Window -> 0..MaxCount]]
    /\ \A a \in Addresses : ~Expired(a) => entries[a].count <= Cardinality(Counted(a))

(* There are finitely many failures to count.                               *)
LEMMA FailuresFinite ==
  ASSUME NEW S, S \subseteq (0..Window) \X (1..MaxCount)
  PROVE  IsFiniteSet(S) /\ Cardinality(S) \in Nat
  <1>1. IsFiniteSet(0..Window) /\ IsFiniteSet(1..MaxCount)
    BY LoginsAssumption, FS_Interval
  <1>2. IsFiniteSet((0..Window) \X (1..MaxCount))
    BY <1>1, FS_Product
  <1>3. S \in SUBSET ((0..Window) \X (1..MaxCount))
    OBVIOUS
  <1>4. IsFiniteSet(S)
    BY <1>2, <1>3, FS_Subset
  <1> QED BY <1>4, FS_CardinalityType

(* What is counted of one address depends on its entry and failures only.   *)
LEMMA LimiterKeeps ==
  ASSUME LimiterInv, UNCHANGED <<password, typed>>,
         entries' \in [Addresses -> [count : 0..MaxCount, left : -1..Window]],
         recent' = recent,
         \A a \in Addresses : entries'[a] = entries[a] \/ entries'[a].left < 0
  PROVE  LimiterInv'
  <1>1. ASSUME NEW a \in Addresses, ~Expired(a)'
        PROVE  entries'[a].count <= Cardinality(Counted(a)')
    <2>1. entries'[a] = entries[a] /\ ~Expired(a)
      BY <1>1 DEF Expired
    <2>2. Counted(a)' = Counted(a)
      BY <2>1 DEF Counted, Failures
    <2> QED BY <2>1, <2>2 DEF LimiterInv
  <1> QED BY <1>1 DEF LimiterInv

(* A failure is one more on both sides.                                     *)
LEMMA FailureCounts ==
  ASSUME LimiterInv, NEW b \in Browsers, WrongPassword(b)
  PROVE  LimiterInv'
  <1> DEFINE a == AddressOf(b)
             n == recent[a][0]
  <1>0. /\ a \in Addresses /\ Window \in Nat /\ MaxCount \in Nat /\ 0 \in 0..Window
        /\ n \in Nat /\ n < MaxCount /\ entries[a].count < MaxCount
        /\ UNCHANGED <<password, typed>>
        /\ entries[a] \in [count : 0..MaxCount, left : -1..Window]
        /\ fail(a) /\ recent' = [recent EXCEPT ![a][0] = n + 1]
    BY LoginsAssumption DEF LimiterInv, WrongPassword
  <1> HIDE DEF a, n
  <1> DEFINE e == IF Expired(a) THEN [count |-> 1, left |-> Window]
                  ELSE [count |-> entries[a].count + 1, left |-> entries[a].left]
             r == [recent[a] EXCEPT ![0] = n + 1]
  <1>1. entries' = [entries EXCEPT ![a] = e]
    BY <1>0 DEF fail
  <1>2. e \in [count : 0..MaxCount, left : -1..Window]
    BY <1>0
  <1>3. recent' = [recent EXCEPT ![a] = r]
    BY <1>0
  <1>4. /\ r \in [0..Window -> 0..MaxCount] /\ r[0] = n + 1
        /\ \A k \in 0..Window : k # 0 => r[k] = recent[a][k]
    BY <1>0 DEF LimiterInv
  <1>5. /\ ~Expired(a) => e.count = entries[a].count + 1 /\ e.left = entries[a].left
        /\ Expired(a) => e.count = 1 /\ e.left = Window
    OBVIOUS
  <1> HIDE DEF e, r
  <1>6. /\ entries'[a] = e /\ recent'[a] = r
        /\ \A c \in Addresses : c # a => entries'[c] = entries[c] /\ recent'[c] = recent[c]
    BY <1>0, <1>1, <1>3 DEF LimiterInv
  <1>7. /\ entries' \in [Addresses -> [count : 0..MaxCount, left : -1..Window]]
        /\ recent' \in [Addresses -> [0..Window -> 0..MaxCount]]
    BY <1>0, <1>1, <1>2, <1>3, <1>4 DEF LimiterInv
  <1> DEFINE x == <<0, n + 1>>
             S == {p \in (0..Window) \X (1..MaxCount) :
                      p[2] <= recent[a][p[1]] /\ p[1] <= Window - entries[a].left}
             T == {p \in (0..Window) \X (1..MaxCount) :
                      p[2] <= r[p[1]] /\ p[1] <= Window - e.left}
  <1>8. Counted(a) = S /\ Counted(a)' = T
    BY <1>6 DEF Counted, Failures
  <1>9. /\ S \subseteq (0..Window) \X (1..MaxCount) /\ T \subseteq (0..Window) \X (1..MaxCount)
    OBVIOUS
  <1>10. x \in T
    <2>1. x \in (0..Window) \X (1..MaxCount) /\ x[1] = 0 /\ x[2] = n + 1
      BY <1>0
    <2>2. 0 <= Window - e.left
      BY <1>0, <1>2
    <2> HIDE DEF x
    <2> QED BY <1>0, <1>4, <2>1, <2>2
  <1>11. ASSUME ~Expired(a)
         PROVE  S \cup {x} \subseteq T /\ x \notin S
    <2>1. x \notin S
      BY <1>0 DEF n
    <2>2. ASSUME NEW p \in S
          PROVE  p \in T
      <3>1. p[1] \in 0..Window /\ p[2] \in 1..MaxCount
        OBVIOUS
      <3>2. recent[a][p[1]] <= r[p[1]]
        <4>1. CASE p[1] = 0
          <5>1. recent[a][p[1]] = n /\ r[p[1]] = n + 1
            BY <1>4, <4>1 DEF n
          <5>2. n \in Nat
            BY <1>0
          <5>3. n <= n + 1
            BY <5>2
          <5> QED BY <5>1, <5>3
        <4>2. CASE p[1] # 0
          <5>1. r[p[1]] = recent[a][p[1]]
            BY <1>4, <3>1, <4>2
          <5>2. recent[a] \in [0..Window -> 0..MaxCount]
            BY <1>0 DEF LimiterInv
          <5>3. recent[a][p[1]] \in Nat
            BY <1>0, <3>1, <5>2
          <5> QED BY <5>1, <5>3
        <4> QED BY <4>1, <4>2
      <3>3. recent[a][p[1]] \in Nat /\ r[p[1]] \in Nat
        BY <1>0, <1>4, <3>1 DEF LimiterInv
      <3> QED BY <1>5, <1>11, <3>1, <3>2, <3>3
    <2> QED BY <1>10, <2>1, <2>2
  <1> HIDE DEF S, T, x
  <1>12. IsFiniteSet(S) /\ Cardinality(S) \in Nat /\ IsFiniteSet(T) /\ Cardinality(T) \in Nat
    BY <1>9, FailuresFinite
  <1>13. e.count <= Cardinality(T)
    <2>1. CASE Expired(a)
      <3>1. Cardinality(T) # 0
        BY <1>10, <1>12, FS_EmptySet
      <3> QED BY <1>5, <1>12, <2>1, <3>1
    <2>2. CASE ~Expired(a)
      <3>1. IsFiniteSet(S \cup {x}) /\ Cardinality(S \cup {x}) = Cardinality(S) + 1
        BY <1>11, <1>12, <2>2, FS_AddElement
      <3>2. Cardinality(S \cup {x}) <= Cardinality(T)
        BY <1>11, <1>12, <2>2, FS_Subset
      <3>3. entries[a].count <= Cardinality(S)
        BY <1>0, <1>8, <2>2 DEF LimiterInv
      <3> QED BY <1>0, <1>5, <1>12, <2>2, <3>1, <3>2, <3>3
    <2> QED BY <2>1, <2>2
  <1>14. ASSUME NEW c \in Addresses, ~Expired(c)'
         PROVE  entries'[c].count <= Cardinality(Counted(c)')
    <2>1. CASE c = a
      BY <1>6, <1>8, <1>13, <2>1
    <2>2. CASE c # a
      <3>1. Counted(c)' = Counted(c) /\ ~Expired(c)
        BY <1>6, <1>14, <2>2 DEF Counted, Failures, Expired
      <3> QED BY <1>6, <2>2, <3>1 DEF LimiterInv
    <2> QED BY <2>1, <2>2
  <1> QED BY <1>0, <1>7, <1>14 DEF LimiterInv

(* As time goes on, an entry and what it counts grow old together.          *)
LEMMA FailuresAge ==
  ASSUME LimiterInv, TimeGoesOn
  PROVE  LimiterInv'
  <1>0. /\ UNCHANGED <<password, typed>> /\ Window \in Nat /\ MaxCount \in Nat
        /\ \A a \in Addresses :
              /\ entries[a] \in [count : 0..MaxCount, left : -1..Window]
              /\ recent[a] \in [0..Window -> 0..MaxCount]
    BY LoginsAssumption DEF TimeGoesOn, LimiterInv
  <1>1. ASSUME NEW a \in Addresses
        PROVE  /\ entries'[a] \in [count : 0..MaxCount, left : -1..Window]
               /\ entries'[a].count = entries[a].count
               /\ entries'[a].left = IF entries[a].left < 0 THEN entries[a].left
                                     ELSE entries[a].left - 1
    BY <1>0 DEF TimeGoesOn
  <1>2. ASSUME NEW a \in Addresses
        PROVE  /\ recent'[a] \in [0..Window -> 0..MaxCount]
               /\ \A n \in 0..Window : n # 0 => recent'[a][n] = recent[a][n - 1]
               /\ recent'[a][0] = 0
    <2>1. recent'[a] = [n \in 0..Window |-> IF n = 0 THEN 0 ELSE recent[a][n - 1]]
      BY DEF TimeGoesOn
    <2>2. \A n \in 0..Window : n # 0 => n - 1 \in 0..Window
      BY <1>0
    <2>3. \A n \in 0..Window : recent[a][n] \in 0..MaxCount
      BY <1>0
    <2>4. 0 \in 0..MaxCount /\ 0 \in 0..Window
      BY <1>0
    <2> QED BY <2>1, <2>2, <2>3, <2>4
  <1>3. /\ entries' \in [Addresses -> [count : 0..MaxCount, left : -1..Window]]
        /\ recent' \in [Addresses -> [0..Window -> 0..MaxCount]]
    BY <1>1, <1>2 DEF TimeGoesOn
  <1>4. ASSUME NEW a \in Addresses, ~Expired(a)'
        PROVE  entries'[a].count <= Cardinality(Counted(a)')
    <2> DEFINE S == Counted(a)
               T == Counted(a)'
               shift == [p \in S |-> <<p[1] + 1, p[2]>>]
    <2>1. ~Expired(a) /\ entries[a].left \in 1..Window /\ entries'[a].left = entries[a].left - 1
      BY <1>0, <1>1, <1>4 DEF Expired
    <2>2. /\ S \subseteq (0..Window) \X (1..MaxCount)
          /\ T \subseteq (0..Window) \X (1..MaxCount)
      BY DEF Counted, Failures
    <2>3. ASSUME NEW p \in S
          PROVE  shift[p] \in T
      <3>1. /\ p \in (0..Window) \X (1..MaxCount)
            /\ p[2] <= recent[a][p[1]] /\ p[1] <= Window - entries[a].left
        BY DEF Counted, Failures
      <3> DEFINE n == p[1] + 1
      <3>2. n \in 0..Window /\ n # 0 /\ n - 1 = p[1] /\ n <= Window - entries'[a].left
        <4>1. \A k \in 0..Window, l \in 1..Window :
                 k <= Window - l =>
                    /\ k + 1 \in 0..Window /\ k + 1 # 0 /\ (k + 1) - 1 = k
                    /\ k + 1 <= Window - (l - 1)
          BY <1>0
        <4>2. p[1] \in 0..Window
          BY <3>1
        <4> QED BY <2>1, <3>1, <4>1, <4>2
      <3>3. recent'[a][n] = recent[a][p[1]]
        BY <1>2, <3>2
      <3>4. shift[p] = <<n, p[2]>>
        OBVIOUS
      <3> HIDE DEF n, shift
      <3>5. <<n, p[2]>> \in (0..Window) \X (1..MaxCount)
        BY <3>1, <3>2
      <3>6. p[2] <= recent'[a][n]
        BY <3>1, <3>3
      <3> QED BY <3>2, <3>4, <3>5, <3>6 DEF Counted, Failures
    <2>4. ASSUME NEW p \in S, NEW q \in S, shift[p] = shift[q]
          PROVE  p = q
      <3>1. p \in (0..Window) \X (1..MaxCount) /\ q \in (0..Window) \X (1..MaxCount)
        BY <2>2
      <3>2. p[1] + 1 = q[1] + 1 /\ p[2] = q[2]
        BY <2>4
      <3>3. p[1] = q[1]
        BY <1>0, <3>1, <3>2
      <3> QED BY <3>1, <3>2, <3>3
    <2> HIDE DEF S, T
    <2>5. shift \in Injection(S, T)
      BY <2>3, <2>4 DEF Injection, IsInjective
    <2> HIDE DEF shift
    <2>6. IsFiniteSet(T) /\ Cardinality(T) \in Nat /\ Cardinality(S) \in Nat
      BY <2>2, FailuresFinite
    <2>7. Cardinality(S) <= Cardinality(T)
      BY <2>5, <2>6, FS_Injection
    <2>8. entries[a].count <= Cardinality(S)
      BY <2>1 DEF S, LimiterInv
    <2> QED BY <1>0, <1>1, <2>6, <2>7, <2>8 DEF T
  <1> QED BY <1>0, <1>3, <1>4 DEF LimiterInv

(* Nobody has failed before the first request.                              *)
LEMMA LimiterInit == LoginsInit => LimiterInv
  BY LoginsAssumption DEF LoginsInit, LimiterInv, NoEntry, Expired

(* Every step keeps the limiter's invariant.                                *)
LEMMA LimiterNext == LimiterInv /\ [LoginsNext]_loginVars => LimiterInv'
  <1> SUFFICES ASSUME LimiterInv, [LoginsNext]_loginVars
               PROVE  LimiterInv'
    OBVIOUS
  <1>0. /\ entries \in [Addresses -> [count : 0..MaxCount, left : -1..Window]]
        /\ password \in Passwords /\ typed \in [Browsers -> Passwords]
    BY DEF LimiterInv
  <1>1. ASSUME UNCHANGED <<entries, recent>>, password' \in Passwords,
               typed' \in [Browsers -> Passwords]
        PROVE  LimiterInv'
    <2>1. \A a \in Addresses : Expired(a)' = Expired(a) /\ Counted(a)' = Counted(a)
      BY <1>1 DEF Expired, Counted, Failures
    <2> QED BY <1>1, <2>1 DEF LimiterInv
  <1>2. CASE UNCHANGED loginVars
    BY <1>0, <1>1, <1>2 DEF loginVars
  <1>3. ASSUME NEW b \in Browsers, SubmitLogin(b)
        PROVE  LimiterInv'
    BY <1>0, <1>1, <1>3 DEF SubmitLogin
  <1>4. ASSUME NEW b \in Browsers,
               RightPassword(b) \/ CreateSession(b) \/ Logout(b) \/ ChangePassword(b)
                  \/ DeleteAllExcept(b)
        PROVE  LimiterInv'
    BY <1>0, <1>1, <1>4 DEF RightPassword, CreateSession, Logout, ChangePassword, DeleteAllExcept
  <1>5. ASSUME NEW b \in Browsers, WrongPassword(b)
        PROVE  LimiterInv'
    BY <1>5, FailureCounts
  <1>6. CASE CleanupSessions
    BY <1>0, <1>1, <1>6 DEF CleanupSessions
  <1>7. CASE Sweep \/ RestartServer
    <2>1. NoEntry \in [count : 0..MaxCount, left : -1..Window] /\ NoEntry.left < 0
      BY LoginsAssumption DEF NoEntry
    <2>2. /\ entries' = [a \in Addresses |-> entries'[a]]
          /\ \A a \in Addresses : entries'[a] = entries[a] \/ entries'[a] = NoEntry
          /\ UNCHANGED <<password, typed, recent>>
      BY <1>7 DEF Sweep, RestartServer
    <2>3. entries' \in [Addresses -> [count : 0..MaxCount, left : -1..Window]]
      BY <1>0, <2>1, <2>2
    <2> QED BY <2>1, <2>2, <2>3, LimiterKeeps
  <1>8. CASE TimeGoesOn
    BY <1>8, FailuresAge
  <1> QED BY <1>2, <1>3, <1>4, <1>5, <1>6, <1>7, <1>8 DEF LoginsNext

(* The limiter blocks an address only for failures of the last minute:      *)
(* entries that have expired, swept or not, add nothing, for any number of  *)
(* addresses and failures.                                                  *)
THEOREM LockoutsAreEarned == LoginsSpec => []LockoutIsEarned
  <1>1. LimiterInv => LockoutIsEarned
    <2> SUFFICES ASSUME LimiterInv, NEW a \in Addresses, blocked(a)
                 PROVE  Cardinality(Failures(a)) >= MaxFailures
      BY DEF LockoutIsEarned
    <2>1. /\ Failures(a) \subseteq (0..Window) \X (1..MaxCount)
          /\ Counted(a) \subseteq (0..Window) \X (1..MaxCount)
          /\ Counted(a) \in SUBSET Failures(a)
      BY DEF Failures, Counted
    <2>2. IsFiniteSet(Failures(a)) /\ Cardinality(Failures(a)) \in Nat
          /\ Cardinality(Counted(a)) \in Nat
      BY <2>1, FailuresFinite
    <2>3. Cardinality(Counted(a)) <= Cardinality(Failures(a))
      BY <2>1, <2>2, FS_Subset
    <2>4. entries[a].count <= Cardinality(Counted(a)) /\ entries[a].count >= MaxFailures
          /\ entries[a].count \in Nat
      BY LoginsAssumption DEF blocked, LimiterInv
    <2> QED BY <2>2, <2>3, <2>4, LoginsAssumption
  <1> QED BY <1>1, LimiterInit, LimiterNext, PTL DEF LoginsSpec

(* The sessions' and the limiter's invariants give the types of all.        *)
THEOREM LoginsTypes == LoginsSpec => []LoginsTypeOK
  <1>1. LoginsInv /\ LimiterInv => LoginsTypeOK
    BY DEF LoginsInv, LimiterInv, LoginsTypeOK
  <1> QED BY <1>1, LoginsInvariant, LimiterInit, LimiterNext, PTL DEF LoginsSpec
=============================================================================
