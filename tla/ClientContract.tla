--------------------------- MODULE ClientContract ---------------------------
(***************************************************************************)
(* What the poller promises about its connections to the mail server, with *)
(* no word about goroutines, flags and failure counts: one tick at a time  *)
(* works on the connection that was current when it began, while calls it  *)
(* makes may each take the one that is current by then; a second           *)
(* connection may be opened beside it, take its place in one step, and     *)
(* only then is the old one closed.  Poller implements this module         *)
(* (Poller!ImplementsContract).  Apply jobs, tests and seedings are no     *)
(* workers here: which connection they use is in MailSession.              *)
(***************************************************************************)
CONSTANTS
    Workers,   \* whoever may run a tick
    Clients,   \* identities for connections
    NoClient   \* no connection in use

VARIABLES
    session,   \* the connection each worker's tick began on
    calls,     \* the connections its actions and listings run on
    current,   \* the connection the next tick or call will use
    spare,     \* at most one more: not yet current, or not any more
    replaced,  \* the spare is the one that was current before
    open,      \* connections that have not been closed
    alive      \* the process runs

using == <<session, calls>>
vars == <<using, current, spare, replaced, open, alive>>

Init ==
    /\ session = [w \in Workers |-> NoClient]
    /\ calls = [w \in Workers |-> {}]
    /\ current \in Clients
    /\ spare = {} /\ replaced = FALSE
    /\ open = {current}
    /\ alive = TRUE

BeginTick(w) ==
    /\ \A v \in Workers : session[v] = NoClient
    /\ session' = [session EXCEPT ![w] = current]
    /\ UNCHANGED <<calls, current, spare, replaced, open, alive>>

(* The tick asks for the connection again, which need not be its session.   *)
Call(w) ==
    /\ session[w] # NoClient
    /\ calls' = [calls EXCEPT ![w] = @ \cup {current}]
    /\ UNCHANGED <<session, current, spare, replaced, open, alive>>

Return(w) ==
    /\ \E c \in calls[w] : calls' = [calls EXCEPT ![w] = @ \ {c}]
    /\ UNCHANGED <<session, current, spare, replaced, open, alive>>

EndTick(w) ==
    /\ session[w] # NoClient
    /\ calls[w] = {}
    /\ session' = [session EXCEPT ![w] = NoClient]
    /\ UNCHANGED <<calls, current, spare, replaced, open, alive>>

(* A connection that is neither open nor known to anybody. *)
Connect(c) ==
    /\ spare = {}
    /\ c \notin open \cup {current}
    /\ \A w \in Workers : c # session[w] /\ c \notin calls[w]
    /\ spare' = {c}
    /\ open' = open \cup {c}
    /\ UNCHANGED <<using, current, replaced, alive>>

Replace ==
    /\ ~replaced
    /\ spare # {}
    /\ current' \in spare
    /\ spare' = {current}
    /\ replaced' = TRUE
    /\ UNCHANGED <<using, open, alive>>

(* Only a connection that was replaced is closed; the tick and the calls    *)
(* that run on it, if there are any, go on without it.                      *)
Close ==
    /\ replaced
    /\ open' = open \ spare
    /\ spare' = {}
    /\ replaced' = FALSE
    /\ UNCHANGED <<using, current, alive>>

Exit ==
    /\ alive' = FALSE
    /\ open' \in {open, open \ {current}}
    /\ UNCHANGED <<using, current, spare, replaced>>

Next ==
    /\ alive
    /\ \/ \E w \in Workers : BeginTick(w) \/ Call(w) \/ Return(w) \/ EndTick(w)
       \/ \E c \in Clients : Connect(c)
       \/ Replace
       \/ Close
       \/ Exit

Spec == Init /\ [][Next]_vars
=============================================================================
