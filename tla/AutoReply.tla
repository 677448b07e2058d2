------------------------------ MODULE AutoReply ------------------------------
(***************************************************************************)
(* The auto_reply action of executeActions (internal/poller/poller.go) and *)
(* its throttle, the table auto_reply_log (internal/db/autoreply.go): who  *)
(* answered is looked up, the reply is sent, and only then it is recorded. *)
(* A tick and apply jobs do this; the lock of the mail session keeps them  *)
(* apart until a reconnect gives one of them another session.              *)
(***************************************************************************)
EXTENDS Integers

CONSTANTS
    Workers,    \* goroutines that execute actions: the tick, apply jobs
    Senders,    \* addresses mail comes from
    Account,    \* the account's own address, among them
    LastDay,    \* bound: the days counted
    LastClient, \* bound: connections to the mail server, numbered
    MaxReplies, \* bound: replies to one address on one day
    Retention   \* the days Prune keeps: 7

ASSUME ReplyAssumption ==
    /\ Account \in Senders
    /\ LastDay \in Nat /\ LastClient \in Nat \ {0}
    /\ MaxReplies \in Nat
    /\ Retention \in Nat \ {0}

VARIABLES
    today,       \* the date, which SQLite and Go read each time
    connection,  \* the current connection
    at,          \* where each worker is: idle, lookup, send, record
    holds,       \* the connection each worker has locked, 0: none
    from,        \* whom its message is from
    sentOn,      \* the day its reply went out
    log,         \* auto_reply_log: pairs of an address and a day
    replies,     \* replies that went out to an address on a day
    slipped      \* something OneReplyPerDay excepts has happened

replyVars == <<today, connection, at, holds, from, sentOn, log, replies, slipped>>

Days == 0..LastDay

(* The types of the variables. *)
ReplyTypeOK ==
    /\ today \in Days
    /\ connection \in 1..LastClient
    /\ at \in [Workers -> {"idle", "lookup", "send", "record"}]
    /\ holds \in [Workers -> 0..LastClient]
    /\ from \in [Workers -> Senders]
    /\ sentOn \in [Workers -> Days]
    /\ log \subseteq Senders \X Days
    /\ replies \in [Senders -> [Days -> Nat]]
    /\ slipped \in BOOLEAN

ReplyInit ==
    /\ today = 0
    /\ connection = 1
    /\ at = [w \in Workers |-> "idle"]
    /\ holds = [w \in Workers |-> 0]
    /\ from = [w \in Workers |-> Account]
    /\ sentOn = [w \in Workers |-> 0]
    /\ log = {}
    /\ replies = [s \in Senders |-> [d \in Days |-> 0]]
    /\ slipped = FALSE

-----------------------------------------------------------------------------
(* The action. *)

(* A mistake OneReplyPerDay rules out: the session is not locked.           *)
ReachAutoReplyUnlocked(w, s) ==
    /\ at[w] = "idle"
    /\ s # Account
    /\ at' = [at EXCEPT ![w] = "lookup"]
    /\ holds' = [holds EXCEPT ![w] = connection]
    /\ from' = [from EXCEPT ![w] = s]
    /\ slipped' = (slipped \/ \E v \in Workers : holds[v] \notin {0, connection})
    /\ UNCHANGED <<today, connection, sentOn, log, replies>>

(* A worker gets to the action for a message from s, with the session it    *)
(* locked.  The account's own address gets no reply.  It slips past a       *)
(* worker that still holds the session of an earlier connection.            *)
ReachAutoReply(w, s) ==
    /\ at[w] = "idle"
    /\ \A v \in Workers : holds[v] # connection
    /\ s # Account
    /\ at' = [at EXCEPT ![w] = "lookup"]
    /\ holds' = [holds EXCEPT ![w] = connection]
    /\ from' = [from EXCEPT ![w] = s]
    /\ slipped' = (slipped \/ \E v \in Workers : holds[v] \notin {0, connection})
    /\ UNCHANGED <<today, connection, sentOn, log, replies>>

Leave(w) ==
    /\ at' = [at EXCEPT ![w] = "idle"]
    /\ holds' = [holds EXCEPT ![w] = 0]

(* An error of the lookup counts as no reply yet. *)
HasReplied(w) ==
    /\ at[w] = "lookup"
    /\ \/ /\ <<from[w], today>> \in log
          /\ Leave(w)
          /\ UNCHANGED slipped
       \/ /\ <<from[w], today>> \notin log
          /\ at' = [at EXCEPT ![w] = "send"]
          /\ UNCHANGED <<holds, slipped>>
       \/ /\ at' = [at EXCEPT ![w] = "send"]
          /\ slipped' = TRUE
          /\ UNCHANGED holds
    /\ UNCHANGED <<today, connection, from, sentOn, log, replies>>

SendReply(w) ==
    /\ at[w] = "send"
    /\ replies[from[w]][today] < MaxReplies
    /\ at' = [at EXCEPT ![w] = "record"]
    /\ sentOn' = [sentOn EXCEPT ![w] = today]
    /\ replies' = [replies EXCEPT ![from[w]][today] = replies[from[w]][today] + 1]
    /\ UNCHANGED <<today, connection, holds, from, log, slipped>>

(* A mistake SlotsAreEarned rules out: a failed reply consumes the slot.    *)
SendFailsConsumes(w) ==
    /\ at[w] = "send"
    /\ Leave(w)
    /\ log' = log \cup {<<from[w], today>>}
    /\ UNCHANGED <<today, connection, from, sentOn, replies, slipped>>

(* A reply that cannot be sent is logged as an error; the slot stays free.  *)
SendFails(w) ==
    /\ at[w] = "send"
    /\ Leave(w)
    /\ UNCHANGED <<today, connection, from, sentOn, log, replies, slipped>>

(* The server accepts the mail, and then the conversation with it fails:    *)
(* smtp.Send returns an error for a reply that went out, and nothing is     *)
(* recorded.                                                                *)
SendErrsLate(w) ==
    /\ at[w] = "send"
    /\ replies[from[w]][today] < MaxReplies
    /\ replies' = [replies EXCEPT ![from[w]][today] = replies[from[w]][today] + 1]
    /\ slipped' = TRUE
    /\ Leave(w)
    /\ UNCHANGED <<today, connection, from, sentOn, log>>

(* INSERT OR IGNORE for today; its error is ignored. *)
RecordReply(w) ==
    /\ at[w] = "record"
    /\ Leave(w)
    /\ \/ log' = log \cup {<<from[w], today>>} /\ UNCHANGED slipped
       \/ slipped' = TRUE /\ UNCHANGED log
    /\ UNCHANGED <<today, connection, from, sentOn, replies>>

-----------------------------------------------------------------------------
(* Around it. *)

(* Hourly, together with the metrics. *)
Prune ==
    /\ log' = {e \in log : e[2] >= today - Retention}
    /\ UNCHANGED <<today, connection, at, holds, from, sentOn, replies, slipped>>

(* A reply is recorded within a day of going out. *)
Midnight ==
    /\ today < LastDay
    /\ \A w \in Workers : at[w] = "record" => sentOn[w] = today
    /\ today' = today + 1
    /\ UNCHANGED <<connection, at, holds, from, sentOn, log, replies, slipped>>

(* The poller replaces its connection; who works on the old one goes on.    *)
ReconnectSession ==
    /\ connection < LastClient
    /\ connection' = connection + 1
    /\ UNCHANGED <<today, at, holds, from, sentOn, log, replies, slipped>>

(* The process dies and starts again with the table it had. *)
CrashReplies ==
    /\ \E w \in Workers : at[w] # "idle"
    /\ connection' = 1
    /\ at' = [w \in Workers |-> "idle"]
    /\ holds' = [w \in Workers |-> 0]
    /\ slipped' = (slipped \/ \E w \in Workers : at[w] = "record")
    /\ UNCHANGED <<today, from, sentOn, log, replies>>

ReplyNext ==
    \/ \E w \in Workers :
          \/ \E s \in Senders : ReachAutoReply(w, s)
          \/ HasReplied(w)
          \/ SendReply(w)
          \/ SendFails(w)
          \/ SendErrsLate(w)
          \/ RecordReply(w)
    \/ Prune
    \/ Midnight
    \/ ReconnectSession
    \/ CrashReplies

ReplySpec == ReplyInit /\ [][ReplyNext]_replyVars

-----------------------------------------------------------------------------
(* Properties. *)

(* Each sender gets at most one reply a day: lookup, sending and recording  *)
(* are three steps, but the session's lock keeps workers apart and nothing  *)
(* else touches the day's entries.  Four things can spoil it, and nothing   *)
(* else: workers on the sessions of two connections, a crash between        *)
(* sending and recording, an error of the table's lookup or insert, and a   *)
(* send that errs after the server accepted the mail.                       *)
OneReplyPerDay ==
    ~slipped => \A s \in Senders, d \in Days : replies[s][d] <= 1

(* A slot of the throttle is consumed only after a reply went out, that day *)
(* or just before midnight, whatever fails, crashes or runs at once.        *)
SlotsAreEarned ==
    \A e \in log : \E d \in {e[2], e[2] - 1} \cap Days : replies[e[1]][d] > 0
=============================================================================
