------------------------------- MODULE Poller -------------------------------
(***************************************************************************)
(* The poller's goroutines and what they share: Start and Stop, the loop,  *)
(* manual ticks, the failure accounting of setLastError/clearLastError and *)
(* the reconnect goroutine (internal/poller/poller.go), with the HTTP and  *)
(* MCP requests and the shutdown in main that drive them.  What a tick     *)
(* does with the mail is module MailSession; here a tick searches, runs    *)
(* actions and lists the folders, each on the client that it asks for, and *)
(* succeeds or fails.                                                      *)
(*                                                                         *)
(* A step is one access to shared state: an atomic operation, one critical *)
(* section of p.mu or p.imapMu, one channel operation.                     *)
(***************************************************************************)
EXTENDS Naturals, FiniteSets

CONSTANTS
    Loops,       \* loop goroutines that can be alive at once
    Requests,    \* HTTP and MCP requests that can be in progress at once
    Recons,      \* reconnect goroutines that can be alive at once
    Main,        \* the main goroutine
    Clients,     \* identities for IMAP clients
    NoClient,    \* no client held
    FailureCap,  \* the failure counter saturates here
    Flaky,       \* ticks and connects may fail while the server is up
    Inputs       \* what may come from outside: "toggle", "tick", "signal"

Workers == Loops \cup Requests          \* whoever may run a tick
Threads == Workers \cup Recons \cup {Main}

alertFailureThreshold == 3

ASSUME PollerAssumption ==
    /\ Loops \cap (Requests \cup Recons) = {}
    /\ Requests \cap Recons = {}
    /\ Main \notin Loops \cup Requests \cup Recons
    /\ NoClient \notin Clients
    /\ Clients # {}
    /\ FailureCap \in Nat /\ FailureCap >= alertFailureThreshold
    /\ Flaky \in BOOLEAN 
    /\ Inputs \subseteq {"toggle", "tick", "signal"}

VARIABLES
    enabled,       \* the stored setting polling_enabled
    running,       \* p.running
    stopClosed,    \* p.stopCh has been closed
    processing,    \* p.processing
    reconnecting,  \* p.reconnecting
    cf,            \* p.consecutiveFailures
    alerted,       \* p.alertedUnhealthy
    backoff,       \* p.backoff, in seconds
    cur,           \* p.imapClient
    open,          \* clients whose connection has not been closed
    cl,            \* the client runTick or reconnect holds in a local variable
    acts,          \* the client executeActions asked for
    lists,         \* the client a ListFolders runs on
    up,            \* the mail server accepts connections
    dead,          \* clients whose connection the server dropped
    pc             \* where each goroutine is

lifecycle == <<enabled, running, stopClosed>>
health == <<cf, alerted, backoff>>
calls == <<acts, lists>>
conns == <<cur, open, cl, calls>>
server == <<up, dead>>
vars == <<lifecycle, processing, reconnecting, health, conns, server, pc>>

(* Labels name the statement a goroutine is about to execute; "none" is a   *)
(* goroutine that does not exist.                                           *)
TickLabels == {"process", "run", "search", "found", "acts", "trash", "handled", "sync",
               "tickErr", "tickRecon", "endErr", "tickClear", "endOk"}
LoopLabels == TickLabels \cup {"none", "select", "loopErr", "loopRecon"}
StopLabels == {"idle", "stop", "closing", "wait", "panic"}
RequestLabels == TickLabels \cup StopLabels \cup {"enable", "disable", "start", "spawn"}
MainLabels == StopLabels \cup {"closeClient", "exit"}
ReconLabels == {"none", "backoff", "sleep", "connect", "swap", "close", "clear", "release"}
Labels == LoopLabels \cup RequestLabels \cup MainLabels \cup ReconLabels

BackoffValues == {0, 5, 10, 20, 40, 60}

PcOK ==
    /\ pc \in [Threads -> Labels]
    /\ \A l \in Loops : pc[l] \in LoopLabels
    /\ \A q \in Requests : pc[q] \in RequestLabels
    /\ \A r \in Recons : pc[r] \in ReconLabels
    /\ pc[Main] \in MainLabels

TypeOK ==
    /\ enabled \in BOOLEAN /\ running \in BOOLEAN /\ stopClosed \in BOOLEAN
    /\ processing \in BOOLEAN /\ reconnecting \in BOOLEAN
    /\ cf \in 0..FailureCap
    /\ alerted \in BOOLEAN
    /\ backoff \in BackoffValues
    /\ cur \in Clients
    /\ open \in SUBSET Clients
    /\ cl \in [Threads -> Clients \cup {NoClient}]
    /\ acts \in [Workers -> Clients \cup {NoClient}]
    /\ lists \in [Workers -> Clients \cup {NoClient}]
    /\ up \in BOOLEAN
    /\ dead \in SUBSET Clients
    /\ PcOK

-----------------------------------------------------------------------------
(* initialize: the poller exists only once an IMAP client is connected, and *)
(* it is started unless polling_enabled is "false".                         *)
Init ==
    /\ enabled \in BOOLEAN
    /\ running = enabled
    /\ stopClosed = FALSE
    /\ processing = FALSE
    /\ reconnecting = FALSE
    /\ cf = 0 /\ alerted = FALSE /\ backoff = 0
    /\ cur \in Clients
    /\ open = {cur}
    /\ cl = [t \in Threads |-> NoClient]
    /\ acts = [t \in Workers |-> NoClient] /\ lists = [t \in Workers |-> NoClient]
    /\ up = TRUE /\ dead = {}
    /\ \E first \in Loops :
        pc = [t \in Threads |->
                IF t \in Requests \cup {Main} THEN "idle"
                ELSE IF enabled /\ t = first THEN "process" ELSE "none"]

(* Goroutine t moves from label a to label b. *)
Goto(t, a, b) ==
    /\ pc[t] = a
    /\ pc' = [pc EXCEPT ![t] = b]

Hold(t, c) == cl' = [cl EXCEPT ![t] = c]

(* consecutiveFailures++, saturating: the code compares it with 0 and 3 only. *)
Bump(n) == IF n < FailureCap THEN n + 1 ELSE FailureCap

-----------------------------------------------------------------------------
(* Start and Stop, called by the polling toggle and by main. *)

(* settingsTogglePolling reads polling_enabled, stores the opposite and then *)
(* calls Start or Stop; another request may run between any two of these.    *)
ToggleRead(q) ==
    /\ "toggle" \in Inputs
    /\ Goto(q, "idle", IF enabled THEN "disable" ELSE "enable")
    /\ UNCHANGED <<lifecycle, processing, reconnecting, health, conns, server>>

ToggleSet(q) ==
    /\ \/ Goto(q, "enable", "start") /\ enabled' = TRUE
       \/ Goto(q, "disable", "stop") /\ enabled' = FALSE
    /\ UNCHANGED <<running, stopClosed, processing, reconnecting, health, conns, server>>

Start(t) ==
    /\ Goto(t, "start", IF running THEN "idle" ELSE "spawn")
    /\ running' = TRUE
    /\ UNCHANGED <<enabled, stopClosed, processing, reconnecting, health, conns, server>>

(* wg.Add(1); go p.loop().  The guard is the bound on live loops. *)
StartSpawn(t) ==
    /\ pc[t] = "spawn"
    /\ \E l \in Loops :
        /\ pc[l] = "none"
        /\ pc' = [pc EXCEPT ![t] = "idle", ![l] = "process"]
    /\ UNCHANGED <<lifecycle, processing, reconnecting, health, conns, server>>

AfterStop(t) == IF t = Main THEN "closeClient" ELSE "idle"

StopSwap(t) ==
    /\ Goto(t, "stop", IF running THEN "closing" ELSE AfterStop(t))
    /\ running' = FALSE
    /\ UNCHANGED <<enabled, stopClosed, processing, reconnecting, health, conns, server>>

(* A mistake StopEndsLoops rules out: the channel is not closed.            *)
StopCloseOmitted(t) ==
    /\ Goto(t, "closing", "wait")
    /\ UNCHANGED <<lifecycle, processing, reconnecting, health, conns, server>>

(* close(p.stopCh) panics when the channel is already closed. *)
StopClose(t) ==
    /\ Goto(t, "closing", IF stopClosed THEN "panic" ELSE "wait")
    /\ stopClosed' = TRUE
    /\ UNCHANGED <<enabled, running, processing, reconnecting, health, conns, server>>

(* wg.Wait() returned, or 15 seconds passed with a tick in flight. *)
StopWait(t) ==
    /\ Goto(t, "wait", AfterStop(t))
    /\ UNCHANGED <<lifecycle, processing, reconnecting, health, conns, server>>

(* chi's Recoverer answers 500 and the server goes on; in main a panic ends *)
(* the process.                                                             *)
Recoverer(t) ==
    /\ Goto(t, "panic", IF t = Main THEN "exit" ELSE "idle")
    /\ UNCHANGED <<lifecycle, processing, reconnecting, health, conns, server>>

(* A signal: main stops the poller, closes the client and returns. *)
Shutdown ==
    /\ "signal" \in Inputs
    /\ Goto(Main, "idle", "stop")
    /\ UNCHANGED <<lifecycle, processing, reconnecting, health, conns, server>>

CloseClient ==
    /\ Goto(Main, "closeClient", "exit")
    /\ open' = open \ {cur}
    /\ UNCHANGED <<lifecycle, processing, reconnecting, health, cur, cl, calls, server>>

-----------------------------------------------------------------------------
(* A tick: process() in a loop, TryTick() in a request. *)

AfterTick(t) == IF t \in Loops THEN "select" ELSE "idle"

RequestTick(q) ==
    /\ "tick" \in Inputs
    /\ Goto(q, "idle", "process")
    /\ UNCHANGED <<lifecycle, processing, reconnecting, health, conns, server>>

(* A mistake TickExclusion rules out: Store(true) without the comparison.   *)
TryTickUnguarded(t) ==
    /\ Goto(t, "process", "run")
    /\ processing' = TRUE
    /\ UNCHANGED <<lifecycle, reconnecting, health, conns, server>>

(* processing.CompareAndSwap(false, true); a tick in progress ends the call. *)
TryTick(t) ==
    /\ Goto(t, "process", IF processing THEN AfterTick(t) ELSE "run")
    /\ processing' = TRUE
    /\ UNCHANGED <<lifecycle, reconnecting, health, conns, server>>

(* client := p.client(): every search, fetch and \Seen of the tick uses it.  *)
RunTick(t) ==
    /\ Goto(t, "run", "search")
    /\ Hold(t, cur)
    /\ UNCHANGED <<lifecycle, processing, reconnecting, health, cur, open, calls, server>>

Usable(c) == up /\ c \in open \ dead

(* Reading the rules failed, or a search.                                   *)
RunTickFails(t) ==
    /\ Goto(t, "search", "tickErr")
    /\ Flaky \/ ~Usable(cl[t])
    /\ UNCHANGED <<lifecycle, processing, reconnecting, health, conns, server>>

SearchMessages(t) ==
    /\ Goto(t, "search", "found")
    /\ Usable(cl[t])
    /\ UNCHANGED <<lifecycle, processing, reconnecting, health, conns, server>>

(* A rule matched.  executeActions asks for the client again, which a       *)
(* reconnect may have replaced; its failures are only logged.               *)
ExecuteActions(t) ==
    /\ Goto(t, "found", "acts")
    /\ acts' = [acts EXCEPT ![t] = cur]
    /\ UNCHANGED <<lifecycle, processing, reconnecting, health, cur, open, cl, lists, server>>

(* p.client().ListFolders() for a delete, until a Trash is found.           *)
GetTrashFolder(t) ==
    /\ Goto(t, "acts", "trash")
    /\ lists' = [lists EXCEPT ![t] = cur]
    /\ UNCHANGED <<lifecycle, processing, reconnecting, health, cur, open, cl, acts, server>>

TrashFound(t) ==
    /\ Goto(t, "trash", "acts")
    /\ lists' = [lists EXCEPT ![t] = NoClient]
    /\ UNCHANGED <<lifecycle, processing, reconnecting, health, cur, open, cl, acts, server>>

ActionsReturn(t) ==
    /\ Goto(t, "acts", "handled")
    /\ acts' = [acts EXCEPT ![t] = NoClient]
    /\ UNCHANGED <<lifecycle, processing, reconnecting, health, cur, open, cl, lists, server>>

(* The round ends, with actions or without, and the batch is not used up.   *)
NextRound(t) ==
    /\ Goto(t, "found", "search") \/ Goto(t, "handled", "search")
    /\ UNCHANGED <<lifecycle, processing, reconnecting, health, conns, server>>

(* The last round is over: p.client().ListFolders().                        *)
SyncFolders(t) ==
    /\ Goto(t, "found", "sync") \/ Goto(t, "handled", "sync")
    /\ lists' = [lists EXCEPT ![t] = cur]
    /\ UNCHANGED <<lifecycle, processing, reconnecting, health, cur, open, cl, acts, server>>

(* However the listing went: every search of the tick has succeeded.        *)
FoldersSynced(t) ==
    /\ Goto(t, "sync", "tickClear")
    /\ lists' = [lists EXCEPT ![t] = NoClient]
    /\ UNCHANGED <<lifecycle, processing, reconnecting, health, cur, open, cl, acts, server>>

(* processing.Store(false).  A loop whose tick failed reports the same error *)
(* a second time, after the flag is released.                               *)
TickEnds(t) ==
    /\ \/ Goto(t, "endErr", IF t \in Loops THEN "loopErr" ELSE "idle")
       \/ Goto(t, "endOk", AfterTick(t))
    /\ processing' = FALSE
    /\ Hold(t, NoClient)
    /\ UNCHANGED <<lifecycle, reconnecting, health, cur, open, calls, server>>

-----------------------------------------------------------------------------
(* Failure accounting. *)

(* The critical section of setLastError.  Its value of the counter decides, *)
(* after the unlock, whether a reconnect is attempted.                      *)
SetLastError(t) ==
    LET n == Bump(cf)
        again == n > 2
    IN  /\ \/ Goto(t, "tickErr", IF again THEN "tickRecon" ELSE "endErr")
           \/ Goto(t, "loopErr", IF again THEN "loopRecon" ELSE "select")
        /\ cf' = n
        /\ alerted' = (alerted \/ n >= alertFailureThreshold)
        /\ UNCHANGED <<lifecycle, processing, reconnecting, backoff, conns, server>>

(* A mistake SingleReconnect rules out: no compare-and-swap.                *)
SpawnReconnectUnguarded(t) ==
    LET next == IF pc[t] = "tickRecon" THEN "endErr" ELSE "select"
    IN  /\ pc[t] \in {"tickRecon", "loopRecon"}
        /\ IF running
           THEN /\ reconnecting' = TRUE
                /\ \E r \in Recons :
                    /\ pc[r] = "none"
                    /\ pc' = [pc EXCEPT ![t] = next, ![r] = "backoff"]
           ELSE /\ pc' = [pc EXCEPT ![t] = next]
                /\ UNCHANGED reconnecting
        /\ UNCHANGED <<lifecycle, processing, health, conns, server>>

(* running.Load() && reconnecting.CompareAndSwap(false, true), then go. *)
SpawnReconnect(t) ==
    LET next == IF pc[t] = "tickRecon" THEN "endErr" ELSE "select"
    IN  /\ pc[t] \in {"tickRecon", "loopRecon"}
        /\ IF running /\ ~reconnecting
           THEN /\ reconnecting' = TRUE
                /\ \E r \in Recons :
                    /\ pc[r] = "none"
                    /\ pc' = [pc EXCEPT ![t] = next, ![r] = "backoff"]
           ELSE /\ pc' = [pc EXCEPT ![t] = next]
                /\ UNCHANGED reconnecting
        /\ UNCHANGED <<lifecycle, processing, health, conns, server>>

(* A mistake AlertedOnlyWhenFailing rules out: the alert is not re-armed.   *)
ClearLastErrorKeepsAlert(t) ==
    /\ \/ Goto(t, "tickClear", "endOk")
       \/ Goto(t, "clear", "release")
    /\ cf' = 0
    /\ backoff' = 0
    /\ UNCHANGED <<lifecycle, processing, reconnecting, alerted, conns, server>>

ClearLastError(t) ==
    /\ \/ Goto(t, "tickClear", "endOk")
       \/ Goto(t, "clear", "release")
    /\ cf' = 0
    /\ alerted' = FALSE
    /\ backoff' = 0
    /\ UNCHANGED <<lifecycle, processing, reconnecting, conns, server>>

-----------------------------------------------------------------------------
(* The loop's select: the ticker fired, or stopCh is closed.  When both are *)
(* ready Go picks either.                                                   *)
LoopTicker(l) ==
    /\ Goto(l, "select", "process")
    /\ UNCHANGED <<lifecycle, processing, reconnecting, health, conns, server>>

LoopExit(l) ==
    /\ stopClosed
    /\ Goto(l, "select", "none")
    /\ UNCHANGED <<lifecycle, processing, reconnecting, health, conns, server>>

-----------------------------------------------------------------------------
(* The reconnect goroutine. *)

ReconnectBackoff(r) ==
    /\ Goto(r, "backoff", "sleep")
    /\ backoff' = IF backoff = 0 THEN 5 ELSE backoff
    /\ UNCHANGED <<lifecycle, processing, reconnecting, cf, alerted, conns, server>>

(* time.Sleep(delay), then the one look at running. *)
ReconnectWakes(r) ==
    /\ Goto(r, "sleep", IF running THEN "connect" ELSE "release")
    /\ UNCHANGED <<lifecycle, processing, reconnecting, health, conns, server>>

(* A mistake TypeOK rules out: the delay grows without the cap of a minute. *)
ReconnectFailsUncapped(r) ==
    /\ Goto(r, "connect", "release")
    /\ Flaky \/ ~up
    /\ cf' = Bump(cf)
    /\ backoff' = 2 * backoff
    /\ UNCHANGED <<lifecycle, processing, reconnecting, alerted, conns, server>>

ReconnectFails(r) ==
    /\ Goto(r, "connect", "release")
    /\ Flaky \/ ~up
    /\ cf' = Bump(cf)
    /\ backoff' = IF 2 * backoff > 60 THEN 60 ELSE 2 * backoff
    /\ UNCHANGED <<lifecycle, processing, reconnecting, alerted, conns, server>>

Held == {cl[t] : t \in Threads} \cup {acts[t] : t \in Workers} \cup {lists[t] : t \in Workers}

(* A connection with an identity nobody else holds. *)
ReconnectConnects(r) ==
    /\ up
    /\ Goto(r, "connect", "swap")
    /\ \E c \in Clients \ (open \cup {cur} \cup Held) :
        /\ open' = open \cup {c}
        /\ dead' = dead \ {c}
        /\ Hold(r, c)
    /\ UNCHANGED <<lifecycle, processing, reconnecting, health, cur, calls, up>>

(* A mistake NoClientLeak rules out: the old client is forgotten.           *)
ReconnectSwapsForgets(r) ==
    /\ Goto(r, "swap", "clear")
    /\ cur' = cl[r]
    /\ Hold(r, NoClient)
    /\ UNCHANGED <<lifecycle, processing, reconnecting, health, open, calls, server>>

(* A mistake ImplementsContract rules out: the old client is closed first.  *)
ReconnectSwapsClosing(r) ==
    /\ Goto(r, "swap", "close")
    /\ cur' = cl[r]
    /\ Hold(r, cur)
    /\ open' = open \ {cur}
    /\ UNCHANGED <<lifecycle, processing, reconnecting, health, calls, server>>

(* old := p.client(); p.setClient(client) *)
ReconnectSwaps(r) ==
    /\ Goto(r, "swap", "close")
    /\ cur' = cl[r]
    /\ Hold(r, cur)
    /\ UNCHANGED <<lifecycle, processing, reconnecting, health, open, calls, server>>

(* A mistake CurrentClientOpen rules out: closeClient(p.client()).          *)
ReconnectClosesCurrent(r) ==
    /\ Goto(r, "close", "clear")
    /\ open' = open \ {cur}
    /\ Hold(r, NoClient)
    /\ UNCHANGED <<lifecycle, processing, reconnecting, health, cur, calls, server>>

(* closeClient(old): no session lock, a tick may be using old. *)
ReconnectCloses(r) ==
    /\ Goto(r, "close", "clear")
    /\ open' = open \ {cl[r]}
    /\ Hold(r, NoClient)
    /\ UNCHANGED <<lifecycle, processing, reconnecting, health, cur, calls, server>>

(* A mistake PollerInv and PollerHeals rule out: the flag is not released.  *)
ReconnectReturnsHolding(r) ==
    /\ Goto(r, "release", "none")
    /\ UNCHANGED <<lifecycle, processing, reconnecting, health, conns, server>>

ReconnectReturns(r) ==
    /\ Goto(r, "release", "none")
    /\ reconnecting' = FALSE
    /\ UNCHANGED <<lifecycle, processing, health, conns, server>>

-----------------------------------------------------------------------------
(* The mail server, external to the program.  An outage drops every open    *)
(* connection.  When Flaky, commands fail at any time and outages add       *)
(* nothing.                                                                 *)
Outage ==
    /\ ~Flaky
    /\ up
    /\ up' = FALSE
    /\ dead' = open
    /\ UNCHANGED <<lifecycle, processing, reconnecting, health, conns, pc>>

Restore ==
    /\ ~up
    /\ up' = TRUE
    /\ UNCHANGED <<lifecycle, processing, reconnecting, health, conns, dead, pc>>

-----------------------------------------------------------------------------
RoundStep(t) ==
    \/ SearchMessages(t) \/ ExecuteActions(t) \/ GetTrashFolder(t) \/ TrashFound(t)
    \/ ActionsReturn(t) \/ NextRound(t) \/ SyncFolders(t) \/ FoldersSynced(t)

Ticking(t) ==
    \/ TryTick(t) \/ RunTick(t) \/ RunTickFails(t) \/ RoundStep(t)
    \/ TickEnds(t) \/ SetLastError(t) \/ SpawnReconnect(t) \/ ClearLastError(t)

LoopStep(l) == Ticking(l) \/ LoopTicker(l) \/ LoopExit(l)

RequestArrives(q) == ToggleRead(q) \/ RequestTick(q)

Stopping(t) == StopSwap(t) \/ StopClose(t) \/ StopWait(t) \/ Recoverer(t)

RequestStep(q) ==
    Ticking(q) \/ ToggleSet(q) \/ Start(q) \/ StartSpawn(q) \/ Stopping(q)

MainStep == Shutdown \/ Stopping(Main) \/ CloseClient

ReconStep(r) ==
    \/ ReconnectBackoff(r) \/ ReconnectWakes(r) \/ ReconnectFails(r)
    \/ ReconnectConnects(r) \/ ReconnectSwaps(r) \/ ReconnectCloses(r)
    \/ ClearLastError(r) \/ ReconnectReturns(r)

(* The process ends when main returns. *)
Alive == pc[Main] # "exit"

Next ==
    /\ Alive
    /\ \/ \E l \in Loops : LoopStep(l)
       \/ \E q \in Requests : RequestArrives(q) \/ RequestStep(q)
       \/ MainStep
       \/ \E r \in Recons : ReconStep(r)
       \/ Outage
       \/ Restore

Spec == Init /\ [][Next]_vars

(* Goroutines keep running, the server answers or fails every command, and  *)
(* select does not forever prefer the ticker to a closed channel.  A rule   *)
(* has finitely many actions, and the batch bounds the rounds of a tick.    *)
(* Requests finish but need not arrive; outages end only if a property says *)
(* so.                                                                      *)
Fairness ==
    /\ \A l \in Loops : WF_vars(Alive /\ LoopStep(l)) /\ SF_vars(Alive /\ LoopExit(l))
    /\ \A q \in Requests : WF_vars(Alive /\ RequestStep(q))
    /\ \A t \in Workers : SF_vars(Alive /\ ActionsReturn(t)) /\ SF_vars(Alive /\ SyncFolders(t))
    /\ WF_vars(Alive /\ (Stopping(Main) \/ CloseClient))
    /\ \A r \in Recons : WF_vars(Alive /\ ReconStep(r))

FairSpec == Spec /\ Fairness

-----------------------------------------------------------------------------
(* What the poller guarantees. *)

InTick(t) == pc[t] \in TickLabels \ {"process"}

(* At most one goroutine is inside runTick, whichever of the loops and      *)
(* requests called it: the compare-and-swap on processing in process and    *)
(* TryTick admits one at a time.                                            *)
TickExclusion ==
    \A s, t \in Threads : InTick(s) /\ InTick(t) => s = t

(* At most one reconnect goroutine is alive, although setLastError may be   *)
(* called by a tick and by a loop at the same time.                         *)
SingleReconnect ==
    \A r, s \in Recons : pc[r] # "none" /\ pc[s] # "none" => r = s

(* Every connection that is open is the poller's current client or is held  *)
(* by the reconnect goroutine that will install or close it: replaced       *)
(* clients do not leak.                                                     *)
NoClientLeak == open \subseteq {cur} \cup {cl[r] : r \in Recons}

(* Until main closes it at shutdown, the client that ticks pick up is one   *)
(* the program has not closed: reconnect closes the old client, never the   *)
(* one it has just installed.                                               *)
CurrentClientOpen == Alive => cur \in open

(* The unhealthy alert is outstanding only while at least three failures    *)
(* have been counted since the last success; a success clears both.         *)
AlertedOnlyWhenFailing == alerted => cf >= alertFailureThreshold

(* The strengthening of the four invariants above that every step keeps.    *)
(* The flags mirror the goroutines they guard, and a reconnect goroutine    *)
(* holds a client exactly while it has one to install or to close, never    *)
(* the current one.                                                         *)
FlagsMirrorGoroutines ==
    /\ processing <=> \E t \in Threads : InTick(t)
    /\ reconnecting <=> \E r \in Recons : pc[r] # "none"

ReconnectOwnsItsClient ==
    \A r \in Recons :
        /\ pc[r] \in {"swap", "close"} => cl[r] \in Clients \ {cur}
        /\ pc[r] = "swap" => cl[r] \in open
        /\ pc[r] \notin {"swap", "close"} => cl[r] = NoClient

PollerInv ==
    /\ TypeOK
    /\ FlagsMirrorGoroutines /\ TickExclusion /\ SingleReconnect
    /\ ReconnectOwnsItsClient /\ NoClientLeak /\ CurrentClientOpen
    /\ AlertedOnlyWhenFailing

(* What the connections look like from outside: a tick's session, the calls  *)
(* it makes on a client it asked for again, and the reconnect goroutine's    *)
(* client as the spare one.                                                  *)
Contract == INSTANCE ClientContract WITH
    session <- [w \in Workers |-> cl[w]],
    calls <- [w \in Workers |-> {acts[w], lists[w]} \ {NoClient}],
    current <- cur,
    spare <- {cl[r] : r \in Recons} \ {NoClient},
    replaced <- (\E r \in Recons : pc[r] = "close"),
    alive <- Alive

(* All the goroutines together only ever do to the connections what         *)
(* ClientContract allows, however ticks, loops and reconnects interleave:   *)
(* one tick at a time, on the client that was current when it began, and    *)
(* its actions and listings on the one that was current when they began; a  *)
(* client is replaced in one step, only a replaced one is closed, and no    *)
(* more than two are ever open.                                             *)
ImplementsContract == Contract!Spec

(* A loop does not outlive Stop: once running is false every loop goroutine *)
(* ends, unless polling is started again.                                   *)
StopEndsLoops ==
    \A l \in Loops : (~running /\ pc[l] # "none") ~> (pc[l] = "none" \/ running \/ ~Alive)

(* Self-healing: once the server stays up, a poller that is running and has *)
(* never been stopped ends up permanently healthy.  Two failing ticks of the *)
(* loop are enough to start a reconnect, and a failed reconnect is retried. *)
PollerHeals ==
    <>[](up /\ running /\ ~stopClosed /\ Alive) => <>[](cf = 0)

(* docs: /settings/poll/toggle will "Enable or disable automatic polling."  *)
(* While the poller says it is running, some loop is there to poll.         *)
RunningHasLoop ==
    running => \/ \E l \in Loops : pc[l] # "none"
               \/ \E t \in Requests : pc[t] = "spawn"
=============================================================================
