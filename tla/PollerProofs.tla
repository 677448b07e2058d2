---------------------------- MODULE PollerProofs ----------------------------
(* Proofs about Poller, for every number of goroutines and clients. *)
EXTENDS Poller, TLAPS

USE DEF alertFailureThreshold

(* Bump stays in range and never leaves a counter below a threshold it has  *)
(* reached.                                                                 *)
LEMMA BumpFact ==
    ASSUME NEW n \in 0..FailureCap
    PROVE  /\ Bump(n) \in 0..FailureCap
           /\ Bump(n) >= n
BY PollerAssumption DEF Bump

(* Doubling the delay, capped at a minute, stays in the schedule.           *)
LEMMA BackoffFact ==
    ASSUME NEW b \in BackoffValues
    PROVE  (IF 2 * b > 60 THEN 60 ELSE 2 * b) \in BackoffValues
BY DEF BackoffValues

(* Every variable keeps its type and every goroutine stays at the labels of *)
(* its own code.                                                            *)
LEMMA TypeInit == Init => TypeOK
<1> SUFFICES ASSUME Init PROVE TypeOK
    OBVIOUS
<1>1. PICK first \in Loops :
        pc = [t \in Threads |->
                IF t \in Requests \cup {Main} THEN "idle"
                ELSE IF enabled /\ t = first THEN "process" ELSE "none"]
    BY DEF Init
<1>2. PcOK
    BY <1>1, PollerAssumption
    DEF PcOK, Workers, Threads, LoopLabels, RequestLabels, MainLabels, ReconLabels, StopLabels,
        TickLabels, Labels
<1>3. /\ enabled \in BOOLEAN /\ running \in BOOLEAN /\ stopClosed \in BOOLEAN
      /\ processing \in BOOLEAN /\ reconnecting \in BOOLEAN
      /\ alerted \in BOOLEAN /\ up \in BOOLEAN
    BY DEF Init
<1>4. cf \in 0..FailureCap /\ backoff \in BackoffValues
    BY PollerAssumption DEF Init, BackoffValues
<1>5. /\ cur \in Clients /\ open \in SUBSET Clients /\ dead \in SUBSET Clients
      /\ cl \in [Threads -> Clients \cup {NoClient}]
      /\ acts \in [Workers -> Clients \cup {NoClient}]
      /\ lists \in [Workers -> Clients \cup {NoClient}]
    BY DEF Init
<1> QED
    BY <1>2, <1>3, <1>4, <1>5 DEF TypeOK

(* Every step of every goroutine keeps the types: in particular the delay   *)
(* stays in the schedule and the swap installs a client.                    *)
LEMMA TypeNext == TypeOK /\ ReconnectOwnsItsClient /\ [Next]_vars => TypeOK'
<1> SUFFICES ASSUME TypeOK, ReconnectOwnsItsClient, [Next]_vars PROVE TypeOK'
    OBVIOUS
<1> USE DEF Goto, Hold, Workers, Threads, lifecycle, health, conns, calls, server, AfterTick, AfterStop,
        LoopLabels, RequestLabels, MainLabels, ReconLabels, StopLabels, TickLabels, Labels
<1>1. CASE UNCHANGED vars
    BY <1>1 DEF vars, TypeOK, PcOK
<1>2. ASSUME NEW t \in Loops \cup Requests, TryTick(t) PROVE TypeOK'
    BY <1>2, PollerAssumption DEF TypeOK, PcOK, TryTick
<1>3. ASSUME NEW t \in Loops \cup Requests, RunTick(t) PROVE TypeOK'
    BY <1>3, PollerAssumption DEF TypeOK, PcOK, RunTick
<1>4. ASSUME NEW t \in Loops \cup Requests, RunTickFails(t) PROVE TypeOK'
    BY <1>4, PollerAssumption DEF TypeOK, PcOK, RunTickFails
<1>5. ASSUME NEW t \in Loops \cup Requests, RoundStep(t) PROVE TypeOK'
    <2>1. ASSUME SearchMessages(t) PROVE TypeOK'
        BY <2>1, PollerAssumption DEF TypeOK, PcOK, SearchMessages
    <2>2. ASSUME ExecuteActions(t) PROVE TypeOK'
        BY <2>2, PollerAssumption DEF TypeOK, PcOK, ExecuteActions
    <2>3. ASSUME GetTrashFolder(t) PROVE TypeOK'
        BY <2>3, PollerAssumption DEF TypeOK, PcOK, GetTrashFolder
    <2>4. ASSUME TrashFound(t) PROVE TypeOK'
        BY <2>4, PollerAssumption DEF TypeOK, PcOK, TrashFound
    <2>5. ASSUME ActionsReturn(t) PROVE TypeOK'
        BY <2>5, PollerAssumption DEF TypeOK, PcOK, ActionsReturn
    <2>6. ASSUME NextRound(t) PROVE TypeOK'
        BY <2>6, PollerAssumption DEF TypeOK, PcOK, NextRound
    <2>7. ASSUME SyncFolders(t) PROVE TypeOK'
        BY <2>7, PollerAssumption DEF TypeOK, PcOK, SyncFolders
    <2>8. ASSUME FoldersSynced(t) PROVE TypeOK'
        BY <2>8, PollerAssumption DEF TypeOK, PcOK, FoldersSynced
    <2> QED
        BY <1>5, <2>1, <2>2, <2>3, <2>4, <2>5, <2>6, <2>7, <2>8 DEF RoundStep
<1>6. ASSUME NEW t \in Loops \cup Requests, TickEnds(t) PROVE TypeOK'
    <2>1. PcOK'
        BY <1>6, PollerAssumption DEF TypeOK, PcOK, TickEnds
    <2>2. cl' \in [Threads -> Clients \cup {NoClient}] /\ processing' \in BOOLEAN
        BY <1>6 DEF TypeOK, TickEnds
    <2> QED
        BY <1>6, <2>1, <2>2 DEF TypeOK, TickEnds
<1>7. ASSUME NEW t \in Loops \cup Requests, SetLastError(t) PROVE TypeOK'
    BY <1>7, PollerAssumption, BumpFact DEF TypeOK, PcOK, SetLastError
<1>8. ASSUME NEW t \in Loops \cup Requests, SpawnReconnect(t) PROVE TypeOK'
    <2>1. PcOK'
        BY <1>8, PollerAssumption DEF TypeOK, PcOK, SpawnReconnect
    <2>2. reconnecting' \in BOOLEAN
        BY <1>8 DEF TypeOK, SpawnReconnect
    <2> QED
        BY <1>8, <2>1, <2>2 DEF TypeOK, SpawnReconnect
<1>9. ASSUME NEW t \in Loops \cup Requests \cup Recons, ClearLastError(t) PROVE TypeOK'
    <2>1. PcOK'
        <3>1. CASE t \in Recons
            BY <1>9, <3>1, PollerAssumption DEF TypeOK, PcOK, ClearLastError
        <3>2. CASE t \in Loops
            BY <1>9, <3>2, PollerAssumption DEF TypeOK, PcOK, ClearLastError
        <3>3. CASE t \in Requests
            BY <1>9, <3>3, PollerAssumption DEF TypeOK, PcOK, ClearLastError
        <3> QED BY <3>1, <3>2, <3>3
    <2>2. cf' = 0 /\ backoff' = 0 /\ alerted' = FALSE
        BY <1>9 DEF ClearLastError
    <2>3. 0 \in 0..FailureCap /\ 0 \in BackoffValues
        BY PollerAssumption DEF BackoffValues
    <2> QED
        BY <1>9, <2>1, <2>2, <2>3 DEF TypeOK, ClearLastError
<1>10. ASSUME NEW l \in Loops, LoopTicker(l) PROVE TypeOK'
    BY <1>10, PollerAssumption DEF TypeOK, PcOK, LoopTicker
<1>11. ASSUME NEW l \in Loops, LoopExit(l) PROVE TypeOK'
    BY <1>11, PollerAssumption DEF TypeOK, PcOK, LoopExit
<1>12. ASSUME NEW q \in Requests, ToggleRead(q) PROVE TypeOK'
    BY <1>12, PollerAssumption DEF TypeOK, PcOK, ToggleRead
<1>13. ASSUME NEW q \in Requests, RequestTick(q) PROVE TypeOK'
    BY <1>13, PollerAssumption DEF TypeOK, PcOK, RequestTick
<1>14. ASSUME NEW q \in Requests, ToggleSet(q) PROVE TypeOK'
    <2>1. PcOK'
        BY <1>14, PollerAssumption DEF TypeOK, PcOK, ToggleSet
    <2>2. enabled' \in BOOLEAN
        BY <1>14 DEF ToggleSet
    <2>3. UNCHANGED <<running, stopClosed, processing, reconnecting>>
        BY <1>14 DEF ToggleSet
    <2>4. UNCHANGED <<cf, alerted, backoff, cur, open, cl, acts, lists, up, dead>>
        BY <1>14 DEF ToggleSet
    <2> QED
        BY <2>1, <2>2, <2>3, <2>4 DEF TypeOK
<1>15. ASSUME NEW q \in Requests, Start(q) PROVE TypeOK'
    BY <1>15, PollerAssumption DEF TypeOK, PcOK, Start
<1>16. ASSUME NEW q \in Requests, StartSpawn(q) PROVE TypeOK'
    BY <1>16, PollerAssumption DEF TypeOK, PcOK, StartSpawn
<1>17. ASSUME NEW t \in Requests \cup {Main}, StopSwap(t) PROVE TypeOK'
    <2>1. PcOK'
        <3>1. CASE t = Main
            BY <1>17, <3>1, PollerAssumption DEF TypeOK, PcOK, StopSwap
        <3>2. CASE t \in Requests
            BY <1>17, <3>2, PollerAssumption DEF TypeOK, PcOK, StopSwap
        <3> QED BY <3>1, <3>2
    <2>2. running' \in BOOLEAN
        BY <1>17 DEF StopSwap
    <2>3. UNCHANGED <<enabled, stopClosed, processing, reconnecting>>
        BY <1>17 DEF StopSwap
    <2>4. UNCHANGED <<cf, alerted, backoff, cur, open, cl, acts, lists, up, dead>>
        BY <1>17 DEF StopSwap
    <2> QED
        BY <2>1, <2>2, <2>3, <2>4 DEF TypeOK
<1>18. ASSUME NEW t \in Requests \cup {Main}, StopClose(t) PROVE TypeOK'
    BY <1>18, PollerAssumption DEF TypeOK, PcOK, StopClose
<1>19. ASSUME NEW t \in Requests \cup {Main}, StopWait(t) PROVE TypeOK'
    BY <1>19, PollerAssumption DEF TypeOK, PcOK, StopWait
<1>20. ASSUME NEW t \in Requests \cup {Main}, Recoverer(t) PROVE TypeOK'
    BY <1>20, PollerAssumption DEF TypeOK, PcOK, Recoverer
<1>21. ASSUME Shutdown PROVE TypeOK'
    BY <1>21, PollerAssumption DEF TypeOK, PcOK, Shutdown
<1>22. ASSUME CloseClient PROVE TypeOK'
    BY <1>22, PollerAssumption DEF TypeOK, PcOK, CloseClient
<1>23. ASSUME NEW r \in Recons, ReconnectBackoff(r) PROVE TypeOK'
    BY <1>23, PollerAssumption DEF TypeOK, PcOK, ReconnectBackoff, BackoffValues
<1>24. ASSUME NEW r \in Recons, ReconnectWakes(r) PROVE TypeOK'
    BY <1>24, PollerAssumption DEF TypeOK, PcOK, ReconnectWakes
<1>25. ASSUME NEW r \in Recons, ReconnectFails(r) PROVE TypeOK'
    BY <1>25, PollerAssumption, BumpFact, BackoffFact DEF TypeOK, PcOK, ReconnectFails
<1>26. ASSUME NEW r \in Recons, ReconnectConnects(r) PROVE TypeOK'
    BY <1>26, PollerAssumption DEF TypeOK, PcOK, ReconnectConnects
<1>27. ASSUME NEW r \in Recons, ReconnectSwaps(r) PROVE TypeOK'
    BY <1>27, PollerAssumption DEF TypeOK, PcOK, ReconnectSwaps, ReconnectOwnsItsClient
<1>28. ASSUME NEW r \in Recons, ReconnectCloses(r) PROVE TypeOK'
    BY <1>28, PollerAssumption DEF TypeOK, PcOK, ReconnectCloses
<1>29. ASSUME NEW r \in Recons, ReconnectReturns(r) PROVE TypeOK'
    BY <1>29, PollerAssumption DEF TypeOK, PcOK, ReconnectReturns
<1>30. ASSUME Outage PROVE TypeOK'
    <2>1. PcOK' /\ up' \in BOOLEAN /\ dead' \in SUBSET Clients
        BY <1>30 DEF TypeOK, PcOK, Outage
    <2>2. UNCHANGED <<enabled, running, stopClosed, processing, reconnecting>>
        BY <1>30 DEF Outage
    <2>3. UNCHANGED <<cf, alerted, backoff, cur, open, cl, acts, lists>>
        BY <1>30 DEF Outage
    <2> QED
        BY <2>1, <2>2, <2>3 DEF TypeOK
<1>31. ASSUME Restore PROVE TypeOK'
    BY <1>31, PollerAssumption DEF TypeOK, PcOK, Restore
<1> HIDE DEF Goto, Hold, Workers, Threads, lifecycle, health, conns, calls, server, AfterTick, AfterStop,
        LoopLabels, RequestLabels, MainLabels, ReconLabels, StopLabels, TickLabels, Labels
<1>32. ASSUME NEW t \in Loops \cup Requests, Ticking(t) PROVE TypeOK'
    BY <1>2, <1>3, <1>4, <1>5, <1>6, <1>7, <1>8, <1>9, <1>32 DEF Ticking
<1>33. ASSUME NEW t \in Requests \cup {Main}, Stopping(t) PROVE TypeOK'
    BY <1>17, <1>18, <1>19, <1>20, <1>33 DEF Stopping
<1>34. ASSUME NEW l \in Loops, LoopStep(l) PROVE TypeOK'
    BY <1>10, <1>11, <1>32, <1>34 DEF LoopStep
<1>35. ASSUME NEW q \in Requests, RequestArrives(q) \/ RequestStep(q) PROVE TypeOK'
    BY <1>12, <1>13, <1>14, <1>15, <1>16, <1>32, <1>33, <1>35
    DEF RequestArrives, RequestStep
<1>36. ASSUME MainStep PROVE TypeOK'
    BY <1>21, <1>22, <1>33, <1>36 DEF MainStep
<1>37. ASSUME NEW r \in Recons, ReconStep(r) PROVE TypeOK'
    BY <1>9, <1>23, <1>24, <1>25, <1>26, <1>27, <1>28, <1>29, <1>37 DEF ReconStep
<1> QED
    BY <1>1, <1>30, <1>31, <1>34, <1>35, <1>36, <1>37 DEF Next

(* The two flags and the goroutines they guard. *)
TickPart ==
    /\ processing <=> \E t \in Threads : InTick(t)
    /\ TickExclusion

ReconPart ==
    /\ reconnecting <=> \E r \in Recons : pc[r] # "none"
    /\ SingleReconnect

(* A step that moves no goroutine into or out of runTick keeps TickPart.    *)
LEMMA TickFrame ==
    ASSUME TickPart, processing' = processing,
           \A t \in Threads : InTick(t)' <=> InTick(t)
    PROVE  TickPart'
BY DEF TickPart, TickExclusion

(* The compare-and-swap of TryTick keeps processing and the goroutines      *)
(* inside runTick in step.                                                  *)
LEMMA TickNext == TypeOK /\ TickPart /\ [Next]_vars => TickPart'
<1> SUFFICES ASSUME TypeOK, TickPart, [Next]_vars PROVE TickPart'
    OBVIOUS
<1> USE DEF TypeOK, PcOK, Goto, Workers, Threads, AfterTick, AfterStop, InTick,
        LoopLabels, RequestLabels, MainLabels, ReconLabels, StopLabels, TickLabels, Labels
<1> USE PollerAssumption
<1>1. CASE UNCHANGED vars
    BY <1>1, TickFrame DEF vars
<1>2. ASSUME NEW t \in Loops \cup Requests, TryTick(t) PROVE TickPart'
    <2>1. CASE processing
        BY <1>2, <2>1, TickFrame DEF TryTick
    <2>2. CASE ~processing
        BY <1>2, <2>2 DEF TryTick, TickPart, TickExclusion
    <2> QED BY <2>1, <2>2
<1>3. ASSUME NEW t \in Loops \cup Requests, TickEnds(t) PROVE TickPart'
    BY <1>3 DEF TickEnds, TickPart, TickExclusion
<1>4. ASSUME NEW t \in Loops \cup Requests, RunTick(t) PROVE TickPart'
    BY <1>4, TickFrame DEF RunTick
<1>5. ASSUME NEW t \in Loops \cup Requests, RunTickFails(t) PROVE TickPart'
    BY <1>5, TickFrame DEF RunTickFails
<1>6. ASSUME NEW t \in Loops \cup Requests, RoundStep(t) PROVE TickPart'
    <2>1. ASSUME SearchMessages(t) \/ ExecuteActions(t) \/ GetTrashFolder(t) \/ TrashFound(t)
          PROVE  TickPart'
        BY <2>1, TickFrame DEF SearchMessages, ExecuteActions, GetTrashFolder, TrashFound
    <2>2. ASSUME ActionsReturn(t) \/ NextRound(t) \/ SyncFolders(t) \/ FoldersSynced(t)
          PROVE  TickPart'
        BY <2>2, TickFrame DEF ActionsReturn, NextRound, SyncFolders, FoldersSynced
    <2> QED
        BY <1>6, <2>1, <2>2 DEF RoundStep
<1>7. ASSUME NEW t \in Loops \cup Requests, SetLastError(t) PROVE TickPart'
    BY <1>7, TickFrame DEF SetLastError
<1>8. ASSUME NEW t \in Loops \cup Requests, SpawnReconnect(t) PROVE TickPart'
    BY <1>8, TickFrame DEF SpawnReconnect
<1>9. ASSUME NEW t \in Loops \cup Requests \cup Recons, ClearLastError(t) PROVE TickPart'
    BY <1>9, TickFrame DEF ClearLastError
<1>10. ASSUME NEW l \in Loops, LoopTicker(l) PROVE TickPart'
    BY <1>10, TickFrame DEF LoopTicker
<1>11. ASSUME NEW l \in Loops, LoopExit(l) PROVE TickPart'
    BY <1>11, TickFrame DEF LoopExit
<1>12. ASSUME NEW q \in Requests, ToggleRead(q) PROVE TickPart'
    BY <1>12, TickFrame DEF ToggleRead
<1>13. ASSUME NEW q \in Requests, RequestTick(q) PROVE TickPart'
    BY <1>13, TickFrame DEF RequestTick
<1>14. ASSUME NEW q \in Requests, ToggleSet(q) PROVE TickPart'
    BY <1>14, TickFrame DEF ToggleSet
<1>15. ASSUME NEW q \in Requests, Start(q) PROVE TickPart'
    BY <1>15, TickFrame DEF Start
<1>16. ASSUME NEW q \in Requests, StartSpawn(q) PROVE TickPart'
    BY <1>16, TickFrame DEF StartSpawn
<1>17. ASSUME NEW t \in Requests \cup {Main}, StopSwap(t) PROVE TickPart'
    BY <1>17, TickFrame DEF StopSwap
<1>18. ASSUME NEW t \in Requests \cup {Main}, StopClose(t) PROVE TickPart'
    BY <1>18, TickFrame DEF StopClose
<1>19. ASSUME NEW t \in Requests \cup {Main}, StopWait(t) PROVE TickPart'
    BY <1>19, TickFrame DEF StopWait
<1>20. ASSUME NEW t \in Requests \cup {Main}, Recoverer(t) PROVE TickPart'
    BY <1>20, TickFrame DEF Recoverer
<1>21. ASSUME Shutdown PROVE TickPart'
    BY <1>21, TickFrame DEF Shutdown
<1>22. ASSUME CloseClient PROVE TickPart'
    BY <1>22, TickFrame DEF CloseClient
<1>23. ASSUME NEW r \in Recons, ReconnectBackoff(r) PROVE TickPart'
    BY <1>23, TickFrame DEF ReconnectBackoff
<1>24. ASSUME NEW r \in Recons, ReconnectWakes(r) PROVE TickPart'
    BY <1>24, TickFrame DEF ReconnectWakes
<1>25. ASSUME NEW r \in Recons, ReconnectFails(r) PROVE TickPart'
    BY <1>25, TickFrame DEF ReconnectFails
<1>26. ASSUME NEW r \in Recons, ReconnectConnects(r) PROVE TickPart'
    BY <1>26, TickFrame DEF ReconnectConnects
<1>27. ASSUME NEW r \in Recons, ReconnectSwaps(r) PROVE TickPart'
    BY <1>27, TickFrame DEF ReconnectSwaps
<1>28. ASSUME NEW r \in Recons, ReconnectCloses(r) PROVE TickPart'
    BY <1>28, TickFrame DEF ReconnectCloses
<1>29. ASSUME NEW r \in Recons, ReconnectReturns(r) PROVE TickPart'
    BY <1>29, TickFrame DEF ReconnectReturns
<1>30. ASSUME Outage PROVE TickPart'
    BY <1>30, TickFrame DEF Outage
<1>31. ASSUME Restore PROVE TickPart'
    BY <1>31, TickFrame DEF Restore
<1> QED
    BY <1>1, <1>2, <1>3, <1>4, <1>5, <1>6, <1>7, <1>8, <1>9, <1>10, <1>11, <1>12, <1>13, <1>14, <1>15, <1>16, <1>17, <1>18, <1>19, <1>20, <1>21, <1>22, <1>23, <1>24, <1>25, <1>26, <1>27, <1>28, <1>29, <1>30, <1>31
    DEF Next, LoopStep, Ticking, RequestArrives, RequestStep, Stopping, MainStep, ReconStep

(* A step that moves no reconnect goroutine keeps ReconPart.                *)
LEMMA ReconFrame ==
    ASSUME ReconPart, reconnecting' = reconnecting,
           \A r \in Recons : (pc[r] = "none")' <=> pc[r] = "none"
    PROVE  ReconPart'
BY DEF ReconPart, SingleReconnect

(* The compare-and-swap in setLastError keeps reconnecting and the          *)
(* reconnect goroutine in step.                                             *)
LEMMA ReconNext == TypeOK /\ ReconPart /\ [Next]_vars => ReconPart'
<1> SUFFICES ASSUME TypeOK, ReconPart, [Next]_vars PROVE ReconPart'
    OBVIOUS
<1> USE DEF TypeOK, PcOK, Goto, Workers, Threads, AfterTick, AfterStop,
        LoopLabels, RequestLabels, MainLabels, ReconLabels, StopLabels, TickLabels, Labels
<1> USE PollerAssumption
<1>1. CASE UNCHANGED vars
    BY <1>1, ReconFrame DEF vars
<1>2. ASSUME NEW t \in Loops \cup Requests, SpawnReconnect(t) PROVE ReconPart'
    <2>1. CASE running /\ ~reconnecting
        BY <1>2, <2>1 DEF SpawnReconnect, ReconPart, SingleReconnect
    <2>2. CASE ~(running /\ ~reconnecting)
        BY <1>2, <2>2, ReconFrame DEF SpawnReconnect
    <2> QED BY <2>1, <2>2
<1>3. ASSUME NEW r \in Recons, ReconnectReturns(r) PROVE ReconPart'
    BY <1>3 DEF ReconnectReturns, ReconPart, SingleReconnect
<1>4. ASSUME NEW t \in Loops \cup Requests, TryTick(t) PROVE ReconPart'
    BY <1>4, ReconFrame DEF TryTick
<1>5. ASSUME NEW t \in Loops \cup Requests, RunTick(t) PROVE ReconPart'
    BY <1>5, ReconFrame DEF RunTick
<1>6. ASSUME NEW t \in Loops \cup Requests, RunTickFails(t) PROVE ReconPart'
    BY <1>6, ReconFrame DEF RunTickFails
<1>7. ASSUME NEW t \in Loops \cup Requests, RoundStep(t) PROVE ReconPart'
    <2>1. ASSUME SearchMessages(t) \/ ExecuteActions(t) \/ GetTrashFolder(t) \/ TrashFound(t)
          PROVE  ReconPart'
        BY <2>1, ReconFrame DEF SearchMessages, ExecuteActions, GetTrashFolder, TrashFound
    <2>2. ASSUME ActionsReturn(t) \/ NextRound(t) \/ SyncFolders(t) \/ FoldersSynced(t)
          PROVE  ReconPart'
        BY <2>2, ReconFrame DEF ActionsReturn, NextRound, SyncFolders, FoldersSynced
    <2> QED
        BY <1>7, <2>1, <2>2 DEF RoundStep
<1>8. ASSUME NEW t \in Loops \cup Requests, TickEnds(t) PROVE ReconPart'
    BY <1>8, ReconFrame DEF TickEnds
<1>9. ASSUME NEW t \in Loops \cup Requests, SetLastError(t) PROVE ReconPart'
    BY <1>9, ReconFrame DEF SetLastError
<1>10. ASSUME NEW t \in Loops \cup Requests \cup Recons, ClearLastError(t) PROVE ReconPart'
    BY <1>10, ReconFrame DEF ClearLastError
<1>11. ASSUME NEW l \in Loops, LoopTicker(l) PROVE ReconPart'
    BY <1>11, ReconFrame DEF LoopTicker
<1>12. ASSUME NEW l \in Loops, LoopExit(l) PROVE ReconPart'
    BY <1>12, ReconFrame DEF LoopExit
<1>13. ASSUME NEW q \in Requests, ToggleRead(q) PROVE ReconPart'
    BY <1>13, ReconFrame DEF ToggleRead
<1>14. ASSUME NEW q \in Requests, RequestTick(q) PROVE ReconPart'
    BY <1>14, ReconFrame DEF RequestTick
<1>15. ASSUME NEW q \in Requests, ToggleSet(q) PROVE ReconPart'
    BY <1>15, ReconFrame DEF ToggleSet
<1>16. ASSUME NEW q \in Requests, Start(q) PROVE ReconPart'
    BY <1>16, ReconFrame DEF Start
<1>17. ASSUME NEW q \in Requests, StartSpawn(q) PROVE ReconPart'
    BY <1>17, ReconFrame DEF StartSpawn
<1>18. ASSUME NEW t \in Requests \cup {Main}, StopSwap(t) PROVE ReconPart'
    BY <1>18, ReconFrame DEF StopSwap
<1>19. ASSUME NEW t \in Requests \cup {Main}, StopClose(t) PROVE ReconPart'
    BY <1>19, ReconFrame DEF StopClose
<1>20. ASSUME NEW t \in Requests \cup {Main}, StopWait(t) PROVE ReconPart'
    BY <1>20, ReconFrame DEF StopWait
<1>21. ASSUME NEW t \in Requests \cup {Main}, Recoverer(t) PROVE ReconPart'
    BY <1>21, ReconFrame DEF Recoverer
<1>22. ASSUME Shutdown PROVE ReconPart'
    BY <1>22, ReconFrame DEF Shutdown
<1>23. ASSUME CloseClient PROVE ReconPart'
    BY <1>23, ReconFrame DEF CloseClient
<1>24. ASSUME NEW r \in Recons, ReconnectBackoff(r) PROVE ReconPart'
    BY <1>24, ReconFrame DEF ReconnectBackoff
<1>25. ASSUME NEW r \in Recons, ReconnectWakes(r) PROVE ReconPart'
    BY <1>25, ReconFrame DEF ReconnectWakes
<1>26. ASSUME NEW r \in Recons, ReconnectFails(r) PROVE ReconPart'
    BY <1>26, ReconFrame DEF ReconnectFails
<1>27. ASSUME NEW r \in Recons, ReconnectConnects(r) PROVE ReconPart'
    BY <1>27, ReconFrame DEF ReconnectConnects
<1>28. ASSUME NEW r \in Recons, ReconnectSwaps(r) PROVE ReconPart'
    BY <1>28, ReconFrame DEF ReconnectSwaps
<1>29. ASSUME NEW r \in Recons, ReconnectCloses(r) PROVE ReconPart'
    BY <1>29, ReconFrame DEF ReconnectCloses
<1>30. ASSUME Outage PROVE ReconPart'
    BY <1>30, ReconFrame DEF Outage
<1>31. ASSUME Restore PROVE ReconPart'
    BY <1>31, ReconFrame DEF Restore
<1> QED
    BY <1>1, <1>2, <1>3, <1>4, <1>5, <1>6, <1>7, <1>8, <1>9, <1>10, <1>11, <1>12, <1>13, <1>14, <1>15, <1>16, <1>17, <1>18, <1>19, <1>20, <1>21, <1>22, <1>23, <1>24, <1>25, <1>26, <1>27, <1>28, <1>29, <1>30, <1>31
    DEF Next, LoopStep, Ticking, RequestArrives, RequestStep, Stopping, MainStep, ReconStep

(* The clients: what the reconnect goroutine holds, what is open.           *)
ClientPart ==
    /\ ReconnectOwnsItsClient
    /\ NoClientLeak
    /\ CurrentClientOpen

(* A step that touches no client and leaves the labels around the swap      *)
(* alone keeps ClientPart.                                                  *)
LEMMA ClientFrame ==
    ASSUME ClientPart, cur' = cur, open' = open,
           \A r \in Recons : cl'[r] = cl[r],
           \A r \in Recons : /\ (pc[r] = "swap")' <=> pc[r] = "swap"
                             /\ (pc[r] = "close")' <=> pc[r] = "close",
           Alive' => Alive
    PROVE  ClientPart'
<1>1. ReconnectOwnsItsClient'
    BY DEF ClientPart, ReconnectOwnsItsClient
<1>2. NoClientLeak'
    BY DEF ClientPart, NoClientLeak
<1>3. CurrentClientOpen'
    BY DEF ClientPart, CurrentClientOpen
<1> QED
    BY <1>1, <1>2, <1>3 DEF ClientPart

(* Connecting, swapping and closing keep every open connection owned, and   *)
(* the current client open until main closes it.                            *)
LEMMA ClientNext == TypeOK /\ ReconPart /\ ClientPart /\ [Next]_vars => ClientPart'
<1> SUFFICES ASSUME TypeOK, ReconPart, ClientPart, [Next]_vars PROVE ClientPart'
    OBVIOUS
<1> USE DEF TypeOK, PcOK, Goto, Hold, Workers, Threads, AfterTick, AfterStop, Alive, conns, calls,
        LoopLabels, RequestLabels, MainLabels, ReconLabels, StopLabels, TickLabels, Labels
<1> USE PollerAssumption
<1>1. CASE UNCHANGED vars
    BY <1>1, ClientFrame DEF vars
<1>2. ASSUME CloseClient PROVE ClientPart'
    <2>1. ReconnectOwnsItsClient'
        BY <1>2 DEF CloseClient, ClientPart, ReconnectOwnsItsClient
    <2>2. NoClientLeak'
        BY <1>2 DEF CloseClient, ClientPart, NoClientLeak
    <2>3. CurrentClientOpen'
        BY <1>2 DEF CloseClient, CurrentClientOpen
    <2> QED BY <2>1, <2>2, <2>3 DEF ClientPart
<1>3. ASSUME NEW r \in Recons, ReconnectConnects(r) PROVE ClientPart'
    <2>1. \A s \in Recons \ {r} : pc[s] = "none" /\ cl[s] = NoClient
        BY <1>3 DEF ReconnectConnects, ReconPart, SingleReconnect, ClientPart, ReconnectOwnsItsClient
    <2>2. ReconnectOwnsItsClient'
        BY <1>3, <2>1 DEF ReconnectConnects, ClientPart, ReconnectOwnsItsClient
    <2>3. NoClientLeak'
        BY <1>3, <2>1 DEF ReconnectConnects, ClientPart, NoClientLeak, ReconnectOwnsItsClient
    <2>4. CurrentClientOpen'
        BY <1>3, <2>1 DEF ReconnectConnects, ClientPart, CurrentClientOpen, ReconnectOwnsItsClient
    <2> QED BY <2>2, <2>3, <2>4 DEF ClientPart
<1>4. ASSUME NEW r \in Recons, ReconnectSwaps(r) PROVE ClientPart'
    <2>1. \A s \in Recons \ {r} : pc[s] = "none" /\ cl[s] = NoClient
        BY <1>4 DEF ReconnectSwaps, ReconPart, SingleReconnect, ClientPart, ReconnectOwnsItsClient
    <2>2. ReconnectOwnsItsClient'
        BY <1>4, <2>1 DEF ReconnectSwaps, ClientPart, ReconnectOwnsItsClient
    <2>3. NoClientLeak'
        BY <1>4, <2>1 DEF ReconnectSwaps, ClientPart, NoClientLeak, ReconnectOwnsItsClient
    <2>4. CurrentClientOpen'
        BY <1>4, <2>1 DEF ReconnectSwaps, ClientPart, CurrentClientOpen, ReconnectOwnsItsClient
    <2> QED BY <2>2, <2>3, <2>4 DEF ClientPart
<1>5. ASSUME NEW r \in Recons, ReconnectCloses(r) PROVE ClientPart'
    <2>1. \A s \in Recons \ {r} : pc[s] = "none" /\ cl[s] = NoClient
        BY <1>5 DEF ReconnectCloses, ReconPart, SingleReconnect, ClientPart, ReconnectOwnsItsClient
    <2>2. ReconnectOwnsItsClient'
        BY <1>5, <2>1 DEF ReconnectCloses, ClientPart, ReconnectOwnsItsClient
    <2>3. NoClientLeak'
        BY <1>5, <2>1 DEF ReconnectCloses, ClientPart, NoClientLeak, ReconnectOwnsItsClient
    <2>4. CurrentClientOpen'
        BY <1>5, <2>1 DEF ReconnectCloses, ClientPart, CurrentClientOpen, ReconnectOwnsItsClient
    <2> QED BY <2>2, <2>3, <2>4 DEF ClientPart
<1>6. ASSUME NEW t \in Loops \cup Requests, TryTick(t) PROVE ClientPart'
    BY <1>6, ClientFrame DEF TryTick
<1>7. ASSUME NEW t \in Loops \cup Requests, RunTick(t) PROVE ClientPart'
    BY <1>7, ClientFrame DEF RunTick
<1>8. ASSUME NEW t \in Loops \cup Requests, RunTickFails(t) PROVE ClientPart'
    BY <1>8, ClientFrame DEF RunTickFails
<1>9. ASSUME NEW t \in Loops \cup Requests, RoundStep(t) PROVE ClientPart'
    <2>1. ASSUME SearchMessages(t) \/ ExecuteActions(t) \/ GetTrashFolder(t) \/ TrashFound(t)
          PROVE  ClientPart'
        BY <2>1, ClientFrame DEF SearchMessages, ExecuteActions, GetTrashFolder, TrashFound
    <2>2. ASSUME ActionsReturn(t) \/ NextRound(t) \/ SyncFolders(t) \/ FoldersSynced(t)
          PROVE  ClientPart'
        BY <2>2, ClientFrame DEF ActionsReturn, NextRound, SyncFolders, FoldersSynced
    <2> QED
        BY <1>9, <2>1, <2>2 DEF RoundStep
<1>10. ASSUME NEW t \in Loops \cup Requests, TickEnds(t) PROVE ClientPart'
    BY <1>10, ClientFrame DEF TickEnds
<1>11. ASSUME NEW t \in Loops \cup Requests, SetLastError(t) PROVE ClientPart'
    BY <1>11, ClientFrame DEF SetLastError
<1>12. ASSUME NEW t \in Loops \cup Requests, SpawnReconnect(t) PROVE ClientPart'
    BY <1>12, ClientFrame DEF SpawnReconnect
<1>13. ASSUME NEW t \in Loops \cup Requests \cup Recons, ClearLastError(t) PROVE ClientPart'
    BY <1>13, ClientFrame DEF ClearLastError
<1>14. ASSUME NEW l \in Loops, LoopTicker(l) PROVE ClientPart'
    BY <1>14, ClientFrame DEF LoopTicker
<1>15. ASSUME NEW l \in Loops, LoopExit(l) PROVE ClientPart'
    BY <1>15, ClientFrame DEF LoopExit
<1>16. ASSUME NEW q \in Requests, ToggleRead(q) PROVE ClientPart'
    BY <1>16, ClientFrame DEF ToggleRead
<1>17. ASSUME NEW q \in Requests, RequestTick(q) PROVE ClientPart'
    BY <1>17, ClientFrame DEF RequestTick
<1>18. ASSUME NEW q \in Requests, ToggleSet(q) PROVE ClientPart'
    BY <1>18, ClientFrame DEF ToggleSet
<1>19. ASSUME NEW q \in Requests, Start(q) PROVE ClientPart'
    BY <1>19, ClientFrame DEF Start
<1>20. ASSUME NEW q \in Requests, StartSpawn(q) PROVE ClientPart'
    BY <1>20, ClientFrame DEF StartSpawn
<1>21. ASSUME NEW t \in Requests \cup {Main}, StopSwap(t) PROVE ClientPart'
    BY <1>21, ClientFrame DEF StopSwap
<1>22. ASSUME NEW t \in Requests \cup {Main}, StopClose(t) PROVE ClientPart'
    BY <1>22, ClientFrame DEF StopClose
<1>23. ASSUME NEW t \in Requests \cup {Main}, StopWait(t) PROVE ClientPart'
    BY <1>23, ClientFrame DEF StopWait
<1>24. ASSUME NEW t \in Requests \cup {Main}, Recoverer(t) PROVE ClientPart'
    BY <1>24, ClientFrame DEF Recoverer
<1>25. ASSUME Shutdown PROVE ClientPart'
    BY <1>25, ClientFrame DEF Shutdown
<1>26. ASSUME NEW r \in Recons, ReconnectBackoff(r) PROVE ClientPart'
    BY <1>26, ClientFrame DEF ReconnectBackoff
<1>27. ASSUME NEW r \in Recons, ReconnectWakes(r) PROVE ClientPart'
    BY <1>27, ClientFrame DEF ReconnectWakes
<1>28. ASSUME NEW r \in Recons, ReconnectFails(r) PROVE ClientPart'
    BY <1>28, ClientFrame DEF ReconnectFails
<1>29. ASSUME NEW r \in Recons, ReconnectReturns(r) PROVE ClientPart'
    BY <1>29, ClientFrame DEF ReconnectReturns
<1>30. ASSUME Outage PROVE ClientPart'
    BY <1>30, ClientFrame DEF Outage
<1>31. ASSUME Restore PROVE ClientPart'
    BY <1>31, ClientFrame DEF Restore
<1> QED
    BY <1>1, <1>2, <1>3, <1>4, <1>5, <1>6, <1>7, <1>8, <1>9, <1>10, <1>11, <1>12, <1>13, <1>14, <1>15, <1>16, <1>17, <1>18, <1>19, <1>20, <1>21, <1>22, <1>23, <1>24, <1>25, <1>26, <1>27, <1>28, <1>29, <1>30, <1>31
    DEF Next, LoopStep, Ticking, RequestArrives, RequestStep, Stopping, MainStep, ReconStep

(* Only setLastError, clearLastError and a failed reconnect touch the       *)
(* counter or the alert flag.                                               *)
LEMMA AlertNext == TypeOK /\ AlertedOnlyWhenFailing /\ [Next]_vars => AlertedOnlyWhenFailing'
<1> SUFFICES ASSUME TypeOK, AlertedOnlyWhenFailing, [Next]_vars
             PROVE  AlertedOnlyWhenFailing'
    OBVIOUS
<1>1. ASSUME NEW t \in Threads, SetLastError(t) PROVE AlertedOnlyWhenFailing'
    <2>1. Bump(cf) \in Nat /\ cf \in Nat /\ Bump(cf) >= cf
        BY BumpFact, PollerAssumption DEF TypeOK
    <2>2. cf' = Bump(cf) /\ alerted' = (alerted \/ Bump(cf) >= alertFailureThreshold)
        BY <1>1 DEF SetLastError
    <2> QED
        BY <2>1, <2>2 DEF AlertedOnlyWhenFailing, TypeOK
<1>2. ASSUME NEW t \in Threads, ClearLastError(t) PROVE AlertedOnlyWhenFailing'
    BY <1>2 DEF ClearLastError, AlertedOnlyWhenFailing
<1>3. ASSUME NEW r \in Recons, ReconnectFails(r) PROVE AlertedOnlyWhenFailing'
    <2>1. Bump(cf) \in Nat /\ cf \in Nat /\ Bump(cf) >= cf
        BY BumpFact, PollerAssumption DEF TypeOK
    <2> QED
        BY <1>3, <2>1 DEF ReconnectFails, AlertedOnlyWhenFailing
<1>4. CASE UNCHANGED <<cf, alerted>>
    BY <1>4 DEF AlertedOnlyWhenFailing
<1>5. \/ UNCHANGED <<cf, alerted>>
      \/ \E t \in Threads : SetLastError(t) \/ ClearLastError(t)
      \/ \E r \in Recons : ReconnectFails(r)
    BY DEF Next, vars, health, Workers, Threads, LoopStep, Ticking, RequestArrives, RequestStep,
           Stopping, MainStep, ReconStep, TryTick, RunTick, RunTickFails, RoundStep,
           SearchMessages, ExecuteActions, GetTrashFolder, TrashFound,
           ActionsReturn, NextRound, SyncFolders, FoldersSynced,
           TickEnds, SpawnReconnect, LoopTicker, LoopExit, ToggleRead, RequestTick,
           ToggleSet, Start, StartSpawn, StopSwap, StopClose, StopWait, Recoverer, Shutdown,
           CloseClient, ReconnectBackoff, ReconnectWakes, ReconnectConnects, ReconnectSwaps,
           ReconnectCloses, ReconnectReturns, Outage, Restore
<1> QED
    BY <1>1, <1>2, <1>3, <1>4, <1>5

(* The state initialize leaves satisfies the inductive invariant.           *)
LEMMA InvInit == Init => PollerInv
<1> SUFFICES ASSUME Init PROVE PollerInv
    OBVIOUS
<1>1. TypeOK
    BY TypeInit
<1>2. PICK first \in Loops :
        pc = [t \in Threads |->
                IF t \in Requests \cup {Main} THEN "idle"
                ELSE IF enabled /\ t = first THEN "process" ELSE "none"]
    BY DEF Init
<1>3. /\ \A t \in Threads : ~InTick(t)
      /\ \A r \in Recons : pc[r] = "none"
      /\ pc[Main] = "idle"
    BY <1>2, PollerAssumption DEF InTick, TickLabels, Workers, Threads
<1>4. FlagsMirrorGoroutines
    BY <1>3 DEF Init, FlagsMirrorGoroutines
<1>5. TickExclusion /\ SingleReconnect
    BY <1>3 DEF TickExclusion, SingleReconnect
<1>6. ReconnectOwnsItsClient
    BY <1>3 DEF Init, ReconnectOwnsItsClient, Workers, Threads
<1>7. NoClientLeak /\ CurrentClientOpen
    BY DEF Init, NoClientLeak, CurrentClientOpen
<1>8. AlertedOnlyWhenFailing
    BY DEF Init, AlertedOnlyWhenFailing
<1> QED
    BY <1>1, <1>4, <1>5, <1>6, <1>7, <1>8 DEF PollerInv

(* Every step keeps the inductive invariant.                                *)
LEMMA InvNext == PollerInv /\ [Next]_vars => PollerInv'
<1> SUFFICES ASSUME PollerInv, [Next]_vars PROVE PollerInv'
    OBVIOUS
<1>1. TypeOK /\ TickPart /\ ReconPart /\ ClientPart /\ AlertedOnlyWhenFailing
    BY DEF PollerInv, FlagsMirrorGoroutines, TickPart, ReconPart, ClientPart
<1>2. TypeOK'
    BY <1>1, TypeNext DEF ClientPart
<1>3. TickPart' /\ ReconPart' /\ ClientPart'
    BY <1>1, TickNext, ReconNext, ClientNext
<1>4. AlertedOnlyWhenFailing'
    BY <1>1, AlertNext
<1> QED
    BY <1>2, <1>3, <1>4
    DEF PollerInv, FlagsMirrorGoroutines, TickPart, ReconPart, ClientPart

(* The inductive invariant holds of every behaviour of the poller, for any  *)
(* number of loops, requests, reconnect goroutines and clients.             *)
THEOREM PollerInvariant == Spec => []PollerInv
BY InvInit, InvNext, PTL DEF Spec

(* Types: among them, the reconnect delay is always 0, 5, 10, 20, 40 or 60. *)
THEOREM PollerTypes == Spec => []TypeOK
BY PollerInvariant, PTL DEF PollerInv

(* No two goroutines are ever inside runTick together.                      *)
THEOREM TicksExclude == Spec => []TickExclusion
BY PollerInvariant, PTL DEF PollerInv

(* setLastError never lets a second reconnect goroutine start.              *)
THEOREM ReconnectsExclude == Spec => []SingleReconnect
BY PollerInvariant, PTL DEF PollerInv

(* Connections do not leak across reconnects.                               *)
THEOREM ClientsDoNotLeak == Spec => []NoClientLeak
BY PollerInvariant, PTL DEF PollerInv

(* The poller never works with a client that reconnect closed.              *)
THEOREM CurrentClientStaysOpen == Spec => []CurrentClientOpen
BY PollerInvariant, PTL DEF PollerInv

(* An outstanding unhealthy alert means three failures since a success.     *)
THEOREM AlertsNeedFailures == Spec => []AlertedOnlyWhenFailing
BY PollerInvariant, PTL DEF PollerInv

-----------------------------------------------------------------------------
(* Poller implements ClientContract. *)

(* A loop or a request holds a client exactly between RunTick and TickEnds, *)
(* one for executeActions inside that, and one for each of its listings.    *)
Holding == TickLabels \ {"process", "run"}
Acting == {"acts", "trash"}
Listing == {"trash", "sync"}

WorkersHold ==
    \A w \in Workers :
        /\ (cl[w] # NoClient) <=> (pc[w] \in Holding)
        /\ (acts[w] # NoClient) <=> (pc[w] \in Acting)
        /\ (lists[w] # NoClient) <=> (pc[w] \in Listing)

(* A step that hands no worker a client and moves none in or out of a tick, *)
(* of its actions or of a listing keeps WorkersHold.                        *)
LEMMA HoldFrame ==
    ASSUME WorkersHold,
           \A w \in Workers : cl'[w] = cl[w],
           acts' = acts, lists' = lists,
           \A w \in Workers : (pc'[w] \in Holding <=> pc[w] \in Holding),
           \A w \in Workers : (pc'[w] \in Acting <=> pc[w] \in Acting),
           \A w \in Workers : (pc'[w] \in Listing <=> pc[w] \in Listing)
    PROVE  WorkersHold'
BY DEF WorkersHold

(* No worker holds a client before the first tick.                          *)
LEMMA HoldInit == Init => WorkersHold
<1> SUFFICES ASSUME Init PROVE WorkersHold
    OBVIOUS
<1>1. PICK first \in Loops :
        pc = [t \in Threads |->
                IF t \in Requests \cup {Main} THEN "idle"
                ELSE IF enabled /\ t = first THEN "process" ELSE "none"]
    BY DEF Init
<1>2. \A w \in Workers : pc[w] \notin Holding \cup Acting \cup Listing
    BY <1>1 DEF Init, Holding, Acting, Listing, TickLabels, Workers, Threads
<1>3. \A w \in Workers : cl[w] = NoClient /\ acts[w] = NoClient /\ lists[w] = NoClient
    BY DEF Init, Workers, Threads
<1> QED
    BY <1>2, <1>3 DEF WorkersHold

(* RunTick hands out a client and TickEnds takes it back; each call in      *)
(* between takes one and gives it back.                                     *)
LEMMA HoldNext == TypeOK /\ WorkersHold /\ [Next]_vars => WorkersHold'
<1> SUFFICES ASSUME TypeOK, WorkersHold, [Next]_vars PROVE WorkersHold'
    OBVIOUS
<1> USE PollerAssumption
<1> USE DEF Workers, Holding, Acting, Listing, Goto, Hold, Threads, AfterTick, AfterStop, conns, calls,
        LoopLabels, RequestLabels, MainLabels, ReconLabels, StopLabels, TickLabels, Labels
<1>0. /\ cl \in [Threads -> Clients \cup {NoClient}] /\ cur \in Clients
      /\ acts \in [Workers -> Clients \cup {NoClient}]
      /\ lists \in [Workers -> Clients \cup {NoClient}]
      /\ pc \in [Threads -> Labels]
      /\ \A r \in Recons : pc[r] \in ReconLabels
      /\ \A l \in Loops : pc[l] \in LoopLabels
    BY DEF TypeOK, PcOK
<1>1. CASE UNCHANGED vars
    BY <1>1, HoldFrame DEF vars
<1>2. ASSUME NEW t \in Workers, RunTick(t) PROVE WorkersHold'
    BY <1>0, <1>2 DEF RunTick, WorkersHold
<1>3. ASSUME NEW t \in Workers, TickEnds(t) PROVE WorkersHold'
    BY <1>0, <1>3 DEF TickEnds, WorkersHold
<1>4. ASSUME NEW t \in Workers, TryTick(t) PROVE WorkersHold'
    BY <1>0, <1>4, HoldFrame DEF TryTick
<1>5. ASSUME NEW t \in Workers, RunTickFails(t) PROVE WorkersHold'
    BY <1>0, <1>5, HoldFrame DEF RunTickFails
<1>19. ASSUME NEW t \in Workers, RoundStep(t) PROVE WorkersHold'
    <2>1. ASSUME SearchMessages(t) \/ NextRound(t) PROVE WorkersHold'
        BY <1>0, <2>1, HoldFrame DEF SearchMessages, NextRound
    <2>2. ASSUME ExecuteActions(t) PROVE WorkersHold'
        BY <1>0, <2>2 DEF ExecuteActions, WorkersHold
    <2>3. ASSUME GetTrashFolder(t) PROVE WorkersHold'
        BY <1>0, <2>3 DEF GetTrashFolder, WorkersHold
    <2>4. ASSUME TrashFound(t) PROVE WorkersHold'
        BY <1>0, <2>4 DEF TrashFound, WorkersHold
    <2>5. ASSUME ActionsReturn(t) PROVE WorkersHold'
        BY <1>0, <2>5 DEF ActionsReturn, WorkersHold
    <2>6. ASSUME SyncFolders(t) PROVE WorkersHold'
        BY <1>0, <2>6 DEF SyncFolders, WorkersHold
    <2>7. ASSUME FoldersSynced(t) PROVE WorkersHold'
        BY <1>0, <2>7 DEF FoldersSynced, WorkersHold
    <2> QED
        BY <1>19, <2>1, <2>2, <2>3, <2>4, <2>5, <2>6, <2>7 DEF RoundStep
<1>6. ASSUME NEW t \in Workers, SetLastError(t) PROVE WorkersHold'
    BY <1>0, <1>6, HoldFrame DEF SetLastError
<1>7. ASSUME NEW t \in Workers, SpawnReconnect(t) PROVE WorkersHold'
    BY <1>0, <1>7, HoldFrame DEF SpawnReconnect
<1>8. ASSUME NEW t \in Threads, ClearLastError(t) PROVE WorkersHold'
    BY <1>0, <1>8, HoldFrame DEF ClearLastError
<1>9. ASSUME NEW l \in Loops, LoopTicker(l) \/ LoopExit(l) PROVE WorkersHold'
    BY <1>0, <1>9, HoldFrame DEF LoopTicker, LoopExit
<1>10. ASSUME NEW q \in Requests, ToggleRead(q) \/ RequestTick(q) \/ ToggleSet(q) PROVE WorkersHold'
    BY <1>0, <1>10, HoldFrame DEF ToggleRead, RequestTick, ToggleSet
<1>11. ASSUME NEW q \in Requests, Start(q) \/ StartSpawn(q) PROVE WorkersHold'
    BY <1>0, <1>11, HoldFrame DEF Start, StartSpawn
<1>12. ASSUME NEW t \in Requests \cup {Main}, StopSwap(t) \/ StopClose(t) PROVE WorkersHold'
    BY <1>0, <1>12, HoldFrame DEF StopSwap, StopClose
<1>13. ASSUME NEW t \in Requests \cup {Main}, StopWait(t) \/ Recoverer(t) PROVE WorkersHold'
    BY <1>0, <1>13, HoldFrame DEF StopWait, Recoverer
<1>14. ASSUME Shutdown \/ CloseClient PROVE WorkersHold'
    BY <1>0, <1>14, HoldFrame DEF Shutdown, CloseClient
<1>15. ASSUME NEW r \in Recons, ReconnectBackoff(r) \/ ReconnectWakes(r) \/ ReconnectFails(r)
       PROVE  WorkersHold'
    BY <1>0, <1>15, HoldFrame DEF ReconnectBackoff, ReconnectWakes, ReconnectFails
<1>16. ASSUME NEW r \in Recons, ReconnectConnects(r) PROVE WorkersHold'
    BY <1>0, <1>16, HoldFrame DEF ReconnectConnects
<1>17. ASSUME NEW r \in Recons, ReconnectSwaps(r) \/ ReconnectCloses(r) \/ ReconnectReturns(r)
       PROVE  WorkersHold'
    BY <1>0, <1>17, HoldFrame DEF ReconnectSwaps, ReconnectCloses, ReconnectReturns
<1>18. ASSUME Outage \/ Restore PROVE WorkersHold'
    BY <1>18, HoldFrame DEF Outage, Restore
<1> QED
    BY <1>1, <1>2, <1>3, <1>4, <1>5, <1>6, <1>7, <1>8, <1>9, <1>10, <1>11, <1>12, <1>13,
       <1>14, <1>15, <1>16, <1>17, <1>18, <1>19
    DEF Next, LoopStep, Ticking, RequestArrives, RequestStep, Stopping, MainStep, ReconStep

(* The connection beside the current one: what the reconnect goroutine holds. *)
Spare == {cl[r] : r \in Recons} \ {NoClient}

(* A step that leaves the connections alone is a stutter of the contract.   *)
LEMMA ContractFrame ==
    ASSUME cur' = cur, open' = open, acts' = acts, lists' = lists,
           \A t \in Workers \cup Recons : cl'[t] = cl[t],
           \A r \in Recons : pc'[r] = "close" <=> pc[r] = "close",
           Alive' <=> Alive
    PROVE  UNCHANGED Contract!vars
<1>1. {cl[r] : r \in Recons}' = {cl[r] : r \in Recons}
    OBVIOUS
<1>2. [w \in Workers |-> cl[w]]' = [w \in Workers |-> cl[w]]
    OBVIOUS
<1>3. (\E r \in Recons : pc[r] = "close")' <=> \E r \in Recons : pc[r] = "close"
    OBVIOUS
<1> QED
    BY <1>1, <1>2, <1>3 DEF Contract!vars, Contract!using

(* While one reconnect goroutine exists, the clients of all of them are its *)
(* own.                                                                     *)
LEMMA SpareIsItsOwn ==
    ASSUME PollerInv, NEW r \in Recons, pc[r] # "none"
    PROVE  /\ Spare = {cl[r]} \ {NoClient}
           /\ \A s \in Recons \ {r} : pc[s] = "none" /\ cl[s] = NoClient
BY DEF PollerInv, SingleReconnect, ReconnectOwnsItsClient, Spare

(* The state after initialize is the contract's.                            *)
LEMMA ContractInit == Init => Contract!Init
<1> SUFFICES ASSUME Init PROVE Contract!Init
    OBVIOUS
<1>1. PICK first \in Loops :
        pc = [t \in Threads |->
                IF t \in Requests \cup {Main} THEN "idle"
                ELSE IF enabled /\ t = first THEN "process" ELSE "none"]
    BY DEF Init
<1>2. \A r \in Recons : pc[r] = "none" /\ cl[r] = NoClient
    BY <1>1, PollerAssumption DEF Init, Workers, Threads
<1>3. \A w \in Workers : cl[w] = NoClient /\ acts[w] = NoClient /\ lists[w] = NoClient
    BY DEF Init, Workers, Threads
<1>4. Alive
    BY <1>1, PollerAssumption DEF Alive, Workers, Threads
<1> QED
    BY <1>2, <1>3, <1>4 DEF Init, Contract!Init

(* RunTick begins a tick nobody else is in.                                 *)
LEMMA RunTickBegins ==
    ASSUME PollerInv, WorkersHold, NEW t \in Workers, RunTick(t)
    PROVE  Contract!BeginTick(t)
<1> USE PollerAssumption DEF Workers, Threads, conns, calls
<1>0. /\ cl \in [Threads -> Clients \cup {NoClient}]
      /\ pc \in [Threads -> Labels]
    BY DEF PollerInv, TypeOK, PcOK
<1>1. pc[t] = "run" /\ pc' = [pc EXCEPT ![t] = "search"]
    BY DEF RunTick, Goto
<1>2. /\ cl' = [cl EXCEPT ![t] = cur] /\ cur' = cur /\ open' = open
      /\ acts' = acts /\ lists' = lists
    BY DEF RunTick, Hold
<1>3. \A v \in Workers : cl[v] = NoClient
    <2> SUFFICES ASSUME NEW v \in Workers, cl[v] # NoClient PROVE FALSE
        OBVIOUS
    <2>1. InTick(v) /\ pc[v] # "run"
        BY DEF WorkersHold, Holding, InTick
    <2>2. InTick(t)
        BY <1>1 DEF InTick, TickLabels
    <2> QED
        BY <1>1, <2>1, <2>2 DEF PollerInv, TickExclusion
<1>4. [w \in Workers |-> cl[w]]' = [[w \in Workers |-> cl[w]] EXCEPT ![t] = cur]
    BY <1>0, <1>2
<1>5. {cl[r] : r \in Recons}' = {cl[r] : r \in Recons}
    BY <1>0, <1>2
<1>6. \A r \in Recons : pc'[r] = pc[r]
    BY <1>0, <1>1
<1>7. Alive' <=> Alive
    BY <1>0, <1>1 DEF Alive
<1> QED
    BY <1>2, <1>3, <1>4, <1>5, <1>6, <1>7 DEF Contract!BeginTick

(* TickEnds gives the client back.                                          *)
LEMMA TickEndsEnds ==
    ASSUME PollerInv, WorkersHold, NEW t \in Workers, TickEnds(t)
    PROVE  Contract!EndTick(t)
<1> USE PollerAssumption DEF Workers, Threads, conns, calls
<1>0. /\ cl \in [Threads -> Clients \cup {NoClient}]
      /\ pc \in [Threads -> Labels]
    BY DEF PollerInv, TypeOK, PcOK
<1>1. /\ pc[t] \in {"endErr", "endOk"}
      /\ pc' = [pc EXCEPT ![t] = pc'[t]]
    BY <1>0 DEF TickEnds, Goto
<1>2. /\ cl' = [cl EXCEPT ![t] = NoClient] /\ cur' = cur /\ open' = open
      /\ acts' = acts /\ lists' = lists
    BY DEF TickEnds, Hold
<1>3. cl[t] # NoClient /\ acts[t] = NoClient /\ lists[t] = NoClient
    BY <1>1 DEF WorkersHold, Holding, Acting, Listing, TickLabels
<1>4. [w \in Workers |-> cl[w]]' = [[w \in Workers |-> cl[w]] EXCEPT ![t] = NoClient]
    BY <1>0, <1>2
<1>5. {cl[r] : r \in Recons}' = {cl[r] : r \in Recons}
    BY <1>0, <1>2
<1>6. \A r \in Recons : pc'[r] = pc[r]
    BY <1>0, <1>1
<1>7. Alive' <=> Alive
    BY <1>0, <1>1 DEF Alive
<1> QED
    BY <1>2, <1>3, <1>4, <1>5, <1>6, <1>7 DEF Contract!EndTick

(* What a step of the contract that only changes calls leaves alone.        *)
LEMMA CallsOnly ==
    ASSUME PollerInv, NEW t \in Workers, NEW l \in TickLabels,
           cur' = cur, open' = open, cl' = cl, pc' = [pc EXCEPT ![t] = l]
    PROVE  /\ UNCHANGED [w \in Workers |-> cl[w]]
           /\ UNCHANGED <<cur, {cl[r] : r \in Recons} \ {NoClient}, open, Alive>>
           /\ UNCHANGED (\E r \in Recons : pc[r] = "close")
<1> USE PollerAssumption DEF Workers, Threads
<1>1. pc \in [Threads -> Labels]
    BY DEF PollerInv, TypeOK, PcOK
<1>2. \A r \in Recons : pc'[r] = pc[r]
    BY <1>1
<1>3. Alive' <=> Alive
    BY <1>1 DEF Alive
<1> QED
    BY <1>2, <1>3

(* executeActions, getTrashFolder and syncFolders each call on the client   *)
(* that is current by then.                                                 *)
LEMMA RoundCalls ==
    ASSUME PollerInv, WorkersHold, NEW t \in Workers,
           ExecuteActions(t) \/ GetTrashFolder(t) \/ SyncFolders(t)
    PROVE  Contract!Call(t)
<1> USE PollerAssumption DEF conns, calls
<1> DEFINE C == [w \in Workers |-> {acts[w], lists[w]} \ {NoClient}]
<1>0. /\ acts \in [Workers -> Clients \cup {NoClient}]
      /\ lists \in [Workers -> Clients \cup {NoClient}]
      /\ pc \in [Threads -> Labels] /\ cur \in Clients
    BY DEF PollerInv, TypeOK, PcOK
<1>1. PICK l \in TickLabels : pc' = [pc EXCEPT ![t] = l]
    BY DEF ExecuteActions, GetTrashFolder, SyncFolders, Goto, TickLabels
<1>2. pc[t] \in Holding /\ cl[t] # NoClient
    BY DEF ExecuteActions, GetTrashFolder, SyncFolders, Goto, WorkersHold, Holding, TickLabels
<1>3. cur' = cur /\ open' = open /\ cl' = cl
    BY DEF ExecuteActions, GetTrashFolder, SyncFolders
<1>4. C' = [C EXCEPT ![t] = @ \cup {cur}]
    <2>1. CASE ExecuteActions(t)
        <3>1. acts[t] = NoClient /\ lists[t] = NoClient
            BY <2>1 DEF ExecuteActions, Goto, WorkersHold, Acting, Listing
        <3>2. acts' = [acts EXCEPT ![t] = cur] /\ lists' = lists
            BY <2>1 DEF ExecuteActions
        <3> QED
            BY <1>0, <3>1, <3>2, ZenonT(40)
    <2>2. CASE GetTrashFolder(t)
        <3>1. lists[t] = NoClient
            BY <2>2 DEF GetTrashFolder, Goto, WorkersHold, Listing
        <3>2. lists' = [lists EXCEPT ![t] = cur] /\ acts' = acts
            BY <2>2 DEF GetTrashFolder
        <3> QED
            BY <1>0, <3>1, <3>2, ZenonT(40)
    <2>3. CASE SyncFolders(t)
        <3>1. lists[t] = NoClient
            BY <2>3 DEF SyncFolders, Goto, WorkersHold, Listing
        <3>2. lists' = [lists EXCEPT ![t] = cur] /\ acts' = acts
            BY <2>3 DEF SyncFolders
        <3> QED
            BY <1>0, <3>1, <3>2, ZenonT(40)
    <2> QED
        BY <2>1, <2>2, <2>3
<1>5. [w \in Workers |-> cl[w]][t] # NoClient
    BY <1>2
<1> QED
    BY <1>1, <1>3, <1>4, <1>5, CallsOnly DEF Contract!Call

(* A listing or the actions give their client back; a listing inside the    *)
(* actions on the same client changes nothing.                              *)
LEMMA RoundReturns ==
    ASSUME PollerInv, WorkersHold, NEW t \in Workers,
           TrashFound(t) \/ ActionsReturn(t) \/ FoldersSynced(t)
    PROVE  Contract!Return(t) \/ UNCHANGED Contract!vars
<1> USE PollerAssumption DEF conns, calls
<1> DEFINE C == [w \in Workers |-> {acts[w], lists[w]} \ {NoClient}]
<1>0. /\ acts \in [Workers -> Clients \cup {NoClient}]
      /\ lists \in [Workers -> Clients \cup {NoClient}]
      /\ pc \in [Threads -> Labels]
    BY DEF PollerInv, TypeOK, PcOK
<1>1. PICK l \in TickLabels : pc' = [pc EXCEPT ![t] = l]
    BY DEF TrashFound, ActionsReturn, FoldersSynced, Goto, TickLabels
<1>2. cur' = cur /\ open' = open /\ cl' = cl
    BY DEF TrashFound, ActionsReturn, FoldersSynced
<1>3. C' = C \/ \E c \in C[t] : C' = [C EXCEPT ![t] = @ \ {c}]
    <2>1. CASE TrashFound(t)
        <3>1. acts[t] \in Clients /\ lists[t] \in Clients
            BY <1>0, <2>1 DEF TrashFound, Goto, WorkersHold, Acting, Listing
        <3>2. lists' = [lists EXCEPT ![t] = NoClient] /\ acts' = acts
            BY <2>1 DEF TrashFound
        <3>3. CASE lists[t] = acts[t]
            BY <1>0, <3>1, <3>2, <3>3
        <3>4. CASE lists[t] # acts[t]
            <4>1. lists[t] \in C[t]
                BY <3>1
            <4>2. C' = [C EXCEPT ![t] = @ \ {lists[t]}]
                BY <1>0, <3>1, <3>2, <3>4
            <4> QED
                BY <4>1, <4>2
        <3> QED
            BY <3>3, <3>4
    <2>2. CASE ActionsReturn(t)
        <3>1. acts[t] \in Clients /\ lists[t] = NoClient
            BY <1>0, <2>2 DEF ActionsReturn, Goto, WorkersHold, Acting, Listing
        <3>2. acts' = [acts EXCEPT ![t] = NoClient] /\ lists' = lists
            BY <2>2 DEF ActionsReturn
        <3>3. acts[t] \in C[t]
            BY <3>1
        <3>4. C' = [C EXCEPT ![t] = @ \ {acts[t]}]
            BY <1>0, <3>1, <3>2
        <3> QED
            BY <3>3, <3>4
    <2>3. CASE FoldersSynced(t)
        <3>1. lists[t] \in Clients /\ acts[t] = NoClient
            BY <1>0, <2>3 DEF FoldersSynced, Goto, WorkersHold, Acting, Listing
        <3>2. lists' = [lists EXCEPT ![t] = NoClient] /\ acts' = acts
            BY <2>3 DEF FoldersSynced
        <3>3. lists[t] \in C[t]
            BY <3>1
        <3>4. C' = [C EXCEPT ![t] = @ \ {lists[t]}]
            BY <1>0, <3>1, <3>2
        <3> QED
            BY <3>3, <3>4
    <2> QED
        BY <2>1, <2>2, <2>3
<1> QED
    BY <1>1, <1>2, <1>3, CallsOnly DEF Contract!Return, Contract!vars, Contract!using

(* A new connection becomes the spare one.                                  *)
LEMMA ReconnectConnectsConnects ==
    ASSUME PollerInv, NEW r \in Recons, ReconnectConnects(r)
    PROVE  \E c \in Clients : Contract!Connect(c)
<1> USE PollerAssumption DEF Workers, Threads, conns, calls
<1>0. /\ cl \in [Threads -> Clients \cup {NoClient}]
      /\ pc \in [Threads -> Labels]
    BY DEF PollerInv, TypeOK, PcOK
<1>1. /\ pc[r] = "connect" /\ pc' = [pc EXCEPT ![r] = "swap"] /\ cur' = cur
      /\ acts' = acts /\ lists' = lists
    BY DEF ReconnectConnects, Goto
<1>2. PICK c \in Clients \ (open \cup {cur} \cup Held) :
        open' = open \cup {c} /\ cl' = [cl EXCEPT ![r] = c]
    BY DEF ReconnectConnects, Hold
<1>3. /\ \A s \in Recons : cl[s] = NoClient
      /\ \A s \in Recons \ {r} : pc[s] = "none"
    BY <1>1, SpareIsItsOwn DEF PollerInv, ReconnectOwnsItsClient
<1>4. ({cl[s] : s \in Recons} \ {NoClient}) = {}
    BY <1>3
<1>5. ({cl[s] : s \in Recons} \ {NoClient})' = {c}
    BY <1>0, <1>2, <1>3
<1>6. [w \in Workers |-> cl[w]]' = [w \in Workers |-> cl[w]]
    BY <1>0, <1>2
<1>7. (\E s \in Recons : pc[s] = "close")' <=> \E s \in Recons : pc[s] = "close"
    BY <1>0, <1>1, <1>3
<1>8. Alive' <=> Alive
    BY <1>0, <1>1 DEF Alive
<1>9. \A w \in Workers :
        /\ c # [v \in Workers |-> cl[v]][w]
        /\ c \notin [v \in Workers |-> {acts[v], lists[v]} \ {NoClient}][w]
    BY <1>2 DEF Held
<1>10. c \notin open \cup {cur}
    BY <1>2
<1>11. c \in Clients /\ open' = open \cup {c}
    BY <1>2
<1>12. Contract!Connect(c)
    BY <1>1, <1>4, <1>5, <1>6, <1>7, <1>8, <1>9, <1>10, <1>11
    DEF Contract!Connect, Contract!using
<1> QED
    BY <1>11, <1>12

(* The swap replaces the current connection by the spare one.               *)
LEMMA ReconnectSwapsReplaces ==
    ASSUME PollerInv, NEW r \in Recons, ReconnectSwaps(r)
    PROVE  Contract!Replace
<1> USE PollerAssumption DEF Workers, Threads, conns, calls
<1>0. /\ cl \in [Threads -> Clients \cup {NoClient}]
      /\ pc \in [Threads -> Labels]
      /\ cur \in Clients
    BY DEF PollerInv, TypeOK, PcOK
<1>1. /\ pc[r] = "swap" /\ pc' = [pc EXCEPT ![r] = "close"] /\ open' = open
      /\ acts' = acts /\ lists' = lists
    BY DEF ReconnectSwaps, Goto
<1>2. cur' = cl[r] /\ cl' = [cl EXCEPT ![r] = cur]
    BY DEF ReconnectSwaps, Hold
<1>3. \A s \in Recons \ {r} : pc[s] = "none" /\ cl[s] = NoClient
    BY <1>1, SpareIsItsOwn
<1>4. cl[r] \in Clients
    BY <1>1 DEF PollerInv, ReconnectOwnsItsClient
<1>5. ({cl[s] : s \in Recons} \ {NoClient}) = {cl[r]}
    BY <1>3, <1>4
<1>6. ({cl[s] : s \in Recons} \ {NoClient})' = {cur}
    BY <1>0, <1>2, <1>3
<1>7. [w \in Workers |-> cl[w]]' = [w \in Workers |-> cl[w]]
    BY <1>0, <1>2
<1>8. ~(\E s \in Recons : pc[s] = "close") /\ (\E s \in Recons : pc[s] = "close")'
    BY <1>0, <1>1, <1>3
<1>9. Alive' <=> Alive
    BY <1>0, <1>1 DEF Alive
<1> QED
    BY <1>1, <1>2, <1>5, <1>6, <1>7, <1>8, <1>9 DEF Contract!Replace, Contract!using

(* Only the connection that was replaced is closed.                         *)
LEMMA ReconnectClosesCloses ==
    ASSUME PollerInv, NEW r \in Recons, ReconnectCloses(r)
    PROVE  Contract!Close
<1> USE PollerAssumption DEF Workers, Threads, conns, calls
<1>0. /\ cl \in [Threads -> Clients \cup {NoClient}]
      /\ pc \in [Threads -> Labels]
    BY DEF PollerInv, TypeOK, PcOK
<1>1. /\ pc[r] = "close" /\ pc' = [pc EXCEPT ![r] = "clear"]
      /\ open' = open \ {cl[r]} /\ cur' = cur
      /\ acts' = acts /\ lists' = lists
    BY DEF ReconnectCloses, Goto
<1>2. cl' = [cl EXCEPT ![r] = NoClient]
    BY DEF ReconnectCloses, Hold
<1>3. \A s \in Recons \ {r} : pc[s] = "none" /\ cl[s] = NoClient
    BY <1>1, SpareIsItsOwn
<1>4. cl[r] \in Clients
    BY <1>1 DEF PollerInv, ReconnectOwnsItsClient
<1>5. ({cl[s] : s \in Recons} \ {NoClient}) = {cl[r]}
    BY <1>3, <1>4
<1>6. ({cl[s] : s \in Recons} \ {NoClient})' = {}
    BY <1>0, <1>2, <1>3
<1>7. [w \in Workers |-> cl[w]]' = [w \in Workers |-> cl[w]]
    BY <1>0, <1>2
<1>8. (\E s \in Recons : pc[s] = "close") /\ ~(\E s \in Recons : pc[s] = "close")'
    BY <1>0, <1>1, <1>3
<1>9. Alive' <=> Alive
    BY <1>0, <1>1 DEF Alive
<1> QED
    BY <1>1, <1>5, <1>6, <1>7, <1>8, <1>9 DEF Contract!Close, Contract!using

(* When main returns the process ends, its connection closed or, after a    *)
(* panic in Stop, not.                                                      *)
LEMMA MainExits ==
    ASSUME PollerInv, Alive, CloseClient \/ (Recoverer(Main))
    PROVE  Contract!Exit
<1> USE PollerAssumption DEF Workers, Threads, conns, calls
<1>0. pc \in [Threads -> Labels]
    BY DEF PollerInv, TypeOK, PcOK
<1>1. /\ pc[Main] \in {"closeClient", "panic"} /\ pc' = [pc EXCEPT ![Main] = "exit"]
      /\ cur' = cur /\ cl' = cl /\ acts' = acts /\ lists' = lists
      /\ open' \in {open, open \ {cur}}
    BY DEF CloseClient, Recoverer, Goto
<1>2. Alive' = FALSE
    BY <1>0, <1>1 DEF Alive
<1>3. (\E s \in Recons : pc[s] = "close")' <=> \E s \in Recons : pc[s] = "close"
    BY <1>0, <1>1
<1> QED
    BY <1>1, <1>2, <1>3 DEF Contract!Exit, Contract!using

(* Every step of every goroutine is a step of the contract or changes       *)
(* nothing the contract speaks of.                                          *)
LEMMA ContractNext ==
    PollerInv /\ WorkersHold /\ [Next]_vars => [Contract!Next]_(Contract!vars)
<1> SUFFICES ASSUME PollerInv, WorkersHold, [Next]_vars
             PROVE  Contract!Next \/ UNCHANGED Contract!vars
    OBVIOUS
<1> USE PollerAssumption
<1>0. /\ cl \in [Threads -> Clients \cup {NoClient}]
      /\ pc \in [Threads -> Labels] /\ PcOK
    BY DEF PollerInv, TypeOK, PcOK
<1>1. CASE UNCHANGED vars
    BY <1>1, ContractFrame DEF vars, conns, calls, Alive
<1>2. CASE Next
    <2>0. Alive
        BY <1>2 DEF Next
    <2>1. ASSUME NEW t \in Workers, RunTick(t) PROVE Contract!Next
        BY <2>0, <2>1, RunTickBegins DEF Contract!Next
    <2>2. ASSUME NEW t \in Workers, TickEnds(t) PROVE Contract!Next
        BY <2>0, <2>2, TickEndsEnds DEF Contract!Next
    <2>3. ASSUME NEW r \in Recons, ReconnectConnects(r) PROVE Contract!Next
        BY <2>0, <2>3, ReconnectConnectsConnects DEF Contract!Next
    <2>4. ASSUME NEW r \in Recons, ReconnectSwaps(r) PROVE Contract!Next
        BY <2>0, <2>4, ReconnectSwapsReplaces DEF Contract!Next
    <2>5. ASSUME NEW r \in Recons, ReconnectCloses(r) PROVE Contract!Next
        BY <2>0, <2>5, ReconnectClosesCloses DEF Contract!Next
    <2>6. ASSUME CloseClient \/ Recoverer(Main) PROVE Contract!Next
        BY <2>0, <2>6, MainExits DEF Contract!Next
    <2>19. ASSUME NEW t \in Workers, RoundStep(t), ~(SearchMessages(t) \/ NextRound(t))
           PROVE  Contract!Next \/ UNCHANGED Contract!vars
        BY <2>0, <2>19, RoundCalls, RoundReturns DEF Contract!Next, RoundStep
    <2> USE DEF Workers, Goto, Threads, conns, calls, AfterTick, AfterStop, Alive, PcOK,
            LoopLabels, RequestLabels, MainLabels, ReconLabels, StopLabels, TickLabels, Labels
    <2>7. ASSUME NEW t \in Workers,
                  TryTick(t) \/ RunTickFails(t) \/ SearchMessages(t) \/ NextRound(t)
          PROVE  UNCHANGED Contract!vars
        BY <1>0, <2>7, ContractFrame DEF TryTick, RunTickFails, SearchMessages, NextRound
    <2>8. ASSUME NEW t \in Workers, SetLastError(t) PROVE UNCHANGED Contract!vars
        BY <1>0, <2>8, ContractFrame DEF SetLastError
    <2>9. ASSUME NEW t \in Workers, SpawnReconnect(t) PROVE UNCHANGED Contract!vars
        BY <1>0, <2>9, ContractFrame DEF SpawnReconnect
    <2>10. ASSUME NEW t \in Threads, ClearLastError(t) PROVE UNCHANGED Contract!vars
        BY <1>0, <2>10, ContractFrame DEF ClearLastError
    <2>11. ASSUME NEW l \in Loops, LoopTicker(l) \/ LoopExit(l) PROVE UNCHANGED Contract!vars
        BY <1>0, <2>11, ContractFrame DEF LoopTicker, LoopExit
    <2>12. ASSUME NEW q \in Requests, RequestArrives(q) \/ ToggleSet(q)
           PROVE  UNCHANGED Contract!vars
        BY <1>0, <2>12, ContractFrame DEF RequestArrives, ToggleRead, RequestTick, ToggleSet
    <2>13. ASSUME NEW q \in Requests, Start(q) \/ StartSpawn(q) PROVE UNCHANGED Contract!vars
        BY <1>0, <2>13, ContractFrame DEF Start, StartSpawn
    <2>14. ASSUME NEW t \in Requests \cup {Main}, StopSwap(t) \/ StopClose(t) \/ StopWait(t)
           PROVE  UNCHANGED Contract!vars
        BY <1>0, <2>14, ContractFrame DEF StopSwap, StopClose, StopWait
    <2>15. ASSUME NEW q \in Requests, Recoverer(q) PROVE UNCHANGED Contract!vars
        BY <1>0, <2>15, ContractFrame DEF Recoverer
    <2>16. ASSUME Shutdown PROVE UNCHANGED Contract!vars
        BY <1>0, <2>16, ContractFrame DEF Shutdown
    <2>17. ASSUME NEW r \in Recons,
                  ReconnectBackoff(r) \/ ReconnectWakes(r) \/ ReconnectFails(r) \/ ReconnectReturns(r)
           PROVE  UNCHANGED Contract!vars
        BY <1>0, <2>17, ContractFrame
        DEF ReconnectBackoff, ReconnectWakes, ReconnectFails, ReconnectReturns
    <2>18. ASSUME Outage \/ Restore PROVE UNCHANGED Contract!vars
        BY <2>18, ContractFrame DEF Outage, Restore
    <2> QED
        BY <1>2, <2>1, <2>2, <2>3, <2>4, <2>5, <2>6, <2>7, <2>8, <2>9, <2>10, <2>11, <2>12,
           <2>13, <2>14, <2>15, <2>16, <2>17, <2>18, <2>19
        DEF Next, RoundStep, LoopStep, Ticking, RequestStep, Stopping, MainStep, ReconStep
<1> QED
    BY <1>1, <1>2

(* The poller implements the contract, for any number of loops, requests,   *)
(* reconnect goroutines and clients: initialize starts as the contract      *)
(* does, and under the inductive invariants every step of the code is a     *)
(* step of the contract or a stutter.                                       *)
THEOREM PollerImplementsContract == Spec => ImplementsContract
<1>1. Spec => [](PollerInv /\ WorkersHold)
    <2>1. PollerInv /\ WorkersHold /\ [Next]_vars => (PollerInv /\ WorkersHold)'
        BY InvNext, HoldNext DEF PollerInv
    <2> QED
        BY <2>1, InvInit, HoldInit, PTL DEF Spec
<1> QED
    BY <1>1, ContractInit, ContractNext, PTL DEF Spec, ImplementsContract, Contract!Spec
=============================================================================
