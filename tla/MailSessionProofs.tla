------------------------- MODULE MailSessionProofs --------------------------
(* Proofs about MailSession, for every number of sessions, operations,      *)
(* messages and folders.                                                    *)
EXTENDS MailSession, FiniteSetTheorems, TLAPS

Working == Labels \ {"idle", "lock"}

(* All that TypeOK says of variables other than op. *)
MailOK ==
    /\ loc \in [Messages -> Folders \cup {Nowhere}]
    /\ uid \in [Messages -> Nat]
    /\ seen \in [Messages -> BOOLEAN]
    /\ uidNext \in [Folders -> Nat \ {0}]

SessionsOK ==
    /\ sel \in [Sessions -> Folders \cup {Nowhere}]
    /\ owner \in [Sessions -> Actors \cup {Nobody}]
    /\ cur \in Sessions
    /\ retired \subseteq Sessions /\ closed \subseteq Sessions

GhostsOK == strays \subseteq Messages /\ runs \in [Messages -> 0..2]

GivenOK ==
    /\ outcome \in [Messages -> Outcomes] /\ batch \in BatchSizes
    /\ hides \in BOOLEAN /\ fails \in BOOLEAN

(* An operation that has begun has a session, and one about to select the   *)
(* destination of a move has the move at hand.                              *)
OpOK(o) ==
    /\ o \in Ops
    /\ o.pc # "idle" => o.sess \in Sessions
    /\ o.pc = "select" => o.acts # <<>>

MailInv ==
    /\ MailOK /\ SessionsOK /\ GhostsOK /\ GivenOK
    /\ op \in [Actors -> Ops]
    /\ \A a \in Actors : OpOK(op[a])
    /\ LockHeld

(* Operation a, at work, goes on with local variables o: it keeps its       *)
(* session and the lock on it.                                              *)
GoesOn(a, o) ==
    /\ op' = [op EXCEPT ![a] = o]
    /\ OpOK(o)
    /\ o.sess = op[a].sess
    /\ o.pc \in Working /\ op[a].pc \in Working
    /\ owner' = owner

(* What every step of an operation at work but UnlockSession does. *)
Continues(a) ==
    /\ \E o : GoesOn(a, o)
    /\ MailOK' /\ SessionsOK' /\ GhostsOK' /\ GivenOK'

-----------------------------------------------------------------------------
(* Sequences of actions, as the provers need them.                          *)
LEMMA ActionsFact ==
    /\ <<>> \in Seq(Actions)
    /\ \A s \in Seq(Actions) :
        s # <<>> => /\ Head(s) \in Actions /\ Head(s).dest \in Folders
                    /\ Tail(s) \in Seq(Actions)
<1>1. <<>> \in Seq(Actions)
    OBVIOUS
<1>2. ASSUME NEW s \in Seq(Actions), s # <<>>
      PROVE  Head(s) \in Actions /\ Tail(s) \in Seq(Actions)
    BY <1>2
<1>3. \A x \in Actions : x.dest \in Folders
    BY DEF Actions
<1> QED
    BY <1>1, <1>2, <1>3

(* The local variables at the start of a round.                             *)
LEMMA FreshRound ==
    ASSUME NEW o \in Ops, NEW n \in Nat
    PROVE  [o EXCEPT !.pc = "search", !.found = NoMessage, !.msg = NoMessage,
                     !.exec = NoSession, !.acts = <<>>, !.moved = FALSE,
                     !.count = n] \in Ops
BY ActionsFact DEF Ops, Labels

(* RoundOver keeps the session and goes back to the search.                 *)
LEMMA RoundOverFact ==
    ASSUME op \in [Actors -> Ops], NEW a \in Actors, NEW counts \in BOOLEAN
    PROVE  /\ RoundOver(a, counts) \in Ops
           /\ RoundOver(a, counts).sess = op[a].sess
           /\ RoundOver(a, counts).pc = "search"
<1> DEFINE n == IF counts THEN op[a].count + 1 ELSE op[a].count
<1>1. op[a] \in Ops /\ n \in Nat
    BY DEF Ops
<1>2. RoundOver(a, counts) =
        [op[a] EXCEPT !.pc = "search", !.found = NoMessage, !.msg = NoMessage,
                      !.exec = NoSession, !.acts = <<>>, !.moved = FALSE,
                      !.count = n]
    BY DEF RoundOver
<1> HIDE DEF n
<1>3. RoundOver(a, counts) \in Ops
    BY <1>1, <1>2, FreshRound
<1>4. RoundOver(a, counts).sess = op[a].sess /\ RoundOver(a, counts).pc = "search"
    BY <1>1, <1>2 DEF Ops
<1> QED
    BY <1>3, <1>4

(* An operation that goes on preserves what the invariant says of           *)
(* operations and locks.                                                    *)
LEMMA GoesOnFact ==
    ASSUME MailInv, NEW a \in Actors, NEW o, GoesOn(a, o)
    PROVE  /\ op' \in [Actors -> Ops]
           /\ \A b \in Actors : OpOK(op'[b])
           /\ LockHeld'
BY DEF MailInv, GoesOn, OpOK, LockHeld, Locked, Working

(* Ending a round is going on.                                              *)
LEMMA RoundOverGoesOn ==
    ASSUME MailInv, NEW a \in Actors, NEW counts \in BOOLEAN,
           op[a].pc \in Working, owner' = owner,
           op' = [op EXCEPT ![a] = RoundOver(a, counts)]
    PROVE  \E o : GoesOn(a, o)
<1>1. OpOK(RoundOver(a, counts))
    BY RoundOverFact DEF MailInv, OpOK, Working
<1>2. GoesOn(a, RoundOver(a, counts))
    BY <1>1, RoundOverFact DEF MailInv, GoesOn, Working, Labels
<1> QED
    BY <1>2

(* Going to another label is going on.                                      *)
LEMMA GotoGoesOn ==
    ASSUME MailInv, NEW a \in Actors, NEW label \in Working \ {"select"},
           op[a].pc \in Working, owner' = owner,
           op' = [op EXCEPT ![a] = [op[a] EXCEPT !.pc = label]]
    PROVE  \E o : GoesOn(a, o)
<1> DEFINE o == [op[a] EXCEPT !.pc = label]
<1>1. OpOK(op[a]) /\ op[a] \in Ops
    BY DEF MailInv
<1>2. o \in Ops /\ o.sess = op[a].sess /\ o.pc = label
    BY <1>1 DEF Ops, Working
<1>3. GoesOn(a, o)
    BY <1>1, <1>2 DEF GoesOn, OpOK, Working
<1> QED
    BY <1>3

-----------------------------------------------------------------------------
(* The rounds: search, fetch and match.                                     *)

(* An operation at its limit goes on to the unlock.                         *)
LEMMA LimitReachedStep ==
    ASSUME MailInv, NEW a \in Actors, LimitReached(a)
    PROVE  Continues(a)
<1>1. \E o : GoesOn(a, o)
    BY GotoGoesOn DEF LimitReached, sessions, Working, Labels
<1> QED
    BY <1>1 DEF Continues, LimitReached, MailInv, MailOK, SessionsOK, GhostsOK, GivenOK,
        mail, sessions, ghosts, given

(* A failed SELECT or SEARCH ends the operation, its lock still held.       *)
LEMMA SearchFailsStep ==
    ASSUME MailInv, NEW a \in Actors, SearchFails(a)
    PROVE  Continues(a)
<1>1. \E o : GoesOn(a, o)
    BY GotoGoesOn DEF SearchFails, Working, Labels
<1>2. sel' \in [Sessions -> Folders \cup {Nowhere}]
    BY DEF MailInv, SearchFails, SessionsOK, Ops
<1> QED
    BY <1>1, <1>2 DEF Continues, SearchFails, MailInv, MailOK, SessionsOK, GhostsOK, GivenOK,
        mail, ghosts, given

(* A search goes on to the fetch, to the next round or to the unlock.       *)
LEMMA SearchMessagesStep ==
    ASSUME MailInv, NEW a \in Actors, SearchMessages(a)
    PROVE  Continues(a)
<1>1. op[a] \in Ops /\ OpOK(op[a]) /\ op[a].pc = "search" /\ owner' = owner
    BY DEF MailInv, SearchMessages
<1>2. \E o : GoesOn(a, o)
  <2>1. CASE op' = [op EXCEPT ![a].pc = "unlock"]
    BY <1>1, <2>1, GotoGoesOn DEF Working, Labels
  <2>2. ASSUME NEW m \in SearchResult(op[a].folder, op[a].floor),
               uid[m] \in op[a].skip,
               op' = [op EXCEPT ![a] = RoundOver(a, TRUE)]
        PROVE  \E o : GoesOn(a, o)
    BY <1>1, <2>2, RoundOverGoesOn DEF Working, Labels
  <2>3. ASSUME NEW m \in SearchResult(op[a].folder, op[a].floor),
               op' = [op EXCEPT ![a] = Finds(a, m)]
        PROVE  \E o : GoesOn(a, o)
    <3> DEFINE n == IF a = Ticker /\ op[a].floor > uid[m] THEN op[a].floor ELSE uid[m] + 1
               o == [op[a] EXCEPT !.pc = "fetch", !.hit = uid[m], !.found = m, !.floor = n]
    <3>1. m \in Messages /\ uid[m] \in Nat /\ n \in Nat
        BY <1>1 DEF SearchResult, Found, MailInv, MailOK, Ops
    <3>2. op' = [op EXCEPT ![a] = o]
        BY <2>3 DEF Finds
    <3> HIDE DEF n
    <3>3. o \in Ops /\ o.sess = op[a].sess /\ o.pc = "fetch"
        BY <1>1, <3>1 DEF Ops, Labels
    <3>4. GoesOn(a, o)
        BY <1>1, <3>2, <3>3 DEF GoesOn, OpOK, Working, Labels
    <3> QED
        BY <3>4
  <2>4. CASE \E m \in SearchResult(op[a].folder, op[a].floor) :
               op' = [op EXCEPT ![a] = IF uid[m] \in op[a].skip THEN RoundOver(a, TRUE)
                                       ELSE Finds(a, m)]
    BY <2>2, <2>3, <2>4
  <2> QED
    BY <2>1, <2>4 DEF SearchMessages
<1>3. sel' \in [Sessions -> Folders \cup {Nowhere}]
    BY <1>1 DEF MailInv, SearchMessages, SessionsOK, Ops
<1> QED
    BY <1>2, <1>3 DEF Continues, SearchMessages, MailInv, MailOK, SessionsOK, GhostsOK,
        GivenOK, mail, ghosts, given

(* A failed fetch goes on to the next round.                                *)
LEMMA FetchFailsStep ==
    ASSUME MailInv, NEW a \in Actors, FetchFails(a)
    PROVE  Continues(a)
<1>1. \E o : GoesOn(a, o)
    BY RoundOverGoesOn DEF FetchFails, sessions, Working, Labels
<1> QED
    BY <1>1 DEF Continues, FetchFails, MailInv, MailOK, SessionsOK, GhostsOK, GivenOK,
        mail, sessions, ghosts, given

(* A fetched message is matched, under the lock of the search.              *)
LEMMA FetchMessageStep ==
    ASSUME MailInv, NEW a \in Actors, FetchMessage(a)
    PROVE  Continues(a)
<1>1. op[a] \in Ops /\ OpOK(op[a]) /\ op[a].pc = "fetch" /\ owner' = owner
    BY DEF MailInv, FetchMessage, sessions
<1>2. PICK m \in Messages :
        /\ strays' = strays \cup ({m} \ {op[a].found})
        /\ op' = [op EXCEPT ![a] =
             IF a \notin Processors THEN RoundOver(a, TRUE)
             ELSE IF outcome[m].err THEN RoundOver(a, a = Ticker)
             ELSE IF outcome[m].match
                  THEN [op[a] EXCEPT !.pc = "exec", !.msg = m, !.acts = outcome[m].acts]
             ELSE [RoundOver(a, TRUE) EXCEPT
                      !.skip = IF a = Ticker THEN @ \cup {op[a].hit} ELSE @]]
    BY DEF FetchMessage, At
<1>3. \E o : GoesOn(a, o)
  <2>1. ASSUME NEW c \in BOOLEAN, op' = [op EXCEPT ![a] = RoundOver(a, c)]
        PROVE  \E o : GoesOn(a, o)
    BY <1>1, <2>1, RoundOverGoesOn DEF Working, Labels
  <2>2. CASE op' = [op EXCEPT ![a] = [op[a] EXCEPT !.pc = "exec", !.msg = m,
                                                   !.acts = outcome[m].acts]]
    <3> DEFINE o == [op[a] EXCEPT !.pc = "exec", !.msg = m, !.acts = outcome[m].acts]
    <3>1. outcome[m].acts \in Seq(Actions)
        BY MailAssumption DEF MailInv, GivenOK
    <3>2. o \in Ops /\ o.sess = op[a].sess /\ o.pc = "exec"
        BY <1>1, <3>1 DEF Ops, Labels
    <3>3. GoesOn(a, o)
        BY <1>1, <2>2, <3>2 DEF GoesOn, OpOK, Working, Labels
    <3> QED
        BY <3>3
  <2>3. CASE op' = [op EXCEPT ![a] =
                      [RoundOver(a, TRUE) EXCEPT
                          !.skip = IF a = Ticker THEN @ \cup {op[a].hit} ELSE @]]
    <3> DEFINE r == RoundOver(a, TRUE)
               k == IF a = Ticker THEN r.skip \cup {op[a].hit} ELSE r.skip
               o == [r EXCEPT !.skip = k]
    <3>1. r \in Ops /\ r.sess = op[a].sess /\ r.pc = "search"
        BY RoundOverFact DEF MailInv
    <3> HIDE DEF r
    <3>2. k \in SUBSET Nat
        BY <1>1, <3>1 DEF Ops
    <3>3. op' = [op EXCEPT ![a] = o]
        BY <2>3 DEF r
    <3> HIDE DEF k
    <3>4. o \in Ops /\ o.sess = op[a].sess /\ o.pc = "search"
        BY <3>1, <3>2 DEF Ops
    <3>5. GoesOn(a, o)
        BY <1>1, <3>3, <3>4 DEF GoesOn, OpOK, Working, Labels
    <3> QED
        BY <3>5
  <2> QED
    BY <1>2, <2>1, <2>2, <2>3
<1>4. GhostsOK'
    BY <1>2 DEF MailInv, GhostsOK, FetchMessage
<1> QED
    BY <1>3, <1>4 DEF Continues, FetchMessage, MailInv, MailOK, SessionsOK, GivenOK,
        mail, sessions, given

-----------------------------------------------------------------------------
(* executeActions.                                                          *)

(* It takes the current session for its commands and counts the run.        *)
LEMMA ExecuteActionsStep ==
    ASSUME MailInv, NEW a \in Actors, ExecuteActions(a)
    PROVE  Continues(a)
<1> DEFINE o == [op[a] EXCEPT !.pc = "act", !.exec = cur, !.eff = op[a].hit]
<1>1. op[a] \in Ops /\ OpOK(op[a]) /\ op[a].pc = "exec" /\ owner' = owner
      /\ op' = [op EXCEPT ![a] = o]
    BY DEF MailInv, ExecuteActions, sessions
<1>2. o \in Ops /\ o.sess = op[a].sess /\ o.pc = "act"
    BY <1>1 DEF Ops, Labels, MailInv, SessionsOK
<1>3. GoesOn(a, o)
    BY <1>1, <1>2 DEF GoesOn, OpOK, Working, Labels
<1>4. GhostsOK'
  <2>1. strays' = strays /\ runs \in [Messages -> 0..2] /\ strays \subseteq Messages
    BY DEF MailInv, GhostsOK, ExecuteActions
  <2>2. runs' = [m \in Messages |->
                    IF m = op[a].msg /\ a = Ticker /\ runs[m] < 2 THEN runs[m] + 1
                    ELSE runs[m]]
    BY <2>1 DEF ExecuteActions
  <2> QED
    BY <2>1, <2>2 DEF GhostsOK
<1> QED
    BY <1>3, <1>4 DEF Continues, ExecuteActions, MailInv, MailOK, SessionsOK, GivenOK,
        mail, sessions, given

(* The next action of the rule, with the list of actions shortened.         *)
LEMMA NextActionGoesOn ==
    ASSUME MailInv, NEW a \in Actors, HasAction(a, ActionTypes), owner' = owner,
           NextAction(a)
    PROVE  \E o : GoesOn(a, o)
<1> DEFINE o == [op[a] EXCEPT !.acts = Tail(@)]
<1>1. op[a] \in Ops /\ OpOK(op[a]) /\ op[a].pc = "act" /\ op[a].acts # <<>>
      /\ op' = [op EXCEPT ![a] = o]
    BY DEF MailInv, HasAction, NextAction
<1>2. Tail(op[a].acts) \in Seq(Actions)
    BY <1>1, ActionsFact DEF Ops
<1>3. o \in Ops /\ o.sess = op[a].sess /\ o.pc = "act"
    BY <1>1, <1>2 DEF Ops
<1>4. GoesOn(a, o)
    BY <1>1, <1>3 DEF GoesOn, OpOK, Working, Labels
<1> QED
    BY <1>4

(* A failed action goes on to the next one.                                 *)
LEMMA ActionSkippedStep ==
    ASSUME MailInv, NEW a \in Actors, ActionSkipped(a)
    PROVE  Continues(a)
<1>1. HasAction(a, ActionTypes)
    BY DEF ActionSkipped, HasAction, ActionTypes
<1>2. \E o : GoesOn(a, o)
    BY <1>1, NextActionGoesOn DEF ActionSkipped, sessions
<1> QED
    BY <1>2 DEF Continues, ActionSkipped, MailInv, MailOK, SessionsOK, GhostsOK, GivenOK,
        mail, sessions, ghosts, given

(* The destination of a move is a folder.                                   *)
LEMMA MoveDestFact ==
    ASSUME NEW a \in Actors, op[a] \in Ops, op[a].acts # <<>>
    PROVE  MoveDest(a) \in Folders
BY ActionsFact, MailAssumption DEF Ops, MoveDest, Action

(* A MOVE puts the message in a folder under a UID of that folder.          *)
LEMMA MoveMessageStep ==
    ASSUME MailInv, NEW a \in Actors, MoveMessage(a)
    PROVE  Continues(a)
<1>1. op[a] \in Ops /\ OpOK(op[a]) /\ op[a].pc = "act" /\ op[a].acts # <<>>
      /\ UNCHANGED <<sessions, given, runs>>
    BY DEF MailInv, MoveMessage, HasAction
<1>2. MoveDest(a) \in Folders
    BY <1>1, MoveDestFact
<1>3. ASSUME op' = [op EXCEPT ![a].acts = <<>>]
      PROVE  \E o : GoesOn(a, o)
  <2> DEFINE o == [op[a] EXCEPT !.acts = <<>>]
  <2>1. o \in Ops /\ o.sess = op[a].sess /\ o.pc = "act"
    BY <1>1, ActionsFact DEF Ops
  <2>2. op' = [op EXCEPT ![a] = o]
    BY <1>3
  <2>3. GoesOn(a, o)
    BY <1>1, <2>1, <2>2 DEF GoesOn, OpOK, Working, Labels, sessions
  <2> QED
    BY <2>3
<1>4. ASSUME op' = [op EXCEPT ![a] = [op[a] EXCEPT !.pc = "select", !.moved = TRUE,
                                                   !.eff = uidNext[MoveDest(a)]]]
      PROVE  \E o : GoesOn(a, o)
  <2> DEFINE o == [op[a] EXCEPT !.pc = "select", !.moved = TRUE, !.eff = uidNext[MoveDest(a)]]
  <2>1. uidNext[MoveDest(a)] \in Nat
    BY <1>2 DEF MailInv, MailOK
  <2>2. o \in Ops /\ o.sess = op[a].sess /\ o.pc = "select" /\ o.acts = op[a].acts
    BY <1>1, <2>1 DEF Ops, Labels
  <2>3. GoesOn(a, o)
    BY <1>1, <1>4, <2>2 DEF GoesOn, OpOK, Working, Labels, sessions
  <2> QED
    BY <2>3
<1>5. CASE UNCHANGED <<mail, strays>> /\ op' = [op EXCEPT ![a].acts = <<>>]
    BY <1>1, <1>3, <1>5 DEF Continues, MailInv, MailOK, SessionsOK, GhostsOK, GivenOK,
        mail, sessions, given
<1>6. ASSUME NEW m \in Messages, NEW reported \in BOOLEAN,
             Put(m, MoveDest(a)),
             strays' = strays \cup ({m} \ {op[a].found}),
             op' = [op EXCEPT ![a] =
                      IF reported THEN [op[a] EXCEPT !.pc = "select", !.moved = TRUE,
                                                     !.eff = uidNext[MoveDest(a)]]
                      ELSE [op[a] EXCEPT !.acts = <<>>]],
             UNCHANGED seen
      PROVE  Continues(a)
  <2>1. \E o : GoesOn(a, o)
    BY <1>3, <1>4, <1>6
  <2>2. MailOK'
    BY <1>2, <1>6 DEF MailInv, MailOK, Put
  <2> QED
    BY <1>1, <1>6, <2>1, <2>2 DEF Continues, MailInv, SessionsOK, GhostsOK, GivenOK,
        sessions, given
<1> QED
    BY <1>5, <1>6, MailAssumption DEF MoveMessage, At

(* Selecting the destination of a move ends that action.                    *)
LEMMA SelectMailboxStep ==
    ASSUME MailInv, NEW a \in Actors, SelectMailbox(a)
    PROVE  Continues(a)
<1> DEFINE o == [op[a] EXCEPT !.pc = "act", !.acts = Tail(op[a].acts)]
<1>1. /\ op[a] \in Ops /\ OpOK(op[a])
      /\ op[a].pc = "select" /\ owner' = owner
      /\ op' = [op EXCEPT ![a] = o]
    BY DEF MailInv, SelectMailbox
<1>2. Tail(op[a].acts) \in Seq(Actions) /\ MoveDest(a) \in Folders
    BY <1>1, ActionsFact, MoveDestFact DEF Ops, OpOK
<1>3. o \in Ops /\ o.sess = op[a].sess /\ o.pc = "act"
    BY <1>1, <1>2 DEF Ops, Labels
<1>4. GoesOn(a, o)
    BY <1>1, <1>3 DEF GoesOn, OpOK, Working, Labels
<1>5. sel' \in [Sessions -> Folders \cup {Nowhere}]
    BY <1>2 DEF MailInv, SelectMailbox, SessionsOK
<1> QED
    BY <1>4, <1>5 DEF Continues, SelectMailbox, MailInv, MailOK, SessionsOK, GhostsOK,
        GivenOK, mail, ghosts, given

(* STORE changes flags only.                                                *)
LEMMA StoreSeenFact ==
    ASSUME MailInv, NEW a \in Actors, NEW s, NEW u, NEW value \in BOOLEAN,
           StoreSeen(a, s, u, value)
    PROVE  MailOK' /\ SessionsOK' /\ GhostsOK' /\ GivenOK' /\ owner' = owner
BY DEF StoreSeen, MailInv, MailOK, SessionsOK, GhostsOK, GivenOK, At, sessions, given

(* An action that sets or clears \Seen changes flags only.                  *)
LEMMA MarkAsStep ==
    ASSUME MailInv, NEW a \in Actors, MarkAs(a)
    PROVE  Continues(a)
<1>1. HasAction(a, ActionTypes)
    BY DEF MarkAs, HasAction, ActionTypes
<1>2. MailOK' /\ SessionsOK' /\ GhostsOK' /\ GivenOK' /\ owner' = owner
    BY StoreSeenFact DEF MarkAs
<1>3. \E o : GoesOn(a, o)
    BY <1>1, <1>2, NextActionGoesOn DEF MarkAs
<1> QED
    BY <1>2, <1>3 DEF Continues

(* After the last action the message is marked handled or has moved.        *)
LEMMA ActionsDoneStep ==
    ASSUME MailInv, NEW a \in Actors, ActionsDone(a)
    PROVE  Continues(a)
<1>1. op[a].pc \in Working /\ owner' = owner
    BY DEF ActionsDone, Working, Labels, sessions
<1>2. CASE op[a].moved
  <2>1. \E o : GoesOn(a, o)
    BY <1>1, <1>2, RoundOverGoesOn DEF ActionsDone
  <2> QED
    BY <2>1 DEF Continues, ActionsDone, MailInv, MailOK, SessionsOK, GhostsOK, GivenOK,
        mail, sessions, ghosts, given
<1>3. CASE ~op[a].moved
  <2>1. \E o : GoesOn(a, o)
    BY <1>1, <1>3, GotoGoesOn DEF ActionsDone, Working, Labels
  <2> QED
    BY <2>1 DEF Continues, ActionsDone, MailInv, MailOK, SessionsOK, GhostsOK, GivenOK,
        mail, sessions, ghosts, given
<1> QED
    BY <1>2, <1>3

(* Marking a message handled ends its round.                                *)
LEMMA MarkHandledStep ==
    ASSUME MailInv, NEW a \in Actors, MarkHandled(a)
    PROVE  Continues(a)
<1>1. MailOK' /\ SessionsOK' /\ GhostsOK' /\ GivenOK' /\ owner' = owner
  <2>1. CASE StoreSeen(a, op[a].sess, op[a].hit, TRUE)
    BY <2>1, StoreSeenFact
  <2>2. CASE UNCHANGED <<mail, sessions, given, ghosts>>
    BY <2>2 DEF MailInv, MailOK, SessionsOK, GhostsOK, GivenOK, mail, sessions, ghosts, given
  <2> QED
    BY <2>1, <2>2 DEF MarkHandled
<1>2. \E o : GoesOn(a, o)
    BY <1>1, RoundOverGoesOn DEF MarkHandled, Working, Labels
<1> QED
    BY <1>1, <1>2 DEF Continues

-----------------------------------------------------------------------------
(* Seeding.                                                                 *)

(* A seeding selects a folder and lists what it has to fetch there.         *)
LEMMA SeedFolderStep ==
    ASSUME MailInv, NEW a \in Actors, SeedFolder(a)
    PROVE  Continues(a)
<1>1. op[a] \in Ops /\ OpOK(op[a]) /\ op[a].pc = "folders" /\ owner' = owner
    BY DEF MailInv, SeedFolder
<1>2. PICK f \in op[a].left :
        /\ sel' = [sel EXCEPT ![op[a].sess] = f]
        /\ op' = [op EXCEPT ![a] =
                    [op[a] EXCEPT !.pc = "collect", !.left = op[a].left \ {f},
                                  !.todo = {[m |-> m, uid |-> uid[m]] : m \in Found(f)}]]
    BY DEF SeedFolder
<1> DEFINE t == {[m |-> m, uid |-> uid[m]] : m \in Found(f)}
           l == op[a].left \ {f}
           o == [op[a] EXCEPT !.pc = "collect", !.left = l, !.todo = t]
<1>3. t \in SUBSET [m : Messages, uid : Nat] /\ l \in SUBSET Folders /\ f \in Folders
    BY <1>1 DEF Found, MailInv, MailOK, Ops
<1>4. op' = [op EXCEPT ![a] = o]
    BY <1>2
<1> HIDE DEF t, l
<1>5. o \in Ops /\ o.sess = op[a].sess /\ o.pc = "collect"
    BY <1>1, <1>3 DEF Ops, Labels
<1>6. GoesOn(a, o)
    BY <1>1, <1>4, <1>5 DEF GoesOn, OpOK, Working, Labels
<1>7. sel' \in [Sessions -> Folders \cup {Nowhere}]
    BY <1>2, <1>3 DEF MailInv, SessionsOK
<1> QED
    BY <1>6, <1>7 DEF Continues, SeedFolder, MailInv, MailOK, SessionsOK, GhostsOK, GivenOK,
        mail, ghosts, given

(* A folder that cannot be searched is passed over.                         *)
LEMMA SeedFolderFailsStep ==
    ASSUME MailInv, NEW a \in Actors, SeedFolderFails(a)
    PROVE  Continues(a)
<1>1. op[a] \in Ops /\ OpOK(op[a]) /\ op[a].pc = "folders" /\ owner' = owner
    BY DEF MailInv, SeedFolderFails
<1>2. PICK f \in op[a].left :
        /\ IF op[a].sess \in closed THEN UNCHANGED sel
           ELSE \E g \in {f, Nowhere} : sel' = [sel EXCEPT ![op[a].sess] = g]
        /\ op' = [op EXCEPT ![a] = [op[a] EXCEPT !.left = op[a].left \ {f}]]
    BY DEF SeedFolderFails
<1> DEFINE o == [op[a] EXCEPT !.left = op[a].left \ {f}]
<1>3. f \in Folders
    BY <1>1 DEF Ops
<1>4. o \in Ops /\ o.sess = op[a].sess /\ o.pc = "folders"
    BY <1>1 DEF Ops
<1>5. GoesOn(a, o)
    BY <1>1, <1>2, <1>4 DEF GoesOn, OpOK, Working, Labels
<1>6. sel' \in [Sessions -> Folders \cup {Nowhere}]
    BY <1>2, <1>3 DEF MailInv, SessionsOK
<1> QED
    BY <1>5, <1>6 DEF Continues, SeedFolderFails, MailInv, MailOK, SessionsOK, GhostsOK,
        GivenOK, mail, ghosts, given

(* A seeding fetches one message after the other.                           *)
LEMMA SeedFetchStep ==
    ASSUME MailInv, NEW a \in Actors, SeedFetch(a)
    PROVE  Continues(a)
<1>1. op[a] \in Ops /\ OpOK(op[a]) /\ op[a].pc = "collect" /\ owner' = owner
    BY DEF MailInv, SeedFetch, sessions
<1>2. PICK t \in op[a].todo :
        /\ op' = [op EXCEPT ![a] = [op[a] EXCEPT !.todo = op[a].todo \ {t}]]
        /\ \/ strays' = strays \cup (At(op[a].sess, t.uid) \ {t.m})
           \/ UNCHANGED strays
    BY DEF SeedFetch
<1> DEFINE o == [op[a] EXCEPT !.todo = op[a].todo \ {t}]
<1>3. o \in Ops /\ o.sess = op[a].sess /\ o.pc = "collect"
    BY <1>1 DEF Ops
<1>4. GoesOn(a, o)
    BY <1>1, <1>2, <1>3 DEF GoesOn, OpOK, Working, Labels
<1>5. GhostsOK'
    BY <1>2 DEF MailInv, GhostsOK, SeedFetch, At
<1> QED
    BY <1>4, <1>5 DEF Continues, SeedFetch, MailInv, MailOK, SessionsOK, GivenOK,
        mail, sessions, given

(* A seeding goes on to the next folder, and after the last to the unlock.  *)
LEMMA SeedNextStep ==
    ASSUME MailInv, NEW a \in Actors, SeedNext(a)
    PROVE  Continues(a)
<1>1. \E o : GoesOn(a, o)
    BY GotoGoesOn DEF SeedNext, sessions, Working, Labels
<1> QED
    BY <1>1 DEF Continues, SeedNext, MailInv, MailOK, SessionsOK, GhostsOK, GivenOK,
        mail, sessions, ghosts, given

(* Every such step preserves the invariant.                                 *)
LEMMA ContinuesKeeps ==
    ASSUME MailInv, NEW a \in Actors, Continues(a)
    PROVE  MailInv'
<1>1. PICK o : GoesOn(a, o)
    BY DEF Continues
<1>2. op' \in [Actors -> Ops] /\ (\A b \in Actors : OpOK(op'[b])) /\ LockHeld'
    BY <1>1, GoesOnFact
<1> QED
    BY <1>2 DEF Continues, MailInv

-----------------------------------------------------------------------------
(* Starting, locking and unlocking.                                         *)

(* An operation begins unlocked; only a dashboard seeding skips the lock.   *)
LEMMA BeginStep ==
    ASSUME MailInv, NEW a \in Actors, NEW o \in Ops, Begin(a, o), o.sess \in Sessions,
           o.pc = "lock" \/ (o.pc = "folders" /\ a \in WebSeeders)
    PROVE  MailInv'
<1>1. OpOK(o)
    BY DEF OpOK
<1>2. /\ op' = [op EXCEPT ![a] = o]
      /\ UNCHANGED <<mail, sessions, given, ghosts>>
    BY DEF Begin
<1>3. MailOK' /\ SessionsOK' /\ GhostsOK' /\ GivenOK'
    BY <1>2 DEF MailInv, MailOK, SessionsOK, GhostsOK, GivenOK, mail, sessions, given, ghosts
<1>4. op' \in [Actors -> Ops] /\ \A b \in Actors : OpOK(op'[b])
    BY <1>1, <1>2 DEF MailInv
<1>5. LockHeld'
    BY <1>2 DEF MailInv, LockHeld, Locked, sessions
<1> QED
    BY <1>3, <1>4, <1>5 DEF MailInv

(* The local variables of an operation that has not begun.                  *)
LEMMA IdleFact ==
    Idle \in Ops /\ Idle.pc = "idle"
BY ActionsFact, MailAssumption DEF Idle, Ops, Labels

(* The four ways to begin.                                                  *)
LEMMA BeginsStep ==
    ASSUME MailInv,
           \/ BeginTick
           \/ \E a \in Applies : BeginApply(a)
           \/ \E a \in Testers : BeginTest(a)
           \/ \E a \in Seeders : BeginSeed(a)
    PROVE  MailInv'
<1>1. cur \in Sessions /\ Startup \in Sessions
    BY MailAssumption DEF MailInv, SessionsOK
<1>2. CASE BeginTick
  <2> DEFINE o == [Idle EXCEPT !.pc = "lock", !.sess = cur]
  <2>1. o \in Ops /\ o.pc = "lock" /\ o.sess = cur
    BY <1>1, IdleFact DEF Ops, Labels
  <2>2. Begin(Ticker, o) /\ Ticker \in Actors
    BY <1>2 DEF BeginTick, Actors, Processors
  <2> QED
    BY <1>1, <2>1, <2>2, BeginStep
<1>3. ASSUME NEW a \in Actors, NEW f \in Folders, NEW s \in Sessions,
             Begin(a, [Idle EXCEPT !.pc = "lock", !.sess = s, !.folder = f])
      PROVE  MailInv'
  <2> DEFINE o == [Idle EXCEPT !.pc = "lock", !.sess = s, !.folder = f]
  <2>1. o \in Ops /\ o.pc = "lock" /\ o.sess = s
    BY IdleFact DEF Ops, Labels
  <2> QED
    BY <1>3, <2>1, BeginStep
<1>4. CASE \E a \in Applies : BeginApply(a)
    BY <1>1, <1>3, <1>4 DEF BeginApply, Actors, Processors
<1>5. CASE \E a \in Testers : BeginTest(a)
    BY <1>1, <1>3, <1>5 DEF BeginTest, Actors
<1>6. ASSUME NEW a \in Seeders, BeginSeed(a)
      PROVE  MailInv'
  <2> DEFINE label == IF a \in MCPSeeders THEN "lock" ELSE "folders"
             o == [Idle EXCEPT !.pc = label, !.sess = Startup, !.left = Folders]
  <2>1. label = "lock" \/ (label = "folders" /\ a \in WebSeeders)
    BY DEF Seeders
  <2>2. Begin(a, o) /\ a \in Actors
    BY <1>6 DEF BeginSeed, Actors
  <2> HIDE DEF label
  <2>3. o \in Ops /\ o.pc = label /\ o.sess = Startup
    BY <1>1, <2>1, IdleFact DEF Ops, Labels
  <2> QED
    BY <1>1, <2>1, <2>2, <2>3, BeginStep
<1> QED
    BY <1>2, <1>4, <1>5, <1>6

(* A lock is only taken from nobody, so that no other owner loses it.       *)
LEMMA LockSessionStep ==
    ASSUME MailInv, NEW a \in Actors, LockSession(a)
    PROVE  MailInv'
<1> DEFINE label == IF op[a].left # {} THEN "folders" ELSE "search"
           o == [op[a] EXCEPT !.pc = label]
<1>1. /\ op[a] \in Ops /\ OpOK(op[a]) /\ op[a].pc = "lock" /\ op[a].sess \in Sessions
      /\ owner[op[a].sess] = Nobody
      /\ owner' = [owner EXCEPT ![op[a].sess] = a]
      /\ op' = [op EXCEPT ![a] = o]
      /\ UNCHANGED <<mail, sel, cur, retired, closed, given, ghosts>>
    BY DEF MailInv, OpOK, LockSession
<1>2. label \in {"folders", "search"}
    OBVIOUS
<1> HIDE DEF label
<1>3. o \in Ops /\ OpOK(o) /\ o.sess = op[a].sess
    BY <1>1, <1>2 DEF Ops, OpOK, Labels
<1> HIDE DEF o
<1>4. op' \in [Actors -> Ops] /\ \A b \in Actors : OpOK(op'[b])
    BY <1>1, <1>3 DEF MailInv
<1>5. MailOK' /\ SessionsOK' /\ GhostsOK' /\ GivenOK'
    BY <1>1 DEF MailInv, MailOK, SessionsOK, GhostsOK, GivenOK, mail, given, ghosts
<1>6. ASSUME NEW b \in Actors, Locked(b)'
      PROVE  owner'[op'[b].sess] = b
  <2>1. CASE b = a
    BY <1>1, <1>3, <2>1 DEF MailInv, SessionsOK
  <2>2. CASE b # a
    <3>1. op'[b] = op[b] /\ Locked(b)
        BY <1>1, <1>6, <2>2 DEF MailInv, Locked
    <3>2. owner[op[b].sess] = b /\ op[b].sess \in Sessions
        BY <3>1 DEF MailInv, LockHeld, Locked, OpOK
    <3>3. op[b].sess # op[a].sess
        BY <1>1, <3>2, MailAssumption
    <3> QED
        BY <1>1, <3>1, <3>2, <3>3 DEF MailInv, SessionsOK
  <2> QED
    BY <2>1, <2>2
<1> QED
    BY <1>4, <1>5, <1>6 DEF MailInv, LockHeld

(* The deferred unlock releases the operation's own lock only.              *)
LEMMA UnlockSessionStep ==
    ASSUME MailInv, NEW a \in Actors, UnlockSession(a)
    PROVE  MailInv'
<1>1. /\ owner' = [s \in Sessions |-> IF owner[s] = a THEN Nobody ELSE owner[s]]
      /\ op' = [op EXCEPT ![a] = Idle]
      /\ UNCHANGED <<mail, sel, cur, retired, closed, given, ghosts>>
    BY DEF UnlockSession
<1>2. OpOK(Idle)
    BY IdleFact DEF OpOK
<1>3. op' \in [Actors -> Ops] /\ \A b \in Actors : OpOK(op'[b])
    BY <1>1, <1>2, IdleFact DEF MailInv
<1>4. MailOK' /\ SessionsOK' /\ GhostsOK' /\ GivenOK'
    BY <1>1 DEF MailInv, MailOK, SessionsOK, GhostsOK, GivenOK, mail, given, ghosts
<1>5. ASSUME NEW b \in Actors, Locked(b)'
      PROVE  owner'[op'[b].sess] = b
  <2>1. b # a
    BY <1>1, <1>5, IdleFact DEF MailInv, Locked
  <2>2. op'[b] = op[b] /\ Locked(b)
    BY <1>1, <1>5, <2>1 DEF MailInv, Locked
  <2>3. owner[op[b].sess] = b /\ op[b].sess \in Sessions
    BY <2>2 DEF MailInv, LockHeld, Locked, OpOK
  <2> QED
    BY <1>1, <2>1, <2>2, <2>3
<1> QED
    BY <1>3, <1>4, <1>5 DEF MailInv, LockHeld

-----------------------------------------------------------------------------
(* A reconnect, the arrival or removal of mail, and a step that changes     *)
(* nothing leave operations and locks alone.                                *)
LEMMA OthersStep ==
    ASSUME MailInv, Swap \/ CloseRetired \/ Environment \/ UNCHANGED vars
    PROVE  MailInv'
<1>1. op' = op /\ owner' = owner
    BY DEF Swap, CloseRetired, Environment, Deliver, UserRemoves, vars, sessions
<1>2. SessionsOK' /\ GhostsOK' /\ GivenOK'
    BY DEF MailInv, SessionsOK, GhostsOK, GivenOK, Swap, CloseRetired, Environment,
        Deliver, UserRemoves, vars, sessions, given, ghosts
<1>3. MailOK'
    BY MailAssumption DEF MailInv, MailOK, Swap, CloseRetired, Environment, Deliver,
        UserRemoves, Put, vars, mail
<1>4. LockHeld'
    BY <1>1 DEF MailInv, LockHeld, Locked
<1> QED
    BY <1>1, <1>2, <1>3, <1>4 DEF MailInv, OpOK

(* Initially every operation is idle and every session unlocked.            *)
LEMMA MailInit ==
    Init => MailInv
<1> SUFFICES ASSUME Init
             PROVE  MailInv
    OBVIOUS
<1>1. Cardinality(Messages) \in Nat
    BY MailAssumption, FS_CardinalityType
<1>2. Cardinality({m \in Messages : loc[m] = Source}) \in Nat
  <2>1. IsFiniteSet({m \in Messages : loc[m] = Source})
    BY MailAssumption, FS_Subset
  <2> QED
    BY <2>1, FS_CardinalityType
<1>3. MailOK
  <2>1. uid \in [Messages -> Nat]
    BY <1>1 DEF Init
  <2>2. uidNext \in [Folders -> Nat \ {0}]
    BY <1>2 DEF Init
  <2> QED
    BY <2>1, <2>2, MailAssumption DEF Init, MailOK
<1>4. SessionsOK /\ GhostsOK /\ GivenOK
    BY MailAssumption DEF Init, SessionsOK, GhostsOK, GivenOK
<1>5. op = [a \in Actors |-> Idle]
    BY DEF Init
<1>6. op \in [Actors -> Ops] /\ (\A a \in Actors : OpOK(op[a])) /\ LockHeld
    BY <1>5, IdleFact DEF OpOK, LockHeld, Locked
<1> QED
    BY <1>3, <1>4, <1>6 DEF MailInv

(* Every step preserves the invariant.                                      *)
LEMMA MailNext ==
    MailInv /\ [Next]_vars => MailInv'
<1> SUFFICES ASSUME MailInv, [Next]_vars
             PROVE  MailInv'
    OBVIOUS
<1>1. ASSUME NEW a \in Actors, Step(a)
      PROVE  MailInv'
  <2>1. CASE LockSession(a)
    BY <2>1, LockSessionStep
  <2>2. CASE UnlockSession(a)
    BY <2>2, UnlockSessionStep
  <2>3. CASE Round(a)
    <3>1. Continues(a)
        BY <2>3, LimitReachedStep, SearchFailsStep, SearchMessagesStep, FetchFailsStep,
            FetchMessageStep DEF Round
    <3> QED
        BY <3>1, ContinuesKeeps
  <2> QED
    BY <1>1, <2>1, <2>2, <2>3 DEF Step
<1>2. ASSUME NEW a \in Processors, Execute(a)
      PROVE  MailInv'
  <2>1. a \in Actors
    BY DEF Actors
  <2>2. Continues(a)
    BY <1>2, <2>1, ExecuteActionsStep, ActionSkippedStep, MoveMessageStep, SelectMailboxStep,
        MarkAsStep, ActionsDoneStep, MarkHandledStep DEF Execute
  <2> QED
    BY <2>1, <2>2, ContinuesKeeps
<1>3. ASSUME NEW a \in Seeders, Seed(a)
      PROVE  MailInv'
  <2>1. a \in Actors
    BY DEF Actors
  <2>2. Continues(a)
    BY <1>3, <2>1, SeedFolderStep, SeedFolderFailsStep, SeedFetchStep, SeedNextStep DEF Seed
  <2> QED
    BY <2>1, <2>2, ContinuesKeeps
<1> QED
    BY <1>1, <1>2, <1>3, BeginsStep, OthersStep DEF Next

-----------------------------------------------------------------------------
(* MailInv is an invariant of the sessions and the operations on them.      *)
THEOREM MailInvariant == Spec => []MailInv
BY MailInit, MailNext, PTL DEF Spec

(* LockSession and the deferred unlock of runTick, ApplyToFolder, the rule  *)
(* test and the MCP seeding: whatever the commands in between do, however   *)
(* many operations there are and however often the poller reconnects, an    *)
(* operation past LockSession owns the session it locked.                   *)
THEOREM LocksAreHeld == Spec => []LockHeld
<1>1. MailInv => LockHeld
    BY DEF MailInv
<1> QED
    BY <1>1, MailInvariant, PTL

(* The state of mailboxes, sessions and operations keeps its types: a UID   *)
(* is a number, a move puts a message in a folder, a count never sinks      *)
(* below 0.                                                                 *)
THEOREM MailTypes == Spec => []TypeOK
<1>1. MailInv => TypeOK
    BY DEF MailInv, MailOK, SessionsOK, GhostsOK, GivenOK, TypeOK
<1> QED
    BY <1>1, MailInvariant, PTL
-----------------------------------------------------------------------------
(* Nothing goes astray while every operation locks and the poller keeps its *)
(* first session.                                                           *)

(* The only message in folder f under UID u, now and after more mail, is x. *)
Aim(f, u, x) ==
    f # Nowhere => /\ u < uidNext[f]
                   /\ \A m \in Messages : loc[m] = f /\ uid[m] = u => m = x

Distinct == \A m \in Messages : Aim(loc[m], uid[m], m)

(* What operation o is about to act on is what its search found. *)
Focus(o) ==
    /\ o.pc \in {"fetch", "exec", "seen"} => Aim(sel[Startup], o.hit, o.found)
    /\ o.pc = "act" => /\ o.exec = Startup
                       /\ Aim(sel[Startup], o.eff, o.found)
                       /\ ~o.moved => o.eff = o.hit
    /\ o.pc = "select" => /\ o.exec = Startup /\ o.moved
                          /\ Aim(IF Head(o.acts).type = "delete" THEN Trash
                                 ELSE Head(o.acts).dest, o.eff, o.found)
    /\ o.pc = "collect" => \A t \in o.todo : Aim(sel[Startup], t.uid, t.m)

(* Until the first reconnect there is one session, used by one operation    *)
(* at a time, that looks at its own message.                                *)
Undisturbed ==
    /\ retired = {} /\ closed = {}
    /\ \A a \in Actors : op[a].pc # "idle" => op[a].sess = Startup
    /\ Distinct
    /\ \A a \in Actors : Focus(op[a])
    /\ NoStrays

AimInv ==
    /\ cur # Startup => Startup \in retired \cup closed
    /\ cur = Startup => Undisturbed

(* The pc values for which Focus asks for something.                        *)
Focused == {"fetch", "exec", "seen", "act", "select", "collect"}

(* What a step may do to the places of mail. *)
MailMoves ==
    \/ UNCHANGED <<loc, uid, uidNext>>
    \/ \E m \in Messages, f \in Folders : Put(m, f)
    \/ \E m \in Messages : loc' = [loc EXCEPT ![m] = Nowhere] /\ UNCHANGED <<uid, uidNext>>

(* Mail that arrives, moves or is removed leaves an aim as it is.           *)
LEMMA AimKept ==
    ASSUME MailOK, Nowhere \notin Folders,
           MailMoves,
           NEW CONSTANT f \in Folders \cup {Nowhere}, NEW CONSTANT u \in Nat, NEW CONSTANT x,
           Aim(f, u, x)
    PROVE  Aim(f, u, x)'
<1>1. CASE UNCHANGED <<loc, uid, uidNext>>
    BY <1>1 DEF Aim
<1>2. ASSUME NEW m \in Messages, NEW g \in Folders, Put(m, g)
      PROVE  Aim(f, u, x)'
  <2>1. CASE f = Nowhere
    BY <2>1 DEF Aim
  <2>2. CASE f # Nowhere
    <3>1. u < uidNext[f] /\ f \in Folders
        BY <2>2 DEF Aim
    <3>2. u < uidNext'[f]
        BY <1>2, <3>1 DEF Put, MailOK
    <3>3. ASSUME NEW k \in Messages, loc'[k] = f, uid'[k] = u
          PROVE  k = x
      <4>1. CASE k = m
        BY <1>2, <3>1, <3>3, <4>1 DEF Put, MailOK
      <4>2. CASE k # m
        BY <1>2, <2>2, <3>3, <4>2 DEF Put, MailOK, Aim
      <4> QED
        BY <4>1, <4>2
    <3> QED
        BY <3>2, <3>3 DEF Aim
  <2> QED
    BY <2>1, <2>2
<1>3. ASSUME NEW m \in Messages, loc' = [loc EXCEPT ![m] = Nowhere], UNCHANGED <<uid, uidNext>>
      PROVE  Aim(f, u, x)'
    BY <1>3 DEF Aim, MailOK
<1> QED
    BY <1>1, <1>2, <1>3 DEF MailMoves

(* UIDs stay distinct.                                                      *)
LEMMA DistinctKept ==
    ASSUME MailOK, Nowhere \notin Folders, Distinct,
           MailMoves
    PROVE  Distinct'
<1>1. CASE UNCHANGED <<loc, uid, uidNext>>
    BY <1>1 DEF Distinct, Aim
<1>2. ASSUME NEW m \in Messages, NEW g \in Folders, Put(m, g)
      PROVE  Distinct'
  <2>1. ASSUME NEW k \in Messages, loc'[k] # Nowhere
        PROVE  uid'[k] < uidNext'[loc'[k]]
    BY <1>2, <2>1 DEF Put, MailOK, Distinct, Aim
  <2>2. ASSUME NEW j \in Messages, NEW k \in Messages, loc'[k] # Nowhere,
               loc'[j] = loc'[k], uid'[j] = uid'[k]
        PROVE  j = k
    <3>1. \A i \in Messages : i # m => loc'[i] = loc[i] /\ uid'[i] = uid[i]
        BY <1>2 DEF Put, MailOK
    <3>2. loc'[m] = g /\ uid'[m] = uidNext[g]
        BY <1>2 DEF Put, MailOK
    <3>3. \A i \in Messages : i # m /\ loc[i] = g => uid[i] < uidNext[g]
        BY DEF Distinct, Aim
    <3>4. \A i \in Messages : uid[i] \in Nat
        BY DEF MailOK
    <3>5. uidNext[g] \in Nat
        BY DEF MailOK
    <3>6. CASE j = m /\ k # m
        BY <3>1, <3>2, <3>3, <3>4, <3>5, <3>6, <2>2
    <3>7. CASE k = m /\ j # m
        BY <3>1, <3>2, <3>3, <3>4, <3>5, <3>7, <2>2
    <3>8. CASE k # m /\ j # m
        BY <3>1, <3>8, <2>2 DEF Distinct, Aim
    <3> QED
        BY <3>6, <3>7, <3>8
  <2> QED
    BY <2>1, <2>2 DEF Distinct, Aim
<1>3. ASSUME NEW m \in Messages, loc' = [loc EXCEPT ![m] = Nowhere], UNCHANGED <<uid, uidNext>>
      PROVE  Distinct'
    BY <1>3 DEF Distinct, Aim, MailOK
<1> QED
    BY <1>1, <1>2, <1>3 DEF MailMoves

(* An aim at the present mailbox, in the terms of the next state.           *)
LEMMA SelAimKept ==
    ASSUME MailInv, MailMoves, sel' = sel, NEW CONSTANT u \in Nat, NEW CONSTANT x,
           Aim(sel[Startup], u, x)
    PROVE  Aim(sel[Startup], u, x)'
<1>1. MailOK /\ sel[Startup] \in Folders \cup {Nowhere} /\ Nowhere \notin Folders
    BY MailAssumption DEF MailInv, SessionsOK
<1>2. ASSUME NEW CONSTANT f, f = sel[Startup]
      PROVE  Aim(sel[Startup], u, x)'
  <2>1. Aim(f, u, x)'
    BY <1>1, <1>2, AimKept DEF Aim
  <2> QED
    BY <1>2, <2>1 DEF Aim
<1> QED
    BY <1>2

(* An operation that does not move keeps its focus while mail moves.        *)
LEMMA FocusKept ==
    ASSUME MailInv, MailMoves, sel' = sel, NEW a \in Actors, op'[a] = op[a], Focus(op[a])
    PROVE  Focus(op[a])'
<1>1. op[a] \in Ops /\ OpOK(op[a]) /\ MailOK /\ Nowhere \notin Folders
    BY MailAssumption DEF MailInv
<1>2. op[a].hit \in Nat /\ op[a].eff \in Nat /\ \A t \in op[a].todo : t.uid \in Nat
    BY <1>1 DEF Ops
<1>3. CASE op[a].pc \in {"fetch", "exec", "seen"}
    BY <1>2, <1>3, SelAimKept DEF Focus, Aim
<1>4. CASE op[a].pc = "act"
    BY <1>2, <1>4, SelAimKept DEF Focus, Aim
<1>5. CASE op[a].pc = "collect"
  <2>1. ASSUME NEW t \in op[a].todo
        PROVE  Aim(sel[Startup], t.uid, t.m)'
    BY <1>2, <1>5, SelAimKept DEF Focus, Aim
  <2> QED
    BY <1>5, <2>1 DEF Focus
<1>6. CASE op[a].pc = "select"
  <2>1. MoveDest(a) \in Folders
    BY <1>1, <1>6, MoveDestFact DEF OpOK
  <2>2. Aim(MoveDest(a), op[a].eff, op[a].found)
    BY <1>6 DEF Focus, MoveDest, Action
  <2>3. MoveDest(a)' = MoveDest(a)
    BY DEF MoveDest, Action
  <2>4. Aim(MoveDest(a), op[a].eff, op[a].found)'
    BY <1>1, <1>2, <2>1, <2>2, <2>3, AimKept DEF Aim
  <2> QED
    BY <1>6, <2>4 DEF Focus, MoveDest, Action
<1>7. CASE op[a].pc \notin Focused
    BY <1>7 DEF Focus, Focused
<1> QED
    BY <1>3, <1>4, <1>5, <1>6, <1>7 DEF Focused

(* An operation at work holds the one lock there is: no other is at work.   *)
LEMMA OneAtWork ==
    ASSUME MailInv, Undisturbed, WebSeeders = {}, NEW a \in Actors, NEW b \in Actors,
           op[a].pc \in Working, op[b].pc \in Working
    PROVE  a = b
<1>1. owner[op[a].sess] = a /\ owner[op[b].sess] = b
    BY DEF MailInv, LockHeld, Locked, Working
<1>2. op[a].sess = Startup /\ op[b].sess = Startup
    BY DEF Undisturbed, Working
<1> QED
    BY <1>1, <1>2

(* A step of an operation at work, which leaves the others where they are:  *)
(* not yet begun or waiting for the lock.                                   *)
LEMMA WorkerStep ==
    ASSUME MailInv, Undisturbed, WebSeeders = {}, NEW a \in Actors, op[a].pc \in Working,
           NEW o, op' = [op EXCEPT ![a] = o], o.sess = op[a].sess \/ o.pc = "idle",
           Focus(op[a])', MailMoves, NoStrays', UNCHANGED <<retired, closed>>
    PROVE  Undisturbed'
<1>1. op \in [Actors -> Ops] /\ op[a].sess = Startup
    BY DEF MailInv, Undisturbed, Working
<1>2. Distinct'
    BY MailAssumption, DistinctKept DEF MailInv, Undisturbed
<1>3. ASSUME NEW b \in Actors
      PROVE  Focus(op[b])' /\ (op'[b].pc # "idle" => op'[b].sess = Startup)
  <2>1. CASE b = a
    BY <1>1, <2>1
  <2>2. CASE b # a
    <3>1. op'[b] = op[b] /\ op[b].pc \notin Working
        BY <1>1, <2>2, OneAtWork
    <3>2. op[b].pc \notin Focused
        BY <3>1 DEF Focused, Working, Labels
    <3> QED
        BY <3>1, <3>2 DEF Focus, Focused, Undisturbed
  <2> QED
    BY <2>1, <2>2
<1> QED
    BY <1>2, <1>3 DEF Undisturbed

(* A step that ends a round or an operation without touching mail.          *)
LEMMA UnfocusedStep ==
    ASSUME MailInv, Undisturbed, NEW a \in Actors, NEW o, op' = [op EXCEPT ![a] = o],
           o.sess = Startup \/ o.pc = "idle", o.pc \notin Focused,
           UNCHANGED <<loc, uid, uidNext, strays, retired, closed>>,
           UNCHANGED sel \/ (op[a].pc \in Working /\ WebSeeders = {})
    PROVE  Undisturbed'
<1>1. op \in [Actors -> Ops]
    BY DEF MailInv
<1>2. MailMoves
    BY DEF MailMoves
<1>3. Distinct' /\ NoStrays'
    BY <1>2, MailAssumption, DistinctKept DEF MailInv, Undisturbed, NoStrays
<1>4. op'[a] = o /\ Focus(op[a])'
    BY <1>1 DEF Focus, Focused
<1>5. ASSUME NEW b \in Actors, b # a
      PROVE  Focus(op[b])' /\ (op'[b].pc # "idle" => op'[b].sess = Startup)
  <2>1. op'[b] = op[b] /\ Focus(op[b])
    BY <1>1, <1>5 DEF Undisturbed
  <2>2. CASE UNCHANGED sel
    BY <1>2, <2>1, <2>2, FocusKept DEF Undisturbed
  <2>3. CASE op[a].pc \in Working /\ WebSeeders = {}
    <3>1. op[b].pc \notin Working
        BY <1>5, <2>3, OneAtWork
    <3>2. op[b].pc \notin Focused
        BY <3>1 DEF Focused, Working, Labels
    <3> QED
        BY <2>1, <3>2 DEF Focus, Focused, Undisturbed
  <2> QED
    BY <2>2, <2>3
<1> QED
    BY <1>3, <1>4, <1>5 DEF Undisturbed

(* A command on the session of an operation with an aim meets its message   *)
(* only.                                                                    *)
LEMMA OnTarget ==
    ASSUME NEW u, NEW x, Aim(sel[Startup], u, x), Ready(Startup)
    PROVE  At(Startup, u) \subseteq {x}
BY DEF Aim, Ready, At

(* The search aims the operation at what it found.                          *)
LEMMA SearchMessagesAims ==
    ASSUME MailInv, Undisturbed, WebSeeders = {}, NEW a \in Actors, SearchMessages(a)
    PROVE  Undisturbed'
<1>1. /\ op[a] \in Ops /\ op[a].pc = "search" /\ op[a].pc \in Working
      /\ op[a].sess = Startup
      /\ UNCHANGED <<mail, strays, retired, closed>>
      /\ sel' = [sel EXCEPT ![Startup] = op[a].folder]
    BY DEF MailInv, Undisturbed, SearchMessages, ghosts, Working, Labels
<1>2. ASSUME NEW o, op' = [op EXCEPT ![a] = o], o.sess = Startup, o.pc \notin Focused
      PROVE  Undisturbed'
    BY <1>1, <1>2, UnfocusedStep DEF mail
<1>3. CASE op' = [op EXCEPT ![a].pc = "unlock"]
  <2> DEFINE o == [op[a] EXCEPT !.pc = "unlock"]
  <2>1. o.sess = Startup /\ o.pc = "unlock"
    BY <1>1 DEF Ops
  <2> QED
    BY <1>2, <1>3, <2>1 DEF Focused
<1>4. CASE op' = [op EXCEPT ![a] = RoundOver(a, TRUE)]
    BY <1>1, <1>2, <1>4, RoundOverFact DEF MailInv, Focused
<1>5. ASSUME NEW m \in SearchResult(op[a].folder, op[a].floor),
             op' = [op EXCEPT ![a] = Finds(a, m)]
      PROVE  Undisturbed'
  <2> DEFINE o == Finds(a, m)
  <2>1. o.pc = "fetch" /\ o.hit = uid[m] /\ o.found = m /\ o.sess = Startup
    BY <1>1 DEF Finds, Ops
  <2> HIDE DEF o
  <2>2. m \in Messages /\ loc[m] = op[a].folder
    BY DEF SearchResult, Found
  <2>3. Aim(op[a].folder, uid[m], m)
    BY <2>2 DEF Undisturbed, Distinct
  <2>4. op'[a] = o /\ sel'[Startup] = op[a].folder
    BY <1>1, <1>5, MailAssumption DEF MailInv, SessionsOK, o
  <2>5. Aim(sel[Startup], op[a].hit, op[a].found)'
    BY <1>1, <2>1, <2>3, <2>4 DEF Aim, mail
  <2>6. Focus(op[a])'
    BY <2>1, <2>4, <2>5 DEF Focus
  <2>7. MailMoves /\ NoStrays'
    BY <1>1 DEF MailMoves, mail, Undisturbed, NoStrays
  <2>8. op' = [op EXCEPT ![a] = o]
    BY <1>5 DEF o
  <2> QED
    BY <1>1, <2>1, <2>6, <2>7, <2>8, WorkerStep
<1> QED
    BY <1>3, <1>4, <1>5 DEF SearchMessages

(* The other steps of a round.                                              *)
LEMMA RoundAims ==
    ASSUME MailInv, Undisturbed, WebSeeders = {}, NEW a \in Actors,
           LimitReached(a) \/ SearchFails(a) \/ FetchFails(a)
    PROVE  Undisturbed'
<1>1. op[a] \in Ops /\ op[a].pc \in Working /\ op[a].sess = Startup
    BY DEF MailInv, Undisturbed, LimitReached, SearchFails, FetchFails, Working, Labels
<1>2. UNCHANGED <<loc, uid, uidNext, strays, retired, closed>>
    BY DEF LimitReached, SearchFails, FetchFails, mail, sessions, ghosts
<1>3. \E o : /\ op' = [op EXCEPT ![a] = o]
             /\ o.sess = Startup /\ o.pc \notin Focused
  <2>1. CASE op' = [op EXCEPT ![a].pc = "unlock"]
    <3> DEFINE o == [op[a] EXCEPT !.pc = "unlock"]
    <3>1. o.sess = Startup /\ o.pc = "unlock"
        BY <1>1 DEF Ops
    <3> QED
        BY <2>1, <3>1 DEF Focused
  <2>2. CASE op' = [op EXCEPT ![a] = RoundOver(a, a \notin Applies)]
    BY <1>1, <2>2, RoundOverFact DEF MailInv, Focused
  <2> QED
    BY <2>1, <2>2 DEF LimitReached, SearchFails, FetchFails
<1> QED
    BY <1>1, <1>2, <1>3, UnfocusedStep

(* What is fetched is what was found.                                       *)
LEMMA FetchMessageAims ==
    ASSUME MailInv, Undisturbed, WebSeeders = {}, NEW a \in Actors, FetchMessage(a)
    PROVE  Undisturbed'
<1>1. /\ op[a] \in Ops /\ op[a].pc = "fetch" /\ op[a].pc \in Working
      /\ op[a].sess = Startup /\ Ready(Startup)
      /\ UNCHANGED <<mail, sel, retired, closed>>
      /\ Aim(sel[Startup], op[a].hit, op[a].found)
    BY DEF MailInv, Undisturbed, FetchMessage, sessions, Working, Labels, Focus
<1>2. PICK m \in At(op[a].sess, op[a].hit) :
        /\ strays' = strays \cup ({m} \ {op[a].found})
        /\ op' = [op EXCEPT ![a] =
             IF a \notin Processors THEN RoundOver(a, TRUE)
             ELSE IF outcome[m].err THEN RoundOver(a, a = Ticker)
             ELSE IF outcome[m].match
                  THEN [op[a] EXCEPT !.pc = "exec", !.msg = m, !.acts = outcome[m].acts]
             ELSE [RoundOver(a, TRUE) EXCEPT
                      !.skip = IF a = Ticker THEN @ \cup {op[a].hit} ELSE @]]
    BY DEF FetchMessage
<1>3. strays' = strays
    BY <1>1, <1>2, OnTarget
<1>4. ASSUME NEW o, op' = [op EXCEPT ![a] = o], o.sess = Startup, o.pc \notin Focused
      PROVE  Undisturbed'
    BY <1>1, <1>3, <1>4, UnfocusedStep DEF mail
<1>5. ASSUME NEW c \in BOOLEAN, op' = [op EXCEPT ![a] = RoundOver(a, c)]
      PROVE  Undisturbed'
    BY <1>1, <1>4, <1>5, RoundOverFact DEF MailInv, Focused
<1>6. CASE op' = [op EXCEPT ![a] = [RoundOver(a, TRUE) EXCEPT
                      !.skip = IF a = Ticker THEN @ \cup {op[a].hit} ELSE @]]
  <2> DEFINE r == RoundOver(a, TRUE)
             k == IF a = Ticker THEN r.skip \cup {op[a].hit} ELSE r.skip
             o == [r EXCEPT !.skip = k]
  <2>1. r \in Ops /\ r.sess = Startup /\ r.pc = "search"
    BY <1>1, RoundOverFact DEF MailInv
  <2>2. op' = [op EXCEPT ![a] = o]
    BY <1>6
  <2> HIDE DEF r, k
  <2>3. o.sess = Startup /\ o.pc = "search"
    BY <2>1 DEF Ops
  <2> QED
    BY <1>4, <2>2, <2>3 DEF Focused
<1>7. CASE op' = [op EXCEPT ![a] = [op[a] EXCEPT !.pc = "exec", !.msg = m,
                                                 !.acts = outcome[m].acts]]
  <2> DEFINE o == [op[a] EXCEPT !.pc = "exec", !.msg = m, !.acts = outcome[m].acts]
  <2>1. o.pc = "exec" /\ o.hit = op[a].hit /\ o.found = op[a].found /\ o.sess = Startup
    BY <1>1 DEF Ops
  <2>2. op' = [op EXCEPT ![a] = o]
    BY <1>7
  <2> HIDE DEF o
  <2>3. op'[a] = o
    BY <2>2 DEF MailInv
  <2>4. Focus(op[a])'
    BY <1>1, <2>1, <2>3 DEF Focus, Aim, mail
  <2>5. MailMoves /\ NoStrays'
    BY <1>1, <1>3 DEF MailMoves, mail, Undisturbed, NoStrays
  <2> QED
    BY <1>1, <2>1, <2>2, <2>4, <2>5, WorkerStep
<1> QED
    BY <1>2, <1>5, <1>6, <1>7

(* executeActions works on the session of the search, as there is no other. *)
LEMMA ExecuteActionsAims ==
    ASSUME MailInv, Undisturbed, cur = Startup, WebSeeders = {}, NEW a \in Actors,
           ExecuteActions(a)
    PROVE  Undisturbed'
<1> DEFINE o == [op[a] EXCEPT !.pc = "act", !.exec = cur, !.eff = op[a].hit]
<1>1. /\ op[a] \in Ops /\ op[a].pc = "exec" /\ op[a].pc \in Working
      /\ op[a].sess = Startup
      /\ UNCHANGED <<mail, sel, retired, closed, strays>>
      /\ Aim(sel[Startup], op[a].hit, op[a].found)
      /\ op' = [op EXCEPT ![a] = o]
    BY DEF MailInv, Undisturbed, ExecuteActions, sessions, Working, Labels, Focus
<1>2. /\ o.pc = "act" /\ o.hit = op[a].hit /\ o.eff = op[a].hit
      /\ o.found = op[a].found /\ o.sess = Startup /\ o.exec = Startup
    BY <1>1 DEF Ops
<1> HIDE DEF o
<1>3. op'[a] = o
    BY <1>1 DEF MailInv
<1>4. Focus(op[a])'
    BY <1>1, <1>2, <1>3 DEF Focus, Aim, mail
<1>5. MailMoves /\ NoStrays'
    BY <1>1 DEF MailMoves, mail, Undisturbed, NoStrays
<1> QED
    BY <1>1, <1>2, <1>4, <1>5, WorkerStep

(* The next action has the aim of the one before.                           *)
LEMMA NextActionAims ==
    ASSUME MailInv, Undisturbed, WebSeeders = {}, NEW a \in Actors, op[a].pc = "act",
           NextAction(a), UNCHANGED <<loc, uid, uidNext, sel, retired, closed>>, NoStrays'
    PROVE  Undisturbed'
<1> DEFINE o == [op[a] EXCEPT !.acts = Tail(@)]
<1>1. op[a] \in Ops /\ op[a].sess = Startup /\ op[a].pc \in Working
      /\ op' = [op EXCEPT ![a] = o]
    BY DEF MailInv, Undisturbed, NextAction, Working, Labels
<1>2. /\ o.pc = "act" /\ o.hit = op[a].hit /\ o.eff = op[a].eff /\ o.moved = op[a].moved
      /\ o.found = op[a].found /\ o.sess = Startup /\ o.exec = op[a].exec
    BY <1>1 DEF Ops
<1> HIDE DEF o
<1>3. op'[a] = o /\ Focus(op[a])
    BY <1>1 DEF MailInv, Undisturbed
<1>4. Focus(op[a])'
    BY <1>2, <1>3 DEF Focus, Aim
<1>5. MailMoves
    BY DEF MailMoves
<1>6. o.sess = op[a].sess \/ o.pc = "idle"
    BY <1>1, <1>2
<1>7. UNCHANGED <<retired, closed>>
    OBVIOUS
<1>8. NoStrays'
    OBVIOUS
<1> QED
    BY <1>1, <1>4, <1>5, <1>6, <1>7, <1>8, WorkerStep

(* A failed action does nothing to mail.                                    *)
LEMMA ActionSkippedAims ==
    ASSUME MailInv, Undisturbed, WebSeeders = {}, NEW a \in Actors, ActionSkipped(a)
    PROVE  Undisturbed'
BY NextActionAims DEF ActionSkipped, HasAction, mail, sessions, ghosts, Undisturbed, NoStrays

(* A STORE on the aimed message changes no other.                           *)
LEMMA StoreSeenAims ==
    ASSUME Undisturbed, NEW a \in Actors, NEW u, NEW value,
           Aim(sel[Startup], u, op[a].found), StoreSeen(a, Startup, u, value)
    PROVE  NoStrays' /\ UNCHANGED <<loc, uid, uidNext, sel, retired, closed, strays>>
BY OnTarget DEF StoreSeen, Undisturbed, NoStrays, sessions

(* A flag is set or cleared on the operation's own message.                 *)
LEMMA MarkAsAims ==
    ASSUME MailInv, Undisturbed, WebSeeders = {}, NEW a \in Actors, MarkAs(a)
    PROVE  Undisturbed'
<1>1. op[a].pc = "act" /\ op[a].exec = Startup
      /\ Aim(sel[Startup], op[a].eff, op[a].found)
    BY DEF MarkAs, HasAction, Undisturbed, Focus
<1>2. StoreSeen(a, Startup, op[a].eff, Action(a).type # "mark_as_unread") /\ NextAction(a)
    BY <1>1 DEF MarkAs
<1>3. NoStrays' /\ UNCHANGED <<loc, uid, uidNext, sel, retired, closed>>
    BY <1>1, <1>2, StoreSeenAims
<1> QED
    BY <1>1, <1>2, <1>3, NextActionAims

(* A MOVE leaves its message where the next command will look for it, or    *)
(* ends the actions.                                                        *)
LEMMA MoveMessageAims ==
    ASSUME MailInv, Undisturbed, WebSeeders = {}, NEW a \in Actors, MoveMessage(a)
    PROVE  Undisturbed'
<1>1. /\ op[a] \in Ops /\ op[a].pc = "act" /\ op[a].pc \in Working /\ op[a].acts # <<>>
      /\ op[a].sess = Startup /\ op[a].exec = Startup /\ Ready(Startup)
      /\ UNCHANGED <<sel, retired, closed>>
      /\ Aim(sel[Startup], op[a].eff, op[a].found)
      /\ ~op[a].moved => op[a].eff = op[a].hit
    BY DEF MailInv, Undisturbed, MoveMessage, HasAction, sessions, Working, Labels, Focus
<1>2. MoveDest(a) \in Folders
    BY <1>1, MoveDestFact
<1>3. ASSUME op' = [op EXCEPT ![a].acts = <<>>], MailMoves, strays' = strays
      PROVE  Undisturbed'
  <2> DEFINE o == [op[a] EXCEPT !.acts = <<>>]
  <2>1. /\ o.pc = "act" /\ o.hit = op[a].hit /\ o.eff = op[a].eff /\ o.moved = op[a].moved
        /\ o.found = op[a].found /\ o.sess = Startup /\ o.exec = Startup
    BY <1>1 DEF Ops
  <2>2. op' = [op EXCEPT ![a] = o] /\ op[a].eff \in Nat
    BY <1>1, <1>3 DEF Ops
  <2> HIDE DEF o
  <2>3. op'[a] = o
    BY <2>2 DEF MailInv
  <2>4. Aim(sel[Startup], op[a].eff, op[a].found)'
    <3>1. ASSUME NEW u \in Nat, NEW x, u = op[a].eff, x = op[a].found
          PROVE  Aim(sel[Startup], op[a].eff, op[a].found)'
      <4>1. Aim(sel[Startup], u, x)'
        BY <1>1, <1>3, <3>1, SelAimKept
      <4>2. op'[a].eff = u /\ op'[a].found = x
        BY <2>1, <2>3, <3>1
      <4> QED
        BY <4>1, <4>2 DEF Aim
    <3> QED
        BY <2>2, <3>1
  <2>5. Focus(op[a])'
    BY <1>1, <2>1, <2>3, <2>4 DEF Focus
  <2>6. NoStrays'
    BY <1>3 DEF Undisturbed, NoStrays
  <2> QED
    BY <1>1, <1>3, <2>1, <2>2, <2>5, <2>6, WorkerStep
<1>4. ASSUME op' = [op EXCEPT ![a] = [op[a] EXCEPT !.pc = "select", !.moved = TRUE,
                                                   !.eff = uidNext[MoveDest(a)]]],
             Put(op[a].found, MoveDest(a)), op[a].found \in Messages, strays' = strays
      PROVE  Undisturbed'
  <2> DEFINE u == uidNext[MoveDest(a)]
             o == [op[a] EXCEPT !.pc = "select", !.moved = TRUE, !.eff = u]
  <2>1. /\ o.pc = "select" /\ o.eff = u /\ o.moved /\ o.acts = op[a].acts
        /\ o.found = op[a].found /\ o.sess = Startup /\ o.exec = Startup
    BY <1>1 DEF Ops
  <2>2. op' = [op EXCEPT ![a] = o] /\ u \in Nat
    BY <1>2, <1>4 DEF MailInv, MailOK
  <2> HIDE DEF o
  <2>3. op'[a] = o /\ MoveDest(a)' = MoveDest(a)
    BY <2>1, <2>2 DEF MailInv, MoveDest, Action
  <2>4. u < uidNext'[MoveDest(a)]
    BY <1>2, <1>4, <2>2 DEF Put, MailInv, MailOK
  <2>5. ASSUME NEW m \in Messages, m # op[a].found, loc'[m] = MoveDest(a)
        PROVE  uid'[m] # u
    <3>1. loc[m] = MoveDest(a) /\ uid'[m] = uid[m]
        BY <1>2, <1>4, <2>5 DEF Put, MailInv, MailOK
    <3>2. uid[m] < u /\ uid[m] \in Nat
        BY <1>2, <3>1, MailAssumption DEF Undisturbed, Distinct, Aim, MailInv, MailOK
    <3> QED
        BY <2>2, <3>1, <3>2
  <2>6. Focus(op[a])'
    BY <2>1, <2>3, <2>4, <2>5 DEF Focus, Aim, MoveDest, Action
  <2>7. MailMoves /\ NoStrays'
    BY <1>2, <1>4 DEF MailMoves, Undisturbed, NoStrays
  <2> QED
    BY <1>1, <2>1, <2>2, <2>6, <2>7, WorkerStep
<1>5. CASE UNCHANGED <<mail, strays>> /\ op' = [op EXCEPT ![a].acts = <<>>]
    BY <1>3, <1>5 DEF mail, MailMoves
<1>6. ASSUME NEW m \in At(op[a].exec, op[a].eff), NEW reported \in UIDPlus,
             Put(m, MoveDest(a)),
             strays' = strays \cup ({m} \ {op[a].found}),
             op' = [op EXCEPT ![a] =
                      IF reported THEN [op[a] EXCEPT !.pc = "select", !.moved = TRUE,
                                                     !.eff = uidNext[MoveDest(a)]]
                      ELSE [op[a] EXCEPT !.acts = <<>>]]
      PROVE  Undisturbed'
  <2>1. m = op[a].found /\ m \in Messages /\ strays' = strays
    BY <1>1, <1>6, OnTarget DEF At
  <2>2. MailMoves
    BY <1>2, <1>6, <2>1 DEF MailMoves
  <2>3. CASE reported
    BY <1>4, <1>6, <2>1, <2>3
  <2>4. CASE ~reported
    BY <1>3, <1>6, <2>1, <2>2, <2>4
  <2> QED
    BY <2>3, <2>4
<1> QED
    BY <1>5, <1>6 DEF MoveMessage

(* After a move its destination is selected, or nothing.                    *)
LEMMA SelectMailboxAims ==
    ASSUME MailInv, Undisturbed, WebSeeders = {}, NEW a \in Actors, SelectMailbox(a)
    PROVE  Undisturbed'
<1> DEFINE o == [op[a] EXCEPT !.pc = "act", !.acts = Tail(op[a].acts)]
<1>1. /\ op[a] \in Ops /\ op[a].pc = "select" /\ op[a].pc \in Working
      /\ op[a].sess = Startup /\ op[a].exec = Startup /\ op[a].moved
      /\ UNCHANGED <<mail, strays, retired, closed>>
      /\ Aim(MoveDest(a), op[a].eff, op[a].found)
      /\ op' = [op EXCEPT ![a] = o]
    BY DEF MailInv, Undisturbed, SelectMailbox, ghosts, Working, Labels, Focus, MoveDest,
        Action
<1>2. /\ o.pc = "act" /\ o.eff = op[a].eff /\ o.moved
      /\ o.found = op[a].found /\ o.sess = Startup /\ o.exec = Startup
    BY <1>1 DEF Ops
<1> HIDE DEF o
<1>3. op'[a] = o
    BY <1>1 DEF MailInv
<1>4. sel'[Startup] \in {MoveDest(a), Nowhere}
    BY <1>1, MailAssumption DEF SelectMailbox, MailInv, SessionsOK, Undisturbed
<1>5. Focus(op[a])'
    BY <1>1, <1>2, <1>3, <1>4 DEF Focus, Aim, mail
<1>6. MailMoves /\ NoStrays'
    BY <1>1 DEF MailMoves, mail, Undisturbed, NoStrays
<1> QED
    BY <1>1, <1>2, <1>5, <1>6, WorkerStep

(* A message that was not moved is still under the UID of the search.       *)
LEMMA ActionsDoneAims ==
    ASSUME MailInv, Undisturbed, WebSeeders = {}, NEW a \in Actors, ActionsDone(a)
    PROVE  Undisturbed'
<1>1. /\ op[a] \in Ops /\ op[a].pc = "act" /\ op[a].pc \in Working
      /\ op[a].sess = Startup
      /\ UNCHANGED <<loc, uid, uidNext, strays, sel, retired, closed>>
      /\ Aim(sel[Startup], op[a].eff, op[a].found)
      /\ ~op[a].moved => op[a].eff = op[a].hit
    BY DEF MailInv, Undisturbed, ActionsDone, mail, sessions, ghosts, Working, Labels, Focus
<1>2. CASE op[a].moved
    BY <1>1, <1>2, RoundOverFact, UnfocusedStep DEF ActionsDone, MailInv, Focused
<1>3. CASE ~op[a].moved
  <2> DEFINE o == [op[a] EXCEPT !.pc = "seen"]
  <2>1. o.pc = "seen" /\ o.hit = op[a].hit /\ o.found = op[a].found /\ o.sess = Startup
    BY <1>1 DEF Ops
  <2>2. op' = [op EXCEPT ![a] = o]
    BY <1>3 DEF ActionsDone
  <2> HIDE DEF o
  <2>3. op'[a] = o
    BY <2>2 DEF MailInv
  <2>4. Focus(op[a])'
    BY <1>1, <1>3, <2>1, <2>3 DEF Focus, Aim
  <2>5. MailMoves /\ NoStrays'
    BY <1>1 DEF MailMoves, Undisturbed, NoStrays
  <2> QED
    BY <1>1, <2>1, <2>2, <2>4, <2>5, WorkerStep
<1> QED
    BY <1>2, <1>3

(* And so is \Seen at the end of a round.                                   *)
LEMMA MarkHandledAims ==
    ASSUME MailInv, Undisturbed, WebSeeders = {}, NEW a \in Actors, MarkHandled(a)
    PROVE  Undisturbed'
<1>1. /\ op[a].pc = "seen" /\ op[a].pc \in Working /\ op[a].sess = Startup
      /\ Aim(sel[Startup], op[a].hit, op[a].found)
      /\ op' = [op EXCEPT ![a] = RoundOver(a, TRUE)]
    BY DEF Undisturbed, MarkHandled, Working, Labels, Focus
<1>2. UNCHANGED <<loc, uid, uidNext, sel, retired, closed, strays>>
  <2>1. CASE StoreSeen(a, op[a].sess, op[a].hit, TRUE)
    BY <1>1, <2>1, StoreSeenAims
  <2>2. CASE UNCHANGED <<mail, sessions, given, ghosts>>
    BY <2>2 DEF mail, sessions, ghosts
  <2> QED
    BY <2>1, <2>2 DEF MarkHandled
<1> QED
    BY <1>1, <1>2, RoundOverFact, UnfocusedStep DEF MailInv, Focused

(* A seeding aims at all it found in the folder it selected.                *)
LEMMA SeedFolderAims ==
    ASSUME MailInv, Undisturbed, WebSeeders = {}, NEW a \in Actors, SeedFolder(a)
    PROVE  Undisturbed'
<1>1. /\ op[a] \in Ops /\ op[a].pc \in Working /\ op[a].sess = Startup
      /\ UNCHANGED <<mail, strays, retired, closed>>
    BY DEF MailInv, Undisturbed, SeedFolder, ghosts, Working, Labels
<1>2. PICK f \in op[a].left :
        /\ sel' = [sel EXCEPT ![Startup] = f]
        /\ op' = [op EXCEPT ![a] =
                    [op[a] EXCEPT !.pc = "collect", !.left = op[a].left \ {f},
                                  !.todo = {[m |-> m, uid |-> uid[m]] : m \in Found(f)}]]
    BY <1>1 DEF SeedFolder
<1> DEFINE todo == {[m |-> m, uid |-> uid[m]] : m \in Found(f)}
           left == op[a].left \ {f}
           o == [op[a] EXCEPT !.pc = "collect", !.left = left, !.todo = todo]
<1>3. \A t \in todo : Aim(f, t.uid, t.m)
    BY DEF Found, Undisturbed, Distinct
<1>4. op' = [op EXCEPT ![a] = o]
    BY <1>2
<1> HIDE DEF todo, left
<1>5. o.pc = "collect" /\ o.todo = todo /\ o.sess = Startup
    BY <1>1 DEF Ops
<1> HIDE DEF o
<1>6. op'[a] = o /\ sel'[Startup] = f
    BY <1>2, <1>4, MailAssumption DEF MailInv, SessionsOK
<1>7. \A t \in op'[a].todo : Aim(sel[Startup], t.uid, t.m)'
    BY <1>1, <1>3, <1>5, <1>6 DEF Aim, mail
<1>8. Focus(op[a])'
    BY <1>5, <1>6, <1>7 DEF Focus
<1>9. MailMoves /\ NoStrays'
    BY <1>1 DEF MailMoves, mail, Undisturbed, NoStrays
<1> QED
    BY <1>1, <1>4, <1>5, <1>8, <1>9, WorkerStep

(* It fetches what it aims at.                                              *)
LEMMA SeedFetchAims ==
    ASSUME MailInv, Undisturbed, WebSeeders = {}, NEW a \in Actors, SeedFetch(a)
    PROVE  Undisturbed'
<1>1. /\ op[a] \in Ops /\ op[a].pc = "collect" /\ op[a].pc \in Working
      /\ op[a].sess = Startup
      /\ UNCHANGED <<mail, sel, retired, closed>>
      /\ \A t \in op[a].todo : Aim(sel[Startup], t.uid, t.m)
    BY DEF MailInv, Undisturbed, SeedFetch, sessions, Working, Labels, Focus
<1>2. PICK t \in op[a].todo :
        /\ op' = [op EXCEPT ![a] = [op[a] EXCEPT !.todo = op[a].todo \ {t}]]
        /\ \/ Ready(Startup) /\ strays' = strays \cup (At(Startup, t.uid) \ {t.m})
           \/ UNCHANGED strays
    BY <1>1 DEF SeedFetch
<1>3. strays' = strays
    BY <1>1, <1>2, OnTarget
<1> DEFINE todo == op[a].todo \ {t}
           o == [op[a] EXCEPT !.todo = todo]
<1>4. op' = [op EXCEPT ![a] = o]
    BY <1>2
<1>5. o.pc = "collect" /\ o.todo = todo /\ o.sess = Startup
    BY <1>1 DEF Ops
<1> HIDE DEF o
<1>6. op'[a] = o
    BY <1>4 DEF MailInv
<1>7. Focus(op[a])'
    BY <1>1, <1>5, <1>6 DEF Focus, Aim, mail
<1>8. MailMoves /\ NoStrays'
    BY <1>1, <1>3 DEF MailMoves, mail, Undisturbed, NoStrays
<1> QED
    BY <1>1, <1>4, <1>5, <1>7, <1>8, WorkerStep

(* A folder passed over, the next folder, the end of a seeding.             *)
LEMMA SeedOthersAims ==
    ASSUME MailInv, Undisturbed, WebSeeders = {}, NEW a \in Actors,
           SeedFolderFails(a) \/ SeedNext(a)
    PROVE  Undisturbed'
<1>1. op[a] \in Ops /\ op[a].pc \in Working /\ op[a].sess = Startup
    BY DEF MailInv, Undisturbed, SeedFolderFails, SeedNext, Working, Labels
<1>2. UNCHANGED <<loc, uid, uidNext, strays, retired, closed>>
    BY DEF SeedFolderFails, SeedNext, mail, sessions, ghosts
<1>3. \E o : /\ op' = [op EXCEPT ![a] = o]
             /\ o.sess = Startup /\ o.pc \notin Focused
  <2>1. ASSUME NEW label \in {"folders", "unlock"}, op' = [op EXCEPT ![a].pc = label]
        PROVE  \E o : /\ op' = [op EXCEPT ![a] = o]
                      /\ o.sess = Startup /\ o.pc \notin Focused
    <3> DEFINE o == [op[a] EXCEPT !.pc = label]
    <3>1. o.sess = Startup /\ o.pc = label
        BY <1>1 DEF Ops
    <3> QED
        BY <2>1, <3>1 DEF Focused
  <2>2. ASSUME NEW f, op[a].pc = "folders", op' = [op EXCEPT ![a].left = @ \ {f}]
        PROVE  \E o : /\ op' = [op EXCEPT ![a] = o]
                      /\ o.sess = Startup /\ o.pc \notin Focused
    <3> DEFINE o == [op[a] EXCEPT !.left = @ \ {f}]
    <3>1. o.sess = Startup /\ o.pc = "folders"
        BY <1>1, <2>2 DEF Ops
    <3> QED
        BY <2>2, <3>1 DEF Focused
  <2> QED
    BY <2>1, <2>2 DEF SeedFolderFails, SeedNext
<1> QED
    BY <1>1, <1>2, <1>3, UnfocusedStep

(* Beginning, taking the lock and giving it back aim at nothing.            *)
LEMMA BeginAims ==
    ASSUME MailInv, Undisturbed, cur = Startup, WebSeeders = {},
           \/ BeginTick
           \/ \E a \in Applies : BeginApply(a)
           \/ \E a \in Testers : BeginTest(a)
           \/ \E a \in Seeders : BeginSeed(a)
    PROVE  Undisturbed'
<1>1. ASSUME NEW a \in Actors, NEW o, Begin(a, o), o.sess = Startup, o.pc \notin Focused
      PROVE  Undisturbed'
    BY <1>1, UnfocusedStep DEF Begin, mail, sessions, ghosts
<1>2. CASE BeginTick
  <2> DEFINE o == [Idle EXCEPT !.pc = "lock", !.sess = cur]
  <2>1. o.sess = Startup /\ o.pc = "lock"
    BY DEF Idle
  <2>2. Begin(Ticker, o) /\ Ticker \in Actors
    BY <1>2 DEF BeginTick, Actors, Processors
  <2> QED
    BY <1>1, <2>1, <2>2 DEF Focused
<1>3. ASSUME NEW a \in Actors, NEW f, NEW s, s = Startup,
             Begin(a, [Idle EXCEPT !.pc = "lock", !.sess = s, !.folder = f])
      PROVE  Undisturbed'
  <2> DEFINE o == [Idle EXCEPT !.pc = "lock", !.sess = s, !.folder = f]
  <2>1. o.sess = Startup /\ o.pc = "lock"
    BY <1>3 DEF Idle
  <2> QED
    BY <1>1, <1>3, <2>1 DEF Focused
<1>4. CASE \E a \in Applies : BeginApply(a)
    BY <1>3, <1>4 DEF BeginApply, Actors, Processors
<1>5. CASE \E a \in Testers : BeginTest(a)
    BY <1>3, <1>5 DEF BeginTest, Actors
<1>6. ASSUME NEW a \in Seeders, BeginSeed(a)
      PROVE  Undisturbed'
  <2> DEFINE label == IF a \in MCPSeeders THEN "lock" ELSE "folders"
             o == [Idle EXCEPT !.pc = label, !.sess = Startup, !.left = Folders]
  <2>1. label \in {"lock", "folders"} /\ Begin(a, o) /\ a \in Actors
    BY <1>6 DEF BeginSeed, Actors
  <2> HIDE DEF label
  <2>2. o.sess = Startup /\ o.pc = label
    BY DEF Idle
  <2> QED
    BY <1>1, <2>1, <2>2 DEF Focused
<1> QED
    BY <1>2, <1>4, <1>5, <1>6

(* Taking the lock and giving it back.                                      *)
LEMMA LockingAims ==
    ASSUME MailInv, Undisturbed, NEW a \in Actors, LockSession(a) \/ UnlockSession(a)
    PROVE  Undisturbed'
<1>1. UNCHANGED <<loc, uid, uidNext, strays, sel, retired, closed>>
    BY DEF LockSession, UnlockSession, mail, ghosts
<1>2. CASE LockSession(a)
  <2> DEFINE label == IF op[a].left # {} THEN "folders" ELSE "search"
             o == [op[a] EXCEPT !.pc = label]
  <2>1. op[a] \in Ops /\ op[a].sess = Startup /\ op' = [op EXCEPT ![a] = o]
    BY <1>2 DEF MailInv, Undisturbed, LockSession
  <2>2. label \in {"folders", "search"}
    OBVIOUS
  <2> HIDE DEF label
  <2>3. o.sess = Startup /\ o.pc = label
    BY <2>1 DEF Ops
  <2> QED
    BY <1>1, <2>1, <2>2, <2>3, UnfocusedStep DEF Focused
<1>3. CASE UnlockSession(a)
    BY <1>1, <1>3, IdleFact, UnfocusedStep DEF UnlockSession, Focused
<1> QED
    BY <1>2, <1>3

(* Mail that arrives or is removed disturbs no operation.                   *)
LEMMA OthersAims ==
    ASSUME MailInv, Undisturbed, CloseRetired \/ Environment \/ UNCHANGED vars
    PROVE  Undisturbed'
<1>1. CASE CloseRetired
    BY <1>1 DEF CloseRetired, Undisturbed
<1>2. CASE Environment \/ UNCHANGED vars
  <2>1. MailMoves
    BY <1>2, MailAssumption DEF Environment, Deliver, UserRemoves, MailMoves, vars, mail
  <2>2. UNCHANGED <<op, sel, retired, closed, strays>>
    BY <1>2 DEF Environment, Deliver, UserRemoves, vars, sessions, ghosts
  <2>3. Distinct'
    BY <2>1, MailAssumption, DistinctKept DEF MailInv, Undisturbed
  <2>4. \A a \in Actors : Focus(op[a])'
    BY <2>1, <2>2, FocusKept DEF Undisturbed
  <2> QED
    BY <2>2, <2>3, <2>4 DEF Undisturbed, NoStrays
<1> QED
    BY <1>1, <1>2

(* Initially the source folder has distinct UIDs below the next one.        *)
LEMMA AimInit ==
    Init => AimInv
<1> SUFFICES ASSUME Init
             PROVE  AimInv
    OBVIOUS
<1> DEFINE n == Cardinality({m \in Messages : loc[m] = Source})
<1>1. n \in Nat
  <2>1. IsFiniteSet({m \in Messages : loc[m] = Source})
    BY MailAssumption, FS_Subset
  <2> QED
    BY <2>1, FS_CardinalityType
<1>2. /\ \A m \in Messages : uid[m] = 0 <=> loc[m] = Nowhere
      /\ \A m \in Messages : uid[m] \in Nat /\ uid[m] <= n
      /\ \A k, m \in Messages : uid[k] = uid[m] /\ uid[m] # 0 => k = m
  <2>1. Cardinality(Messages) \in Nat
    BY MailAssumption, FS_CardinalityType
  <2> QED
    BY <2>1 DEF Init
<1>3. uidNext[Source] = 1 + n /\ \A m \in Messages : loc[m] \in {Source, Nowhere}
    BY MailAssumption DEF Init
<1> HIDE DEF n
<1>4. Distinct
    BY <1>1, <1>2, <1>3, MailAssumption DEF Distinct, Aim
<1>5. \A a \in Actors : op[a] = Idle
    BY DEF Init
<1>6. Undisturbed
    BY <1>4, <1>5, IdleFact DEF Undisturbed, Focus, Init, NoStrays
<1> QED
    BY <1>6 DEF AimInv, Init

(* Only a reconnect ends the peace, and for good.                           *)
LEMMA AimNext ==
    ASSUME WebSeeders = {}, MailInv, AimInv, [Next]_vars
    PROVE  AimInv'
<1>1. CASE Swap
    BY <1>1 DEF Swap, AimInv, Undisturbed
<1>2. CASE ~Swap
  <2>1. cur' = cur /\ retired \cup closed \subseteq retired' \cup closed'
    BY <1>2 DEF Next, BeginTick, BeginApply, BeginTest, BeginSeed, Begin, Step, LockSession,
        UnlockSession, Round, LimitReached, SearchFails, SearchMessages, FetchFails,
        FetchMessage, Execute, ExecuteActions, ActionSkipped, MoveMessage, SelectMailbox,
        MarkAs, StoreSeen, ActionsDone, MarkHandled, Seed, SeedFolder, SeedFolderFails,
        SeedFetch, SeedNext, CloseRetired, Environment, Deliver, UserRemoves, vars, sessions
  <2>2. ASSUME cur = Startup
        PROVE  Undisturbed'
    <3>1. Undisturbed
        BY <2>2 DEF AimInv
    <3>2. ASSUME NEW a \in Actors, Step(a)
          PROVE  Undisturbed'
        BY <3>1, <3>2, LockingAims, RoundAims, SearchMessagesAims, FetchMessageAims
           DEF Step, Round
    <3>3. ASSUME NEW a \in Processors, Execute(a)
          PROVE  Undisturbed'
        BY <2>2, <3>1, <3>3, ExecuteActionsAims, ActionSkippedAims, MoveMessageAims,
           SelectMailboxAims, MarkAsAims, ActionsDoneAims, MarkHandledAims DEF Execute, Actors
    <3>4. ASSUME NEW a \in Seeders, Seed(a)
          PROVE  Undisturbed'
        BY <3>1, <3>4, SeedFolderAims, SeedOthersAims, SeedFetchAims DEF Seed, Actors
    <3> QED
        BY <1>2, <2>2, <3>1, <3>2, <3>3, <3>4, BeginAims, OthersAims DEF Next
  <2> QED
    BY <2>1, <2>2 DEF AimInv
<1> QED
    BY <1>1, <1>2

(* The contract of LockSession ("callers must hold the lock for a complete  *)
(* operation"), kept by all but the dashboard's seeding: without one, and   *)
(* until the poller's first reconnect, no operation fetches, moves or flags *)
(* a message that its own search did not find, however many operations      *)
(* there are, whatever commands fail and whatever mail comes and goes.      *)
THEOREM NoStraysWhenLocked ==
    ASSUME WebSeeders = {}
    PROVE  Spec => [](cur = Startup => NoStrays)
<1>1. AimInv => (cur = Startup => NoStrays)
    BY DEF AimInv, Undisturbed
<1>2. MailInv /\ AimInv /\ [Next]_vars => AimInv'
    BY AimNext
<1> QED
    BY <1>1, <1>2, AimInit, MailInvariant, PTL DEF Spec
=============================================================================
