--------------------------- MODULE MailOnceProofs ---------------------------
(***************************************************************************)
(* Proofs about MailSession: how often ticks run the actions of a message, *)
(* for every number of operations, messages and folders.                   *)
(***************************************************************************)
EXTENDS MailSessionProofs

Returns(act) == act.type = "move_to_folder" /\ act.dest = Source
Leaves(act) == act.type \in {"move_to_folder", "delete"}

(* No rule moves mail into the folder the poller watches.                   *)
NothingReturns ==
    /\ Trash # Source
    /\ \A o \in Outcomes : \A i \in DOMAIN o.acts : ~Returns(o.acts[i])

(* No folder has come to the bound on UIDs.                                 *)
Room == \A f \in Folders : ~Full(f)

(* What ActedOnce is about, and what keeps a tick from finding it again.    *)
Promised(m) == MovesOut(m) \/ hides
Handled(m) == loc[m] # Source \/ (hides /\ seen[m])

Handling == {"act", "select", "seen"}
InHand == {"fetch", "exec"} \cup Handling

UidsGiven == \A m \in Messages : loc[m] # Nowhere => uid[m] # 0

NoReturns == \A a \in Actors : \A i \in DOMAIN op[a].acts : ~Returns(op[a].acts[i])

(* A message whose actions a tick has run is one that ticks do not find, or *)
(* the tick is still at it.                                                 *)
Counted ==
    \A m \in Messages : Promised(m) =>
        /\ runs[m] <= 1
        /\ runs[m] # 0 =>
              /\ uid[m] # 0
              /\ Handled(m) \/ (op[Ticker].pc \in Handling /\ op[Ticker].found = m)

(* What the tick has in hand is where it will look, unless it has left the  *)
(* folder; it has actions left that take it out, if there were any.         *)
TickHolds(o, m) ==
    /\ o.folder = Source
    /\ o.pc \notin {"act", "select"} => ~o.moved
    /\ o.pc \in InHand =>
          /\ m \in Messages /\ uid[m] # 0
          /\ loc[m] = Source => sel[Startup] = Source /\ uid[m] = o.hit
    /\ o.pc \in {"fetch", "exec"} /\ Promised(m) => runs[m] = 0
    /\ o.pc = "exec" =>
          o.msg = m /\ outcome[m].match /\ ~outcome[m].err /\ o.acts = outcome[m].acts
    /\ o.pc = "act" /\ loc[m] = Source =>
          /\ ~o.moved
          /\ MovesOut(m) => \E i \in DOMAIN o.acts : Leaves(o.acts[i])
    /\ o.pc = "select" => loc[m] # Source
    /\ o.pc = "seen" /\ MovesOut(m) => loc[m] # Source

(* A bulk apply brings nothing back within the reach of ticks.              *)
ApplyHolds(o) ==
    o.pc \in InHand =>
        /\ o.found \in Messages
        /\ Promised(o.found) /\ runs[o.found] # 0 => loc[o.found] # Source

Once ==
    /\ UidsGiven /\ NoReturns /\ Counted
    /\ TickHolds(op[Ticker], op[Ticker].found)
    /\ \A a \in Applies : ApplyHolds(op[a])

Calm == cur = Startup /\ ~fails /\ Room

OnceInv == Calm => Once

(* What the proofs of a step start from.                                    *)
Setting == WebSeeders = {} /\ NothingReturns
Now == MailInv /\ Undisturbed /\ Calm /\ Once

-----------------------------------------------------------------------------
(* What a step may change. *)

Turn(a) ==
    \/ a = Ticker /\ BeginTick
    \/ a \in Applies /\ BeginApply(a)
    \/ a \in Testers /\ BeginTest(a)
    \/ a \in Seeders /\ BeginSeed(a)
    \/ Step(a)
    \/ a \in Processors /\ Execute(a)
    \/ a \in Seeders /\ Seed(a)

(* Steps of the reconnect goroutine, of the server, of other mail clients.  *)
Others == Swap \/ CloseRetired \/ Environment \/ UNCHANGED vars

(* A step is a turn of one operation or has to do with none.                *)
LEMMA OneTurn ==
    ASSUME [Next]_vars
    PROVE  Others \/ \E a \in Actors : Turn(a)
BY DEF Next, Turn, Actors, Processors, Others

(* Those leave operations, selections, flags and counts.                    *)
LEMMA OthersFact ==
    ASSUME Others
    PROVE  UNCHANGED <<op, sel, seen, runs>>
BY DEF Others, Swap, CloseRetired, Environment, Deliver, UserRemoves, vars, mail, sessions,
       ghosts

(* Only moves, arrivals and removals change the places of mail.             *)
LEMMA PlacesChange ==
    ASSUME [Next]_vars
    PROVE  \/ UNCHANGED <<loc, uid, uidNext>>
           \/ \E a \in Processors : MoveMessage(a)
           \/ \E m \in Messages : Deliver(m) \/ UserRemoves(m)
BY DEF Next, BeginTick, BeginApply, BeginTest, BeginSeed, Begin, Step, LockSession,
       UnlockSession, Round, LimitReached, SearchFails, SearchMessages, FetchFails,
       FetchMessage, Execute, ExecuteActions, ActionSkipped, SelectMailbox,
       MarkAs, StoreSeen, ActionsDone, MarkHandled, Seed, SeedFolder, SeedFolderFails,
       SeedFetch, SeedNext, Swap, CloseRetired, Environment, vars, mail

(* Only actions and the end of a round change \Seen.                        *)
LEMMA TurnSeen ==
    ASSUME NEW a \in Actors, Turn(a)
    PROVE  UNCHANGED seen \/ (a \in Processors /\ (MarkAs(a) \/ MarkHandled(a)))
BY DEF Turn, BeginTick, BeginApply, BeginTest, BeginSeed, Begin, Step, LockSession,
       UnlockSession, Round, LimitReached, SearchFails, SearchMessages, FetchFails,
       FetchMessage, Execute, ExecuteActions, ActionSkipped, MoveMessage, SelectMailbox,
       ActionsDone, Seed, SeedFolder, SeedFolderFails, SeedFetch, SeedNext, mail

(* Only executeActions of a tick counts.                                    *)
LEMMA TurnRuns ==
    ASSUME MailInv, NEW a \in Actors, Turn(a)
    PROVE  UNCHANGED runs \/ (a = Ticker /\ ExecuteActions(a))
<1>1. UNCHANGED runs \/ ExecuteActions(a)
  BY DEF Turn, BeginTick, BeginApply, BeginTest, BeginSeed, Begin, Step, LockSession,
       UnlockSession, Round, LimitReached, SearchFails, SearchMessages, FetchFails,
       FetchMessage, Execute, ActionSkipped, MoveMessage, SelectMailbox, MarkAs, StoreSeen,
       MarkHandled, ActionsDone, Seed, SeedFolder, SeedFolderFails, SeedFetch, SeedNext,
       ghosts
<1>2. CASE ExecuteActions(a) /\ a # Ticker
  BY <1>2 DEF ExecuteActions, MailInv, GhostsOK
<1> QED
  BY <1>1, <1>2

(* Only operations at work select mailboxes.                                *)
LEMMA TurnSel ==
    ASSUME NEW a \in Actors, Turn(a)
    PROVE  UNCHANGED sel \/ op[a].pc \in Working
BY DEF Turn, BeginTick, BeginApply, BeginTest, BeginSeed, Begin, Step, LockSession,
       UnlockSession, Round, LimitReached, SearchFails, SearchMessages, FetchFails,
       FetchMessage, Execute, ExecuteActions, ActionSkipped, MoveMessage, SelectMailbox,
       MarkAs, StoreSeen, MarkHandled, ActionsDone, Seed, SeedFolder, SeedFolderFails,
       SeedFetch, SeedNext, sessions, Working, Labels

(* The rules and the server stay as they are.                               *)
LEMMA GivenStays ==
    ASSUME [Next]_vars
    PROVE  UNCHANGED <<outcome, hides, fails>>
BY DEF Next, BeginTick, BeginApply, BeginTest, BeginSeed, Begin, Step, LockSession,
       UnlockSession, Round, LimitReached, SearchFails, SearchMessages, FetchFails,
       FetchMessage, Execute, ExecuteActions, ActionSkipped, MoveMessage, SelectMailbox,
       MarkAs, StoreSeen, MarkHandled, ActionsDone, Seed, SeedFolder, SeedFolderFails,
       Deliver, UserRemoves, SeedFetch, SeedNext, Swap, CloseRetired, Environment, vars,
       given

(* A turn changes the local variables of one operation.                     *)
LEMMA OneChanges ==
    ASSUME NEW a \in Actors, Turn(a)
    PROVE  \E o : op' = [op EXCEPT ![a] = o]
<1>1. CASE a = Ticker /\ BeginTick
    BY <1>1 DEF BeginTick, Begin
<1>2. CASE BeginApply(a) \/ BeginTest(a) \/ BeginSeed(a)
    BY <1>2 DEF BeginApply, BeginTest, BeginSeed, Begin
<1>3. CASE LockSession(a) \/ UnlockSession(a) \/ LimitReached(a) \/ SearchFails(a)
    BY <1>3 DEF LockSession, UnlockSession, LimitReached, SearchFails
<1>4. CASE SearchMessages(a)
    BY <1>4 DEF SearchMessages
<1>5. CASE FetchFails(a) \/ FetchMessage(a)
    BY <1>5 DEF FetchFails, FetchMessage
<1>6. CASE ExecuteActions(a) \/ ActionSkipped(a) \/ SelectMailbox(a) \/ ActionsDone(a)
    BY <1>6 DEF ExecuteActions, ActionSkipped, SelectMailbox, ActionsDone, NextAction
<1>7. CASE MoveMessage(a)
    BY <1>7 DEF MoveMessage
<1>8. CASE MarkAs(a) \/ MarkHandled(a)
    BY <1>8 DEF MarkAs, MarkHandled, NextAction
<1>9. CASE Seed(a)
    BY <1>9 DEF Seed, SeedFolder, SeedFolderFails, SeedFetch, SeedNext
<1> QED
    BY <1>1, <1>2, <1>3, <1>4, <1>5, <1>6, <1>7, <1>8, <1>9 DEF Turn, Step, Round, Execute

(* Nor does it touch what the others are doing.                             *)
LEMMA OthersRest ==
    ASSUME MailInv, NEW a \in Actors, Turn(a), NEW b \in Actors, b # a
    PROVE  op'[b] = op[b]
<1>1. op \in [Actors -> Ops]
    BY DEF MailInv
<1> QED
    BY <1>1, OneChanges

-----------------------------------------------------------------------------
(* Where mail may be after a step. *)

(* Destinations of actions are folders other than the source.               *)
LEMMA DestFact ==
    ASSUME MailInv, NothingReturns, NoReturns, NEW a \in Actors,
           HasAction(a, {"move_to_folder", "delete"})
    PROVE  MoveDest(a) \in Folders /\ MoveDest(a) # Source
<1>1. op[a] \in Ops /\ op[a].acts # <<>> /\ op[a].acts \in Seq(Actions)
    BY DEF MailInv, HasAction, Ops
<1>2. 1 \in DOMAIN op[a].acts /\ Head(op[a].acts) = op[a].acts[1]
    BY <1>1
<1>3. ~Returns(Action(a))
    BY <1>2 DEF NoReturns, Action
<1>4. MoveDest(a) \in Folders
    BY <1>1, MoveDestFact
<1>5. Action(a).type \in {"move_to_folder", "delete"} /\ Trash # Source
    BY DEF HasAction, NothingReturns
<1> QED
    BY <1>3, <1>4, <1>5 DEF MoveDest, Returns

(* A step puts one message in a folder, takes one out, or neither.          *)
LEMMA StepMoves ==
    ASSUME MailInv, [Next]_vars
    PROVE  MailMoves
<1>1. CASE UNCHANGED <<loc, uid, uidNext>>
    BY <1>1 DEF MailMoves
<1>2. ASSUME NEW a \in Processors, MoveMessage(a)
      PROVE  MailMoves
  <2>1. op[a] \in Ops /\ op[a].acts # <<>>
    BY <1>2 DEF MailInv, MoveMessage, HasAction, Actors
  <2>2. MoveDest(a) \in Folders
    BY <2>1, MoveDestFact DEF Actors
  <2> QED
    BY <1>2, <2>2 DEF MoveMessage, At, mail, MailMoves
<1>3. ASSUME NEW m \in Messages, Deliver(m) \/ UserRemoves(m)
      PROVE  MailMoves
    BY <1>3, MailAssumption DEF Deliver, UserRemoves, MailMoves
<1> QED
    BY <1>1, <1>2, <1>3, PlacesChange

(* UIDs only grow, so a folder once full stays so, and mail keeps a UID.    *)
LEMMA UidsGrow ==
    ASSUME MailOK, MailMoves, Nowhere \notin Folders
    PROVE  /\ Room' => Room
           /\ UidsGiven => UidsGiven'
           /\ \A m \in Messages : uid[m] # 0 => uid'[m] # 0
<1>1. CASE UNCHANGED <<loc, uid, uidNext>>
    BY <1>1 DEF Room, Full, UidsGiven
<1>2. ASSUME NEW m \in Messages, NEW f \in Folders, Put(m, f)
      PROVE  /\ Room' => Room
             /\ UidsGiven => UidsGiven'
             /\ \A k \in Messages : uid[k] # 0 => uid'[k] # 0
  <2>1. uidNext[f] \in Nat \ {0} /\ uidNext' = [uidNext EXCEPT ![f] = uidNext[f] + 1]
    BY <1>2 DEF MailOK, Put
  <2>2. \A k \in Messages : k # m => uid'[k] = uid[k] /\ loc'[k] = loc[k]
    BY <1>2 DEF MailOK, Put
  <2>3. uid'[m] # 0
    BY <1>2, <2>1 DEF MailOK, Put
  <2>4. ASSUME Room' PROVE Room
    BY <1>2, <2>1, <2>4, MailAssumption DEF MailOK, Room, Full, Put
  <2> QED
    BY <2>2, <2>3, <2>4 DEF UidsGiven
<1>3. ASSUME NEW m \in Messages, loc' = [loc EXCEPT ![m] = Nowhere], UNCHANGED <<uid, uidNext>>
      PROVE  /\ Room' => Room
             /\ UidsGiven => UidsGiven'
             /\ \A k \in Messages : uid[k] # 0 => uid'[k] # 0
    BY <1>3 DEF MailOK, Room, Full, UidsGiven
<1> QED
    BY <1>1, <1>2, <1>3 DEF MailMoves

(* Mail that has been in a folder does not come to the source again.        *)
LEMMA StaysAway ==
    ASSUME MailInv, NothingReturns, NoReturns, [Next]_vars,
           NEW m \in Messages, uid[m] # 0, loc'[m] = Source
    PROVE  loc[m] = Source /\ uid'[m] = uid[m]
<1>1. CASE UNCHANGED <<loc, uid, uidNext>>
    BY <1>1
<1>2. ASSUME NEW a \in Processors, MoveMessage(a)
      PROVE  loc[m] = Source /\ uid'[m] = uid[m]
  <2>1. MoveDest(a) \in Folders /\ MoveDest(a) # Source
    BY <1>2, DestFact DEF MoveMessage, Actors
  <2>2. CASE UNCHANGED mail
    BY <2>2 DEF mail
  <2>3. ASSUME NEW k \in Messages, Put(k, MoveDest(a))
        PROVE  loc[m] = Source /\ uid'[m] = uid[m]
    BY <2>1, <2>3 DEF Put, MailInv, MailOK
  <2> QED
    BY <1>2, <2>2, <2>3 DEF MoveMessage, At
<1>3. ASSUME NEW k \in Messages, Deliver(k)
      PROVE  loc[m] = Source /\ uid'[m] = uid[m]
  <2>1. k # m
    BY <1>3 DEF Deliver
  <2> QED
    BY <1>3, <2>1 DEF Deliver, Put, MailInv, MailOK
<1>4. ASSUME NEW k \in Messages, UserRemoves(k)
      PROVE  loc[m] = Source /\ uid'[m] = uid[m]
    BY <1>4, MailAssumption DEF UserRemoves, MailInv, MailOK
<1> QED
    BY <1>1, <1>2, <1>3, <1>4, PlacesChange

-----------------------------------------------------------------------------
(* The actions that are left. *)

(* A new round starts with no actions and nothing moved.                    *)
LEMMA RoundOverFields ==
    ASSUME MailInv, NEW a \in Actors, NEW counts \in BOOLEAN
    PROVE  /\ RoundOver(a, counts) \in Ops
           /\ RoundOver(a, counts).pc = "search"
           /\ RoundOver(a, counts).acts = <<>>
           /\ RoundOver(a, counts).moved = FALSE
           /\ RoundOver(a, counts).folder = op[a].folder
<1>1. op \in [Actors -> Ops] /\ op[a] \in Ops
    BY DEF MailInv
<1>2. RoundOver(a, counts) \in Ops /\ RoundOver(a, counts).pc = "search"
    BY <1>1, RoundOverFact
<1>3. /\ RoundOver(a, counts).acts = <<>>
      /\ RoundOver(a, counts).moved = FALSE
      /\ RoundOver(a, counts).folder = op[a].folder
    BY <1>1 DEF RoundOver, Ops
<1> QED
    BY <1>2, <1>3

(* An operation's actions are those of a rule, or what is left of them.     *)
LEMMA ActsChange ==
    ASSUME MailInv, NEW a \in Actors, Turn(a)
    PROVE  \/ op'[a].acts \in {op[a].acts, <<>>}
           \/ op[a].acts # <<>> /\ op'[a].acts = Tail(op[a].acts)
           \/ \E m \in Messages : op'[a].acts = outcome[m].acts
<1> DEFINE Goal == \/ op'[a].acts \in {op[a].acts, <<>>}
                   \/ op[a].acts # <<>> /\ op'[a].acts = Tail(op[a].acts)
                   \/ \E m \in Messages : op'[a].acts = outcome[m].acts
<1>1. op \in [Actors -> Ops] /\ op[a] \in Ops
    BY DEF MailInv
<1>2. ASSUME NEW o, op' = [op EXCEPT ![a] = o]
      PROVE  op'[a] = o
    BY <1>1, <1>2
<1>3. ASSUME NEW counts \in BOOLEAN, op' = [op EXCEPT ![a] = RoundOver(a, counts)]
      PROVE  Goal
  <2>1. op'[a] = RoundOver(a, counts)
    BY <1>2, <1>3
  <2> QED
    BY <2>1, RoundOverFields
<1>4. CASE a = Ticker /\ BeginTick
    BY <1>2, <1>4 DEF BeginTick, Begin, Idle
<1>5. CASE BeginApply(a) \/ BeginTest(a)
  <2>1. PICK s, f : op'[a] = [Idle EXCEPT !.pc = "lock", !.sess = s, !.folder = f]
    BY <1>2, <1>5 DEF BeginApply, BeginTest, Begin
  <2> QED
    BY <2>1 DEF Idle
<1>6. CASE BeginSeed(a)
    BY <1>2, <1>6 DEF BeginSeed, Begin, Idle
<1>7. CASE LockSession(a) \/ LimitReached(a) \/ SearchFails(a)
    BY <1>1, <1>7 DEF LockSession, LimitReached, SearchFails, Ops
<1>8. CASE UnlockSession(a)
    BY <1>2, <1>8 DEF UnlockSession, Idle
<1>9. CASE SearchMessages(a)
  <2>1. ASSUME NEW m, op' = [op EXCEPT ![a] = Finds(a, m)]
        PROVE  Goal
    BY <1>1, <1>2, <2>1 DEF Finds, Ops
  <2>2. ASSUME op' = [op EXCEPT ![a].pc = "unlock"]
        PROVE  Goal
    BY <1>1, <2>2 DEF Ops
  <2> QED
    BY <1>3, <1>9, <2>1, <2>2 DEF SearchMessages
<1>10. CASE FetchFails(a)
    BY <1>3, <1>10 DEF FetchFails
<1>11. CASE FetchMessage(a)
  <2>1. PICK m \in Messages :
          op' = [op EXCEPT ![a] =
             IF a \notin Processors THEN RoundOver(a, TRUE)
             ELSE IF outcome[m].err THEN RoundOver(a, a = Ticker)
             ELSE IF outcome[m].match
                  THEN [op[a] EXCEPT !.pc = "exec", !.msg = m, !.acts = outcome[m].acts]
             ELSE [RoundOver(a, TRUE) EXCEPT
                      !.skip = IF a = Ticker THEN @ \cup {op[a].hit} ELSE @]]
    BY <1>11 DEF FetchMessage, At
  <2>2. ASSUME op' = [op EXCEPT ![a] = [op[a] EXCEPT !.pc = "exec", !.msg = m,
                                                     !.acts = outcome[m].acts]]
        PROVE  Goal
    BY <1>1, <2>2 DEF Ops
  <2>3. ASSUME op' = [op EXCEPT ![a] = [RoundOver(a, TRUE) EXCEPT
                      !.skip = IF a = Ticker THEN @ \cup {op[a].hit} ELSE @]]
        PROVE  Goal
    BY <1>1, <2>3, RoundOverFields DEF Ops
  <2> QED
    BY <1>3, <2>1, <2>2, <2>3
<1>12. CASE ExecuteActions(a)
    BY <1>1, <1>12 DEF ExecuteActions, Ops
<1>13. CASE ActionSkipped(a) \/ MarkAs(a)
    BY <1>1, <1>13 DEF ActionSkipped, MarkAs, HasAction, NextAction, Ops
<1>14. CASE MoveMessage(a)
  <2>1. ASSUME NEW u, op' = [op EXCEPT ![a] = [op[a] EXCEPT !.pc = "select", !.moved = TRUE,
                                                            !.eff = u]]
        PROVE  Goal
    BY <1>1, <2>1 DEF Ops
  <2>2. ASSUME op' = [op EXCEPT ![a] = [op[a] EXCEPT !.acts = <<>>]]
        PROVE  Goal
    BY <1>1, <2>2 DEF Ops
  <2> QED
    BY <1>14, <2>1, <2>2 DEF MoveMessage
<1>15. CASE SelectMailbox(a)
    BY <1>1, <1>15 DEF SelectMailbox, MailInv, OpOK, Ops
<1>16. CASE ActionsDone(a)
  <2>1. ASSUME op' = [op EXCEPT ![a] = [op[a] EXCEPT !.pc = "seen"]]
        PROVE  Goal
    BY <1>1, <2>1 DEF Ops
  <2> QED
    BY <1>3, <1>16, <2>1 DEF ActionsDone
<1>17. CASE MarkHandled(a)
    BY <1>3, <1>17 DEF MarkHandled
<1>18. CASE Seed(a)
  <2>1. CASE SeedFolder(a)
    <3>1. PICK f, todo : op' = [op EXCEPT ![a] = [op[a] EXCEPT !.pc = "collect", !.left = f,
                                                               !.todo = todo]]
        BY <2>1 DEF SeedFolder
    <3> QED
        BY <1>1, <3>1 DEF Ops
  <2>2. CASE SeedFolderFails(a)
    <3>1. PICK left : op' = [op EXCEPT ![a] = [op[a] EXCEPT !.left = left]]
        BY <2>2 DEF SeedFolderFails
    <3> QED
        BY <1>1, <3>1 DEF Ops
  <2>3. CASE SeedFetch(a)
    <3>1. PICK todo : op' = [op EXCEPT ![a] = [op[a] EXCEPT !.todo = todo]]
        BY <2>3 DEF SeedFetch
    <3> QED
        BY <1>1, <3>1 DEF Ops
  <2>4. CASE SeedNext(a)
    BY <1>1, <2>4 DEF SeedNext, Ops
  <2> QED
    BY <1>18, <2>1, <2>2, <2>3, <2>4 DEF Seed
<1> QED
    BY <1>4, <1>5, <1>6, <1>7, <1>8, <1>9, <1>10, <1>11, <1>12, <1>13, <1>14, <1>15, <1>16,
       <1>17, <1>18 DEF Turn, Step, Round, Execute

(* None of them brings mail to the source.                                  *)
LEMMA NoReturnsKept ==
    ASSUME MailInv, NothingReturns, NoReturns, [Next]_vars
    PROVE  NoReturns'
<1>1. ASSUME NEW s \in Seq(Actions), s # <<>>, \A i \in DOMAIN s : ~Returns(s[i])
      PROVE  \A i \in DOMAIN Tail(s) : ~Returns(Tail(s)[i])
    BY <1>1
<1>2. \A m \in Messages : \A i \in DOMAIN outcome[m].acts : ~Returns(outcome[m].acts[i])
    BY DEF MailInv, GivenOK, NothingReturns
<1>3. ASSUME NEW a \in Actors, Turn(a), NEW b \in Actors
      PROVE  \A i \in DOMAIN op'[b].acts : ~Returns(op'[b].acts[i])
  <2>1. CASE b # a
    BY <1>3, <2>1, OthersRest DEF NoReturns
  <2>2. CASE b = a
    <3>1. op[a].acts \in Seq(Actions) /\ \A i \in DOMAIN op[a].acts : ~Returns(op[a].acts[i])
        BY DEF MailInv, Ops, NoReturns
    <3>2. CASE op'[a].acts = <<>>
        BY <2>2, <3>2
    <3>3. CASE op'[a].acts = op[a].acts
        BY <2>2, <3>1, <3>3
    <3>4. CASE op[a].acts # <<>> /\ op'[a].acts = Tail(op[a].acts)
        BY <1>1, <2>2, <3>1, <3>4
    <3>5. ASSUME NEW m \in Messages, op'[a].acts = outcome[m].acts
          PROVE  \A i \in DOMAIN op'[b].acts : ~Returns(op'[b].acts[i])
        BY <1>2, <2>2, <3>5
    <3> QED
        BY <1>3, <3>2, <3>3, <3>4, <3>5, ActsChange
  <2> QED
    BY <2>1, <2>2
<1>4. CASE Others
    BY <1>4, OthersFact DEF NoReturns
<1> QED
    BY <1>3, <1>4, OneTurn DEF NoReturns

-----------------------------------------------------------------------------
(* The tick. *)

(* While a tick has the lock no other operation is at work.                 *)
LEMMA TickAlone ==
    ASSUME WebSeeders = {}, MailInv, Undisturbed, op[Ticker].pc \in Working,
           NEW b \in Actors, b # Ticker
    PROVE  op[b].pc \notin Working
BY OneAtWork DEF Actors, Processors

(* The steps of others leave what the tick holds.                           *)
LEMMA TickRests ==
    ASSUME Setting, Now, [Next]_vars,
           Others \/ \E a \in Actors \ {Ticker} : Turn(a)
    PROVE  TickHolds(op[Ticker], op[Ticker].found)' /\ op'[Ticker] = op[Ticker]
<1>1. UNCHANGED <<outcome, hides>> /\ Ticker \in Actors
    BY GivenStays DEF Actors, Processors
<1>2. op'[Ticker] = op[Ticker]
    BY <1>1, OthersFact, OthersRest DEF Now
<1>3. op[Ticker].pc \in Working => UNCHANGED sel
    BY <1>1, OthersFact, TurnSel, TickAlone DEF Now, Setting
<1>4. op[Ticker].pc \in InHand => op[Ticker].pc \in Working
    BY DEF InHand, Handling, Working, Labels
<1>5. UNCHANGED runs
    BY OthersFact, TurnRuns DEF Now
<1> DEFINE o == op[Ticker]
           m == op[Ticker].found
<1>6. TickHolds(o, m)
    BY DEF Now, Once
<1>7. m \in Messages /\ uid[m] # 0 => uid'[m] # 0 /\ (loc'[m] = Source => loc[m] = Source /\ uid'[m] = uid[m])
    BY StepMoves, UidsGrow, StaysAway, MailAssumption DEF Now, MailInv, Setting, Once
<1>8. o.pc \in InHand =>
          /\ m \in Messages /\ uid'[m] # 0
          /\ loc'[m] = Source => loc[m] = Source /\ sel'[Startup] = Source /\ uid'[m] = o.hit
    BY <1>3, <1>4, <1>6, <1>7 DEF TickHolds
<1>9. MovesOut(m)' = MovesOut(m) /\ Promised(m)' = Promised(m)
    BY <1>1, <1>2 DEF MovesOut, Promised
<1> QED
    BY <1>1, <1>2, <1>5, <1>6, <1>8, <1>9 DEF TickHolds, InHand, Handling, MovesOut, Promised

(* A tick that has nothing in hand.                                         *)
LEMMA TickFree ==
    ASSUME op'[Ticker].folder = Source, op'[Ticker].pc \notin InHand, op'[Ticker].moved = FALSE
    PROVE  TickHolds(op[Ticker], op[Ticker].found)'
BY DEF TickHolds, InHand, Handling

(* What is known when the tick takes a step.                                *)
LEMMA TickFacts ==
    ASSUME Now
    PROVE  /\ Ticker \in Actors /\ Ticker \in Processors
           /\ op \in [Actors -> Ops] /\ op[Ticker] \in Ops
           /\ op[Ticker].folder = Source
           /\ op[Ticker].pc \notin {"act", "select"} => op[Ticker].moved = FALSE
BY DEF Now, Once, TickHolds, Actors, Processors, MailInv, Ops

(* A tick that begins, waits for the lock or gives it back.                 *)
LEMMA TickBegins ==
    ASSUME Now, BeginTick \/ LockSession(Ticker) \/ UnlockSession(Ticker)
    PROVE  TickHolds(op[Ticker], op[Ticker].found)'
<1>1. CASE BeginTick
  <2>1. op'[Ticker] = [Idle EXCEPT !.pc = "lock", !.sess = cur]
    BY <1>1, TickFacts DEF BeginTick, Begin
  <2> QED
    BY <2>1, TickFree DEF Idle, InHand, Handling
<1>2. CASE LockSession(Ticker)
  <2> DEFINE label == IF op[Ticker].left # {} THEN "folders" ELSE "search"
  <2>1. op'[Ticker] = [op[Ticker] EXCEPT !.pc = label] /\ op[Ticker].pc = "lock"
    BY <1>2, TickFacts DEF LockSession
  <2>2. label \notin InHand
    BY DEF InHand, Handling
  <2> HIDE DEF label
  <2>3. op'[Ticker].pc = label /\ op'[Ticker].folder = Source /\ op'[Ticker].moved = FALSE
    BY <2>1, TickFacts DEF Ops
  <2> QED
    BY <2>2, <2>3, TickFree
<1>3. CASE UnlockSession(Ticker)
  <2>1. op'[Ticker] = Idle
    BY <1>3, TickFacts DEF UnlockSession
  <2> QED
    BY <2>1, TickFree DEF Idle, InHand, Handling
<1> QED
    BY <1>1, <1>2, <1>3

(* The end of a round, and of the rounds.                                   *)
LEMMA TickRoundOver ==
    ASSUME Now, NEW counts \in BOOLEAN, op'[Ticker] = RoundOver(Ticker, counts)
    PROVE  TickHolds(op[Ticker], op[Ticker].found)'
BY TickFacts, TickFree, RoundOverFields DEF Now, InHand, Handling

(* The rounds are over.                                                     *)
LEMMA TickUnlocks ==
    ASSUME Now, op[Ticker].pc = "search", op'[Ticker] = [op[Ticker] EXCEPT !.pc = "unlock"]
    PROVE  TickHolds(op[Ticker], op[Ticker].found)'
<1>1. op'[Ticker].pc = "unlock" /\ op'[Ticker].folder = Source /\ op'[Ticker].moved = FALSE
    BY TickFacts DEF Ops
<1> QED
    BY <1>1, TickFree DEF InHand, Handling

(* The search finds nothing whose actions a tick has run.                   *)
LEMMA TickSearches ==
    ASSUME Setting, Now, [Next]_vars, SearchMessages(Ticker)
    PROVE  TickHolds(op[Ticker], op[Ticker].found)'
<1>1. /\ op[Ticker].pc = "search" /\ op[Ticker].sess = Startup
      /\ UNCHANGED <<loc, uid, seen, runs, outcome, hides>>
      /\ sel' = [sel EXCEPT ![Startup] = Source]
    BY TickFacts DEF SearchMessages, Now, Undisturbed, mail, given, ghosts
<1>2. CASE op' = [op EXCEPT ![Ticker].pc = "unlock"]
    BY <1>1, <1>2, TickFacts, TickUnlocks
<1>3. CASE op' = [op EXCEPT ![Ticker] = RoundOver(Ticker, TRUE)]
    BY <1>3, TickFacts, TickRoundOver
<1>4. ASSUME NEW m \in SearchResult(op[Ticker].folder, op[Ticker].floor),
             op' = [op EXCEPT ![Ticker] = Finds(Ticker, m)]
      PROVE  TickHolds(op[Ticker], op[Ticker].found)'
  <2>1. m \in Messages /\ loc[m] = Source /\ ~(hides /\ seen[m])
    BY TickFacts DEF SearchResult, Found
  <2>2. /\ op'[Ticker].pc = "fetch" /\ op'[Ticker].hit = uid[m] /\ op'[Ticker].found = m
        /\ op'[Ticker].folder = Source /\ op'[Ticker].moved = FALSE
    BY <1>1, <1>4, TickFacts DEF Finds, Ops
  <2>3. uid[m] # 0
    BY <2>1, MailAssumption DEF Now, Once, UidsGiven
  <2>4. sel'[Startup] = Source
    BY <1>1, MailAssumption DEF Now, MailInv, SessionsOK
  <2>5. Promised(m) => runs[m] = 0
    BY <1>1, <2>1 DEF Now, Once, Counted, Handled, Handling
  <2>6. Promised(m)' = Promised(m)
    BY <1>1 DEF Promised, MovesOut
  <2> QED
    BY <1>1, <2>1, <2>2, <2>3, <2>4, <2>5, <2>6 DEF TickHolds, InHand, Handling, Promised, MovesOut
<1> QED
    BY <1>2, <1>3, <1>4 DEF SearchMessages

(* A round, or all of them, that ends without a fetch.                      *)
LEMMA TickEndsRound ==
    ASSUME Now, LimitReached(Ticker) \/ SearchFails(Ticker) \/ FetchFails(Ticker)
    PROVE  TickHolds(op[Ticker], op[Ticker].found)'
<1>1. CASE LimitReached(Ticker) \/ SearchFails(Ticker)
    BY <1>1, TickFacts, TickUnlocks DEF LimitReached, SearchFails
<1>2. CASE FetchFails(Ticker)
    BY <1>2, TickFacts, TickRoundOver DEF FetchFails
<1> QED
    BY <1>1, <1>2

(* A tick at work looks for its message on the one session there is.        *)
LEMMA TickAims ==
    ASSUME Now
    PROVE  /\ op[Ticker].pc # "idle" => op[Ticker].sess = Startup
           /\ Focus(op[Ticker])
           /\ closed = {} /\ cur = Startup /\ ~fails
           /\ Startup \in Sessions
BY TickFacts, MailAssumption DEF Now, Undisturbed, Calm

(* The tick fetches the message its search found.                           *)
LEMMA TickFetches ==
    ASSUME Now, FetchMessage(Ticker)
    PROVE  TickHolds(op[Ticker], op[Ticker].found)'
<1> DEFINE m == op[Ticker].found
<1>1. /\ op[Ticker].pc = "fetch" /\ Ready(Startup)
      /\ Aim(sel[Startup], op[Ticker].hit, m)
      /\ UNCHANGED <<loc, uid, sel, runs, outcome, hides>>
    BY TickAims DEF FetchMessage, mail, sessions, given, Focus
<1>2. TickHolds(op[Ticker], m)
    BY DEF Now, Once
<1>3. PICK k \in At(Startup, op[Ticker].hit) :
        op' = [op EXCEPT ![Ticker] =
             IF Ticker \notin Processors THEN RoundOver(Ticker, TRUE)
             ELSE IF outcome[k].err THEN RoundOver(Ticker, Ticker = Ticker)
             ELSE IF outcome[k].match
                  THEN [op[Ticker] EXCEPT !.pc = "exec", !.msg = k, !.acts = outcome[k].acts]
             ELSE [RoundOver(Ticker, TRUE) EXCEPT
                      !.skip = IF Ticker = Ticker THEN @ \cup {op[Ticker].hit} ELSE @]]
    BY <1>1, TickAims DEF FetchMessage
<1>4. k = m
    BY <1>1, <1>3, OnTarget
<1>5. CASE outcome[m].err
    BY <1>3, <1>4, <1>5, TickFacts, TickRoundOver
<1>6. CASE ~outcome[m].err /\ outcome[m].match
  <2>1. op'[Ticker] = [op[Ticker] EXCEPT !.pc = "exec", !.msg = m, !.acts = outcome[m].acts]
    BY <1>3, <1>4, <1>6, TickFacts
  <2>2. /\ op'[Ticker].pc = "exec" /\ op'[Ticker].msg = m /\ op'[Ticker].acts = outcome[m].acts
        /\ op'[Ticker].found = m /\ op'[Ticker].hit = op[Ticker].hit
        /\ op'[Ticker].folder = Source /\ op'[Ticker].moved = FALSE
    BY <1>1, <2>1, TickFacts DEF Ops
  <2>3. Promised(m)' = Promised(m)
    BY <1>1, <2>2 DEF Promised, MovesOut
  <2>4. m \in Messages /\ uid[m] # 0
        /\ (loc[m] = Source => sel[Startup] = Source /\ uid[m] = op[Ticker].hit)
        /\ (Promised(m) => runs[m] = 0)
    BY <1>1, <1>2 DEF TickHolds, InHand
  <2>5. op'[Ticker].found = m /\ outcome'[m].match /\ ~outcome'[m].err
    BY <1>1, <1>6, <2>2
  <2>6. Promised(m)' => Promised(m)
    BY <2>3
  <2> QED
    BY <1>1, <2>2, <2>4, <2>5, <2>6 DEF TickHolds, InHand, Handling, Promised, MovesOut
<1>7. CASE ~outcome[m].err /\ ~outcome[m].match
  <2> DEFINE r == RoundOver(Ticker, TRUE)
  <2>1. op'[Ticker] = [r EXCEPT !.skip = r.skip \cup {op[Ticker].hit}]
    BY <1>3, <1>4, <1>7, TickFacts
  <2>2. r \in Ops /\ r.pc = "search" /\ r.moved = FALSE /\ r.folder = Source
    BY TickFacts, RoundOverFields DEF Now
  <2> HIDE DEF r
  <2>3. op'[Ticker].pc = "search" /\ op'[Ticker].moved = FALSE /\ op'[Ticker].folder = Source
    BY <2>1, <2>2 DEF Ops
  <2> QED
    BY <2>3, TickFree DEF InHand, Handling
<1> QED
    BY <1>5, <1>6, <1>7

(* If the message moves out, some action of its rule moves it.              *)
LEMMA TickExecutes ==
    ASSUME Now, ExecuteActions(Ticker)
    PROVE  TickHolds(op[Ticker], op[Ticker].found)'
<1> DEFINE m == op[Ticker].found
<1>1. /\ op[Ticker].pc = "exec"
      /\ UNCHANGED <<loc, uid, sel, outcome, hides>>
      /\ op'[Ticker] = [op[Ticker] EXCEPT !.pc = "act", !.exec = cur, !.eff = op[Ticker].hit]
    BY TickFacts DEF ExecuteActions, mail, sessions, given
<1>2. TickHolds(op[Ticker], m)
    BY DEF Now, Once
<1>3. /\ op'[Ticker].pc = "act" /\ op'[Ticker].acts = op[Ticker].acts
      /\ op'[Ticker].found = m /\ op'[Ticker].hit = op[Ticker].hit
      /\ op'[Ticker].folder = Source /\ op'[Ticker].moved = FALSE
    BY <1>1, TickFacts DEF Ops
<1>4. m \in Messages /\ uid[m] # 0 /\ op[Ticker].acts = outcome[m].acts
      /\ (loc[m] = Source => sel[Startup] = Source /\ uid[m] = op[Ticker].hit)
    BY <1>1, <1>2 DEF TickHolds, InHand
<1>5. MovesOut(m) => \E i \in DOMAIN op[Ticker].acts : Leaves(op[Ticker].acts[i])
    BY <1>4 DEF MovesOut, Leaves
<1> HIDE DEF m
<1>6. outcome' = outcome /\ op'[Ticker].found = m
    BY <1>1, <1>3
<1>7. MovesOut(op[Ticker].found)' => MovesOut(m)
    BY <1>6 DEF MovesOut
<1>8. MovesOut(op[Ticker].found)' =>
        \E i \in DOMAIN op'[Ticker].acts : Leaves(op'[Ticker].acts[i])
    BY <1>3, <1>5, <1>7 DEF Leaves
<1> QED
    BY <1>1, <1>3, <1>4, <1>8 DEF TickHolds, InHand, Handling, m

(* An action that takes mail out is among the rest if it is not the first.  *)
LEMMA TailLeaves ==
    ASSUME NEW s \in Seq(Actions), s # <<>>, ~Leaves(Head(s)),
           \E i \in DOMAIN s : Leaves(s[i])
    PROVE  \E i \in DOMAIN Tail(s) : Leaves(Tail(s)[i])
<1>1. PICK i \in DOMAIN s : Leaves(s[i])
    OBVIOUS
<1>2. i # 1
    BY <1>1
<1>3. i - 1 \in DOMAIN Tail(s) /\ Tail(s)[i - 1] = s[i]
    BY <1>1, <1>2
<1> QED
    BY <1>1, <1>3

(* An action other than a move leaves those that move.                      *)
LEMMA TickNextAction ==
    ASSUME Now, op[Ticker].pc = "act", op[Ticker].acts # <<>>, NextAction(Ticker),
           UNCHANGED <<loc, uid, sel, runs, outcome, hides>>,
           loc[op[Ticker].found] = Source => ~Leaves(Action(Ticker))
    PROVE  TickHolds(op[Ticker], op[Ticker].found)'
<1> DEFINE m == op[Ticker].found
           rest == Tail(op[Ticker].acts)
<1>1. op'[Ticker] = [op[Ticker] EXCEPT !.acts = rest]
    BY TickFacts DEF NextAction
<1>2. TickHolds(op[Ticker], m)
    BY DEF Now, Once
<1>3. /\ op'[Ticker].pc = "act" /\ op'[Ticker].acts = rest
      /\ op'[Ticker].found = m /\ op'[Ticker].hit = op[Ticker].hit
      /\ op'[Ticker].folder = Source /\ op'[Ticker].moved = op[Ticker].moved
    BY <1>1, TickFacts DEF Ops
<1>4. op[Ticker].acts \in Seq(Actions)
    BY TickFacts DEF Ops
<1>5. loc[m] = Source /\ MovesOut(m) => \E i \in DOMAIN rest : Leaves(rest[i])
    BY <1>2, <1>4, TailLeaves DEF TickHolds, Action
<1> HIDE DEF rest
<1>6. m \in Messages /\ uid[m] # 0
      /\ (loc[m] = Source => sel[Startup] = Source /\ uid[m] = op[Ticker].hit
                             /\ ~op[Ticker].moved)
    BY <1>2 DEF TickHolds, InHand, Handling
<1>7. MovesOut(m)' => MovesOut(m)
    BY <1>3 DEF MovesOut
<1> QED
    BY <1>3, <1>5, <1>6, <1>7 DEF TickHolds, InHand, Handling, MovesOut

(* While its message is in the source no move of a tick fails.              *)
LEMMA TickSkips ==
    ASSUME Setting, Now, ActionSkipped(Ticker)
    PROVE  TickHolds(op[Ticker], op[Ticker].found)'
<1>1. /\ op[Ticker].pc = "act" /\ op[Ticker].acts # <<>> /\ NextAction(Ticker)
      /\ op[Ticker].exec = Startup
      /\ UNCHANGED <<loc, uid, sel, runs, outcome, hides>>
    BY TickAims DEF ActionSkipped, HasAction, mail, sessions, given, ghosts, Focus
<1>2. ASSUME loc[op[Ticker].found] = Source
      PROVE  ~Leaves(Action(Ticker))
  <2>1. sel[Startup] = Source
    BY <1>1, <1>2 DEF Now, Once, TickHolds, InHand, Handling
  <2>2. ~MayFail(op[Ticker].exec)
    BY <1>1, <2>1, TickAims, MailAssumption DEF MayFail, Ready
  <2>3. ~(HasAction(Ticker, {"move_to_folder", "delete"}) /\ Full(MoveDest(Ticker)))
    BY TickFacts, DestFact DEF Setting, Now, Once, Calm, Room
  <2>4. HasAction(Ticker, {"effect"})
    BY <2>2, <2>3 DEF ActionSkipped
  <2> QED
    BY <2>4 DEF HasAction, Leaves
<1> QED
    BY <1>1, <1>2, TickNextAction

(* Neither do the actions that change flags.                                *)
LEMMA TickMarks ==
    ASSUME Now, MarkAs(Ticker)
    PROVE  TickHolds(op[Ticker], op[Ticker].found)'
<1>1. /\ op[Ticker].pc = "act" /\ op[Ticker].acts # <<>> /\ NextAction(Ticker)
      /\ UNCHANGED <<loc, uid, sel, runs, outcome, hides>>
    BY DEF MarkAs, StoreSeen, HasAction, sessions, given
<1>2. ~Leaves(Action(Ticker))
    BY DEF MarkAs, HasAction, Leaves
<1> QED
    BY <1>1, <1>2, TickNextAction

(* A tick whose message has left the source.                                *)
LEMMA TickGone ==
    ASSUME op'[Ticker].folder = Source, op'[Ticker].pc \in {"act", "select"},
           op'[Ticker].found \in Messages, uid'[op'[Ticker].found] # 0,
           loc'[op'[Ticker].found] # Source
    PROVE  TickHolds(op[Ticker], op[Ticker].found)'
BY DEF TickHolds, InHand, Handling

(* A move takes the message out, unless it has left.                        *)
LEMMA TickMoves ==
    ASSUME Setting, Now, MoveMessage(Ticker)
    PROVE  TickHolds(op[Ticker], op[Ticker].found)'
<1> DEFINE m == op[Ticker].found
<1>1. /\ op[Ticker].pc = "act" /\ op[Ticker].exec = Startup /\ Ready(Startup)
      /\ Aim(sel[Startup], op[Ticker].eff, m)
      /\ ~op[Ticker].moved => op[Ticker].eff = op[Ticker].hit
    BY TickAims DEF MoveMessage, HasAction, Focus
<1>2. /\ m \in Messages /\ uid[m] # 0
      /\ loc[m] = Source =>
            sel[Startup] = Source /\ uid[m] = op[Ticker].hit /\ ~op[Ticker].moved
    BY <1>1 DEF Now, Once, TickHolds, InHand, Handling
<1>3. ASSUME op' = [op EXCEPT ![Ticker].acts = <<>>],
             uid'[m] # 0, loc'[m] # Source
      PROVE  TickHolds(op[Ticker], op[Ticker].found)'
  <2>1. op'[Ticker] = [op[Ticker] EXCEPT !.acts = <<>>]
    BY <1>3, TickFacts
  <2>2. op'[Ticker].pc = "act" /\ op'[Ticker].found = m /\ op'[Ticker].folder = Source
    BY <1>1, <2>1, TickFacts DEF Ops
  <2> QED
    BY <1>2, <1>3, <2>2, TickGone
<1>4. CASE At(Startup, op[Ticker].eff) = {}
  <2>1. op' = [op EXCEPT ![Ticker].acts = <<>>] /\ UNCHANGED mail
    BY <1>1, <1>4 DEF MoveMessage
  <2>2. loc[m] # Source
    BY <1>1, <1>2, <1>4 DEF At
  <2> QED
    BY <1>2, <1>3, <2>1, <2>2 DEF mail
<1>5. ASSUME NEW k \in At(Startup, op[Ticker].eff), NEW reported \in UIDPlus,
             Put(k, MoveDest(Ticker)),
             op' = [op EXCEPT ![Ticker] =
                      IF reported THEN [op[Ticker] EXCEPT !.pc = "select", !.moved = TRUE,
                                                !.eff = uidNext[MoveDest(Ticker)]]
                      ELSE [op[Ticker] EXCEPT !.acts = <<>>]]
      PROVE  TickHolds(op[Ticker], op[Ticker].found)'
  <2>1. k = m
    BY <1>1, OnTarget
  <2>2. MoveDest(Ticker) \in Folders /\ MoveDest(Ticker) # Source
    BY TickFacts, DestFact DEF MoveMessage, Setting, Now, Once
  <2>3. uid'[m] # 0 /\ loc'[m] # Source
    BY <1>2, <1>5, <2>1, <2>2 DEF Put, Now, MailInv, MailOK
  <2>4. CASE ~reported
    BY <1>3, <1>5, <2>3, <2>4
  <2>5. CASE reported
    <3> DEFINE u == uidNext[MoveDest(Ticker)]
    <3>1. op'[Ticker] = [op[Ticker] EXCEPT !.pc = "select", !.moved = TRUE, !.eff = u]
        BY <1>5, <2>5, TickFacts
    <3> HIDE DEF u
    <3>2. op'[Ticker].pc = "select" /\ op'[Ticker].found = m /\ op'[Ticker].folder = Source
        BY <3>1, TickFacts DEF Ops
    <3> QED
        BY <1>2, <2>3, <3>2, TickGone
  <2> QED
    BY <2>4, <2>5
<1> QED
    BY <1>1, <1>4, <1>5 DEF MoveMessage

(* After a move it works on the message where it is now.                    *)
LEMMA TickSelects ==
    ASSUME Now, SelectMailbox(Ticker)
    PROVE  TickHolds(op[Ticker], op[Ticker].found)'
<1> DEFINE rest == Tail(op[Ticker].acts)
<1>1. op[Ticker].pc = "select" /\ UNCHANGED mail
      /\ op'[Ticker] = [op[Ticker] EXCEPT !.pc = "act", !.acts = rest]
    BY TickFacts DEF SelectMailbox
<1> HIDE DEF rest
<1>2. /\ op'[Ticker].pc = "act" /\ op'[Ticker].found = op[Ticker].found
      /\ op'[Ticker].folder = Source
    BY <1>1, TickFacts DEF Ops
<1>3. /\ op[Ticker].found \in Messages /\ uid[op[Ticker].found] # 0
      /\ loc[op[Ticker].found] # Source
    BY <1>1 DEF Now, Once, TickHolds, InHand, Handling
<1> QED
    BY <1>1, <1>2, <1>3, TickGone DEF mail

(* No actions are left only if none was to move the message, or one did.    *)
LEMMA TickActionsDone ==
    ASSUME Now, ActionsDone(Ticker)
    PROVE  TickHolds(op[Ticker], op[Ticker].found)'
<1> DEFINE m == op[Ticker].found
<1>1. /\ op[Ticker].pc = "act" /\ op[Ticker].acts = <<>>
      /\ UNCHANGED <<loc, uid, sel, outcome, hides>>
    BY DEF ActionsDone, mail, sessions, given
<1>2. TickHolds(op[Ticker], m)
    BY DEF Now, Once
<1>3. CASE op[Ticker].moved
    BY <1>3, TickFacts, TickRoundOver DEF ActionsDone
<1>4. CASE ~op[Ticker].moved
  <2>1. op'[Ticker] = [op[Ticker] EXCEPT !.pc = "seen"]
    BY <1>4, TickFacts DEF ActionsDone
  <2>2. /\ op'[Ticker].pc = "seen" /\ op'[Ticker].found = m
        /\ op'[Ticker].hit = op[Ticker].hit /\ op'[Ticker].folder = Source
        /\ op'[Ticker].moved = op[Ticker].moved
    BY <2>1, TickFacts DEF Ops
  <2>3. MovesOut(m)' => MovesOut(m)
    BY <1>1, <2>2 DEF MovesOut
  <2>4. /\ m \in Messages /\ uid[m] # 0
        /\ loc[m] = Source => sel[Startup] = Source /\ uid[m] = op[Ticker].hit
    BY <1>1, <1>2 DEF TickHolds, InHand, Handling
  <2>5. MovesOut(m) => loc[m] # Source
    BY <1>1, <1>2 DEF TickHolds
  <2> QED
    BY <1>1, <1>4, <2>2, <2>3, <2>4, <2>5 DEF TickHolds, InHand, Handling
<1> QED
    BY <1>3, <1>4

(* Every turn of the tick.                                                  *)
LEMMA TickKept ==
    ASSUME Setting, Now, [Next]_vars
    PROVE  TickHolds(op[Ticker], op[Ticker].found)'
<1>1. CASE Others \/ \E a \in Actors \ {Ticker} : Turn(a)
    BY <1>1, TickRests
<1>2. CASE Turn(Ticker)
  <2>1. Ticker \notin Applies /\ Ticker \notin Testers /\ Ticker \notin Seeders
    BY MailAssumption
  <2>2. CASE BeginTick \/ LockSession(Ticker) \/ UnlockSession(Ticker)
    BY <2>2, TickBegins
  <2>3. CASE Round(Ticker)
    BY <2>3, TickSearches, TickEndsRound, TickFetches DEF Round
  <2>4. ASSUME MarkHandled(Ticker)
        PROVE  TickHolds(op[Ticker], op[Ticker].found)'
    BY <2>4, TickFacts, TickRoundOver DEF MarkHandled
  <2>5. CASE Execute(Ticker)
    BY <2>4, <2>5, TickExecutes, TickSkips, TickMoves, TickSelects, TickMarks,
       TickActionsDone DEF Execute
  <2> QED
    BY <1>2, <2>1, <2>2, <2>3, <2>5 DEF Turn, Step
<1> QED
    BY <1>1, <1>2, OneTurn

-----------------------------------------------------------------------------
(* What operations have in hand. *)

(* Only a search changes what an operation has in hand; what it has after   *)
(* any other turn it had before.                                            *)
LEMMA HandKept ==
    ASSUME MailInv, NEW a \in Actors, Turn(a), ~SearchMessages(a), op'[a].pc \in InHand
    PROVE  op[a].pc \in InHand /\ op'[a].found = op[a].found
<1> DEFINE Goal == op[a].pc \in InHand /\ op'[a].found = op[a].found
<1>1. op \in [Actors -> Ops] /\ op[a] \in Ops
    BY DEF MailInv
<1>2. ASSUME NEW o, op' = [op EXCEPT ![a] = o]
      PROVE  op'[a] = o
    BY <1>1, <1>2
<1>3. ~\E counts \in BOOLEAN : op'[a] = RoundOver(a, counts)
    BY RoundOverFields DEF InHand, Handling
<1>4. CASE a = Ticker /\ BeginTick
    BY <1>2, <1>4 DEF BeginTick, Begin, Idle, InHand, Handling
<1>5. CASE BeginApply(a) \/ BeginTest(a)
  <2>1. PICK s, f : op'[a] = [Idle EXCEPT !.pc = "lock", !.sess = s, !.folder = f]
    BY <1>2, <1>5 DEF BeginApply, BeginTest, Begin
  <2> QED
    BY <2>1 DEF Idle, InHand, Handling
<1>6. CASE BeginSeed(a)
  <2> DEFINE label == IF a \in MCPSeeders THEN "lock" ELSE "folders"
  <2>1. op'[a] = [Idle EXCEPT !.pc = label, !.sess = Startup, !.left = Folders]
    BY <1>2, <1>6 DEF BeginSeed, Begin
  <2>2. label \notin InHand
    BY DEF InHand, Handling
  <2> HIDE DEF label
  <2> QED
    BY <2>1, <2>2 DEF Idle
<1>7. CASE LockSession(a)
  <2> DEFINE label == IF op[a].left # {} THEN "folders" ELSE "search"
  <2>1. op'[a] = [op[a] EXCEPT !.pc = label]
    BY <1>1, <1>7 DEF LockSession
  <2>2. label \notin InHand
    BY DEF InHand, Handling
  <2> HIDE DEF label
  <2> QED
    BY <1>1, <2>1, <2>2 DEF Ops
<1>8. CASE LimitReached(a) \/ SearchFails(a)
    BY <1>1, <1>8 DEF LimitReached, SearchFails, Ops, InHand, Handling
<1>9. CASE UnlockSession(a)
    BY <1>2, <1>9 DEF UnlockSession, Idle, InHand, Handling
<1>10. CASE FetchFails(a) \/ MarkHandled(a)
    BY <1>2, <1>3, <1>10 DEF FetchFails, MarkHandled
<1>11. CASE FetchMessage(a)
  <2>1. op[a].pc = "fetch" /\ op[a].pc \in InHand
    BY <1>11 DEF FetchMessage, InHand
  <2>2. PICK m \in Messages :
          op' = [op EXCEPT ![a] =
             IF a \notin Processors THEN RoundOver(a, TRUE)
             ELSE IF outcome[m].err THEN RoundOver(a, a = Ticker)
             ELSE IF outcome[m].match
                  THEN [op[a] EXCEPT !.pc = "exec", !.msg = m, !.acts = outcome[m].acts]
             ELSE [RoundOver(a, TRUE) EXCEPT
                      !.skip = IF a = Ticker THEN @ \cup {op[a].hit} ELSE @]]
    BY <1>11 DEF FetchMessage, At
  <2>3. CASE op'[a] = [op[a] EXCEPT !.pc = "exec", !.msg = m, !.acts = outcome[m].acts]
    BY <1>1, <2>1, <2>3 DEF Ops
  <2>4. op'[a] # [RoundOver(a, TRUE) EXCEPT
                      !.skip = IF a = Ticker THEN @ \cup {op[a].hit} ELSE @]
    BY RoundOverFields DEF InHand, Handling, Ops
  <2> QED
    BY <1>2, <1>3, <2>2, <2>3, <2>4
<1>12. CASE ExecuteActions(a)
    BY <1>1, <1>12 DEF ExecuteActions, Ops, InHand, Handling
<1>13. CASE ActionSkipped(a) \/ MarkAs(a)
    BY <1>1, <1>13 DEF ActionSkipped, MarkAs, HasAction, NextAction, Ops, InHand, Handling
<1>14. CASE MoveMessage(a)
  <2>1. op[a].pc = "act" /\ op[a].pc \in InHand
    BY <1>14 DEF MoveMessage, HasAction, InHand, Handling
  <2>2. ASSUME NEW u, op' = [op EXCEPT ![a] = [op[a] EXCEPT !.pc = "select", !.moved = TRUE,
                                                            !.eff = u]]
        PROVE  Goal
    BY <1>1, <2>1, <2>2 DEF Ops
  <2>3. ASSUME op' = [op EXCEPT ![a] = [op[a] EXCEPT !.acts = <<>>]]
        PROVE  Goal
    BY <1>1, <2>1, <2>3 DEF Ops
  <2> QED
    BY <1>14, <2>2, <2>3 DEF MoveMessage
<1>15. CASE SelectMailbox(a)
    BY <1>1, <1>15 DEF SelectMailbox, Ops, InHand, Handling
<1>16. CASE ActionsDone(a)
  <2>1. op[a].pc = "act" /\ op[a].pc \in InHand
    BY <1>16 DEF ActionsDone, InHand, Handling
  <2>2. ASSUME op' = [op EXCEPT ![a] = [op[a] EXCEPT !.pc = "seen"]]
        PROVE  Goal
    BY <1>1, <2>1, <2>2 DEF Ops
  <2> QED
    BY <1>2, <1>3, <1>16, <2>2 DEF ActionsDone
<1>17. CASE Seed(a)
  <2>1. CASE SeedFolder(a)
    <3>1. PICK f, todo : op' = [op EXCEPT ![a] = [op[a] EXCEPT !.pc = "collect", !.left = f,
                                                               !.todo = todo]]
        BY <2>1 DEF SeedFolder
    <3> QED
        BY <1>1, <3>1 DEF Ops, InHand, Handling
  <2>2. CASE SeedFolderFails(a)
    <3>1. PICK left : op' = [op EXCEPT ![a] = [op[a] EXCEPT !.left = left]]
        BY <2>2 DEF SeedFolderFails
    <3> QED
        BY <1>1, <2>2, <3>1 DEF Ops, SeedFolderFails, InHand, Handling
  <2>3. CASE SeedFetch(a)
    <3>1. PICK todo : op' = [op EXCEPT ![a] = [op[a] EXCEPT !.todo = todo]]
        BY <2>3 DEF SeedFetch
    <3> QED
        BY <1>1, <2>3, <3>1 DEF Ops, SeedFetch, InHand, Handling
  <2>4. CASE SeedNext(a)
    BY <1>1, <2>4 DEF SeedNext, Ops, InHand, Handling
  <2> QED
    BY <1>17, <2>1, <2>2, <2>3, <2>4 DEF Seed
<1> QED
    BY <1>4, <1>5, <1>6, <1>7, <1>8, <1>9, <1>10, <1>11, <1>12, <1>13, <1>14, <1>15, <1>16,
       <1>17 DEF Turn, Step, Round, Execute

(* A bulk apply never has to do with mail that ticks are done with.         *)
LEMMA ApplyKept ==
    ASSUME Setting, Now, [Next]_vars, NEW a \in Applies
    PROVE  ApplyHolds(op[a])'
<1> DEFINE m == op[a].found
<1>1. a \in Actors /\ a # Ticker /\ Ticker \in Actors
    BY MailAssumption DEF Actors, Processors
<1>2. UNCHANGED <<outcome, hides>>
    BY GivenStays
<1>3. ASSUME op[a].pc \in InHand
      PROVE  UNCHANGED runs
  <2>1. op[Ticker].pc \notin Working
    BY <1>1, <1>3, TickAlone DEF Now, Setting, InHand, Handling, Working, Labels
  <2>2. ~ExecuteActions(Ticker)
    BY <2>1 DEF ExecuteActions, Working, Labels
  <2> QED
    BY <2>2, OneTurn, OthersFact, TurnRuns DEF Now
<1>4. ASSUME op[a].pc \in InHand, op'[a].found = m
      PROVE  ApplyHolds(op[a])'
  <2>1. /\ m \in Messages
        /\ Promised(m) /\ runs[m] # 0 => loc[m] # Source /\ uid[m] # 0
    BY <1>4 DEF Now, Once, ApplyHolds, Counted
  <2>2. uid[m] # 0 /\ loc[m] # Source => loc'[m] # Source
    BY <2>1, StaysAway DEF Now, Setting, Once
  <2>3. Promised(m)' = Promised(m)
    BY <1>2, <1>4 DEF Promised, MovesOut
  <2> QED
    BY <1>3, <1>4, <2>1, <2>2, <2>3 DEF ApplyHolds
<1>5. CASE SearchMessages(a)
  <2>1. op[a].pc = "search" /\ UNCHANGED <<loc, runs>> /\ op[a] \in Ops
    BY <1>1, <1>5 DEF SearchMessages, mail, ghosts, Now, MailInv
  <2>2. op[Ticker].pc \notin Handling
    BY <1>1, <2>1, TickAlone DEF Now, Setting, Handling, Working, Labels
  <2>3. CASE op' = [op EXCEPT ![a].pc = "unlock"]
    BY <1>1, <2>1, <2>3 DEF ApplyHolds, InHand, Handling, Now, MailInv, Ops
  <2>4. CASE op' = [op EXCEPT ![a] = RoundOver(a, TRUE)]
    <3>1. op'[a] = RoundOver(a, TRUE)
        BY <1>1, <2>4 DEF Now, MailInv
    <3> QED
        BY <1>1, <3>1, RoundOverFields DEF ApplyHolds, InHand, Handling, Now
  <2>5. ASSUME NEW k \in SearchResult(op[a].folder, op[a].floor),
               op' = [op EXCEPT ![a] = Finds(a, k)]
        PROVE  ApplyHolds(op[a])'
    <3>1. k \in Messages /\ ~(hides /\ seen[k])
        BY DEF SearchResult, Found
    <3>2. op'[a].found = k
        BY <1>1, <2>1, <2>5 DEF Finds, Now, MailInv, Ops
    <3>3. Promised(k) /\ runs[k] # 0 => loc[k] # Source
        BY <2>2, <3>1 DEF Now, Once, Counted, Handled
    <3>4. Promised(op[a].found)' => Promised(k)
        BY <1>2, <3>2 DEF Promised, MovesOut
    <3> QED
        BY <2>1, <3>1, <3>2, <3>3, <3>4 DEF ApplyHolds
  <2> QED
    BY <1>5, <2>3, <2>4, <2>5 DEF SearchMessages
<1>6. CASE Others \/ \E b \in Actors \ {a} : Turn(b)
  <2>1. op'[a] = op[a]
    BY <1>1, <1>6, OthersFact, OthersRest DEF Now
  <2> QED
    BY <1>4, <2>1 DEF ApplyHolds
<1>7. CASE Turn(a) /\ ~SearchMessages(a)
  <2>1. op'[a].pc \in InHand => op[a].pc \in InHand /\ op'[a].found = m
    BY <1>1, <1>7, HandKept DEF Now
  <2> QED
    BY <1>4, <2>1 DEF ApplyHolds
<1> QED
    BY <1>1, <1>5, <1>6, <1>7, OneTurn

-----------------------------------------------------------------------------
(* What ticks have done. *)

(* A tick that is over with a message leaves it where ticks do not look.    *)
LEMMA TickLeavesHandled ==
    ASSUME Now, ActionsDone(Ticker) \/ MarkHandled(Ticker),
           op'[Ticker].pc \notin Handling, NEW m, m = op[Ticker].found, Promised(m)
    PROVE  Handled(m)'
<1>1. op[Ticker].pc \in {"act", "seen"} /\ op[Ticker].pc \in InHand
    BY DEF ActionsDone, MarkHandled, InHand, Handling
<1>2. TickHolds(op[Ticker], m)
    BY DEF Now, Once
<1>3. m \in Messages /\ (loc[m] = Source => sel[Startup] = Source /\ uid[m] = op[Ticker].hit)
    BY <1>1, <1>2 DEF TickHolds
<1>4. CASE ActionsDone(Ticker)
  <2>1. op[Ticker].pc = "act" /\ UNCHANGED loc
    BY <1>4 DEF ActionsDone, mail
  <2>2. CASE op[Ticker].moved
    BY <1>2, <2>1, <2>2 DEF TickHolds, Handled
  <2>3. CASE ~op[Ticker].moved
    <3>1. op'[Ticker] = [op[Ticker] EXCEPT !.pc = "seen"]
        BY <1>4, <2>3, TickFacts DEF ActionsDone
    <3>2. op'[Ticker].pc = "seen"
        BY <3>1, TickFacts DEF Ops
    <3> QED
        BY <3>2 DEF Handling
  <2> QED
    BY <2>2, <2>3
<1>5. CASE MarkHandled(Ticker) /\ loc[m] # Source
    BY <1>5 DEF MarkHandled, StoreSeen, Handled, mail
<1>6. CASE MarkHandled(Ticker) /\ loc[m] = Source
  <2>1. op[Ticker].pc = "seen" /\ op[Ticker].sess = Startup
    BY <1>6, TickAims DEF MarkHandled
  <2>2. hides
    BY <1>2, <1>6, <2>1 DEF TickHolds, Promised
  <2>3. ~MayFail(Startup)
    BY <1>3, <1>6, TickAims, MailAssumption DEF MayFail, Ready
  <2>4. StoreSeen(Ticker, Startup, op[Ticker].hit, TRUE)
    BY <1>6, <2>1, <2>3 DEF MarkHandled
  <2>5. m \in At(Startup, op[Ticker].hit)
    BY <1>3, <1>6 DEF At
  <2>6. seen'[m] = TRUE
    BY <1>3, <2>4, <2>5 DEF StoreSeen
  <2>7. hides' = hides
    BY <2>4 DEF StoreSeen, given
  <2> QED
    BY <2>2, <2>6, <2>7 DEF Handled
<1> QED
    BY <1>4, <1>5, <1>6

(* Only the operation that has a message in hand clears its \Seen.          *)
LEMMA SeenKept ==
    ASSUME Setting, Now, [Next]_vars, NEW m \in Messages, seen[m]
    PROVE  \/ seen'[m]
           \/ \E a \in Processors : op[a].pc = "act" /\ MarkAs(a) /\ op[a].found = m
<1>1. CASE UNCHANGED seen
    BY <1>1
<1>2. ASSUME NEW a \in Processors, MarkHandled(a)
      PROVE  seen'[m]
    BY <1>2 DEF MarkHandled, StoreSeen, mail
<1>3. ASSUME NEW a \in Processors, MarkAs(a), op[a].found # m
      PROVE  seen'[m] = seen[m]
  <2>1. /\ op[a].pc = "act" /\ op[a].exec = Startup
        /\ Aim(sel[Startup], op[a].eff, op[a].found)
    BY <1>3 DEF MarkAs, HasAction, Now, Undisturbed, Focus, Actors
  <2>2. StoreSeen(a, Startup, op[a].eff, Action(a).type # "mark_as_unread")
    BY <1>3, <2>1 DEF MarkAs
  <2>3. m \notin At(Startup, op[a].eff)
    BY <1>3, <2>1, <2>2, OnTarget DEF StoreSeen
  <2> QED
    BY <2>2, <2>3 DEF StoreSeen
<1>4. ASSUME NEW a \in Processors, MarkAs(a)
      PROVE  op[a].pc = "act"
    BY <1>4 DEF MarkAs, HasAction
<1>5. \/ UNCHANGED seen
      \/ \E a \in Processors : MarkAs(a) \/ MarkHandled(a)
    BY OneTurn, OthersFact, TurnSeen
<1> QED
    BY <1>1, <1>2, <1>3, <1>4, <1>5

(* Mail that has been handled stays so, or is in the hands of the tick.     *)
LEMMA HandledKept ==
    ASSUME Setting, Now, [Next]_vars, NEW m \in Messages, Promised(m), runs[m] # 0, Handled(m)
    PROVE  \/ Handled(m)'
           \/ op[Ticker].pc = "act" /\ MarkAs(Ticker) /\ op[Ticker].found = m
<1>1. uid[m] # 0
    BY DEF Now, Once, Counted
<1>2. loc[m] # Source => loc'[m] # Source
    BY <1>1, StaysAway DEF Now, Setting, Once
<1>3. ASSUME NEW a \in Applies, op[a].pc = "act", op[a].found = m
      PROVE  loc[m] # Source
    BY <1>3 DEF Now, Once, ApplyHolds, InHand, Handling
<1>4. CASE loc[m] # Source
    BY <1>2, <1>4 DEF Handled
<1>5. CASE loc[m] = Source
  <2>1. hides /\ seen[m] /\ hides' = hides
    BY <1>5, GivenStays DEF Handled
  <2>2. \/ seen'[m]
        \/ \E a \in Processors : op[a].pc = "act" /\ MarkAs(a) /\ op[a].found = m
    BY <2>1, SeenKept
  <2> QED
    BY <1>3, <1>5, <2>1, <2>2 DEF Handled, Processors
<1> QED
    BY <1>4, <1>5

(* A turn of the tick that does not end its work on the message.            *)
LEMMA TickHandles ==
    ASSUME Setting, Now, [Next]_vars, NEW m, op[Ticker].pc \in Handling, op[Ticker].found = m,
           Promised(m)
    PROVE  Handled(m)' \/ (op'[Ticker].pc \in Handling /\ op'[Ticker].found = m)
<1>1. CASE Others \/ \E b \in Actors \ {Ticker} : Turn(b)
    BY <1>1, TickRests
<1>2. CASE Turn(Ticker)
  <2>1. Ticker \notin Applies /\ Ticker \notin Testers /\ Ticker \notin Seeders
    BY MailAssumption
  <2>2. op[Ticker].pc \in {"act", "select", "seen"}
    BY DEF Handling
  <2>3. \/ ActionSkipped(Ticker) \/ MoveMessage(Ticker) \/ SelectMailbox(Ticker)
        \/ MarkAs(Ticker) \/ ActionsDone(Ticker) \/ MarkHandled(Ticker)
    BY <1>2, <2>1, <2>2 DEF Turn, BeginTick, Begin, Step, LockSession, UnlockSession, Round,
       LimitReached, SearchFails, SearchMessages, FetchFails, FetchMessage, Execute,
       ExecuteActions
  <2>4. CASE ActionsDone(Ticker) \/ MarkHandled(Ticker)
    <3>1. CASE op'[Ticker].pc \notin Handling
        BY <2>4, <3>1, TickLeavesHandled
    <3>2. CASE op'[Ticker].pc \in Handling
        <4>1. op'[Ticker].found = op[Ticker].found
            BY <1>2, <2>2, <3>2, TickFacts, HandKept DEF Now, InHand, Handling, SearchMessages
        <4> QED
            BY <3>2, <4>1
    <3> QED
        BY <3>1, <3>2
  <2>5. CASE \/ ActionSkipped(Ticker) \/ MoveMessage(Ticker) \/ SelectMailbox(Ticker)
             \/ MarkAs(Ticker)
    <3>1. op'[Ticker].pc \in {"act", "select"}
      <4>1. CASE ActionSkipped(Ticker) \/ MarkAs(Ticker)
        BY <4>1, TickFacts DEF ActionSkipped, MarkAs, HasAction, NextAction, Ops
      <4>2. CASE SelectMailbox(Ticker)
        BY <4>2, TickFacts DEF SelectMailbox, Ops
      <4>3. CASE MoveMessage(Ticker)
        <5>1. ASSUME NEW u, op' = [op EXCEPT ![Ticker] = [op[Ticker] EXCEPT !.pc = "select",
                                                          !.moved = TRUE, !.eff = u]]
              PROVE  op'[Ticker].pc \in {"act", "select"}
            BY <5>1, TickFacts DEF Ops
        <5>2. ASSUME op' = [op EXCEPT ![Ticker] = [op[Ticker] EXCEPT !.acts = <<>>]]
              PROVE  op'[Ticker].pc \in {"act", "select"}
            BY <4>3, <5>2, TickFacts DEF Ops, MoveMessage, HasAction
        <5> QED
            BY <4>3, <5>1, <5>2 DEF MoveMessage
      <4> QED
        BY <2>5, <4>1, <4>2, <4>3
    <3>2. op'[Ticker].found = op[Ticker].found
        BY <1>2, <2>2, <3>1, TickFacts, HandKept DEF Now, InHand, Handling, SearchMessages
    <3> QED
        BY <3>1, <3>2 DEF Handling
  <2> QED
    BY <2>3, <2>4, <2>5
<1> QED
    BY <1>1, <1>2, OneTurn

(* A tick runs the actions of a message once.                               *)
LEMMA CountedKept ==
    ASSUME Setting, Now, [Next]_vars
    PROVE  Counted'
<1> SUFFICES ASSUME NEW m \in Messages, Promised(m)'
             PROVE  /\ runs'[m] <= 1
                    /\ runs'[m] # 0 =>
                          /\ uid'[m] # 0
                          /\ \/ Handled(m)'
                             \/ op'[Ticker].pc \in Handling /\ op'[Ticker].found = m
    BY DEF Counted
<1>1. Promised(m)
    BY GivenStays DEF Promised, MovesOut
<1>2. /\ runs[m] <= 1
      /\ runs[m] # 0 =>
            /\ uid[m] # 0
            /\ Handled(m) \/ (op[Ticker].pc \in Handling /\ op[Ticker].found = m)
    BY <1>1 DEF Now, Once, Counted
<1>3. uid[m] # 0 => uid'[m] # 0
    BY StepMoves, UidsGrow, MailAssumption DEF Now, MailInv
<1>4. CASE runs'[m] = runs[m]
  <2>1. ASSUME runs[m] # 0
        PROVE  Handled(m)' \/ (op'[Ticker].pc \in Handling /\ op'[Ticker].found = m)
    <3>1. CASE op[Ticker].pc \in Handling /\ op[Ticker].found = m
        BY <1>1, <3>1, TickHandles
    <3>2. CASE Handled(m)
        BY <1>1, <2>1, <3>1, <3>2, HandledKept DEF Handling
    <3> QED
        BY <1>2, <2>1, <3>1, <3>2
  <2> QED
    BY <1>2, <1>3, <1>4, <2>1
<1>5. CASE runs'[m] # runs[m]
  <2>1. ExecuteActions(Ticker)
    BY <1>5, OneTurn, OthersFact, TurnRuns DEF Now
  <2>2. /\ op[Ticker].pc = "exec"
        /\ runs' = [runs EXCEPT ![op[Ticker].msg] = IF Ticker = Ticker /\ @ < 2 THEN @ + 1 ELSE @]
        /\ op'[Ticker] = [op[Ticker] EXCEPT !.pc = "act", !.exec = cur, !.eff = op[Ticker].hit]
    BY <2>1, TickFacts DEF ExecuteActions
  <2>3. op'[Ticker].pc = "act" /\ op'[Ticker].found = op[Ticker].found
    BY <2>2, TickFacts DEF Ops
  <2>4. op[Ticker].msg = op[Ticker].found /\ uid[op[Ticker].found] # 0
        /\ (Promised(op[Ticker].found) => runs[op[Ticker].found] = 0)
    BY <2>2 DEF Now, Once, TickHolds, InHand
  <2>5. m = op[Ticker].found
    BY <1>5, <2>2, <2>4 DEF Now, MailInv, GhostsOK
  <2>6. runs[m] = 0
    BY <1>1, <2>4, <2>5
  <2>7. runs'[m] = 1
    BY <2>2, <2>4, <2>5, <2>6 DEF Now, MailInv, GhostsOK
  <2> QED
    BY <1>3, <2>3, <2>4, <2>5, <2>7 DEF Handling
<1> QED
    BY <1>4, <1>5

-----------------------------------------------------------------------------
(* The invariant and the theorem. *)

(* At first no UIDs are without mail, no actions at hand and none were run. *)
LEMMA OnceInit ==
    ASSUME Init
    PROVE  OnceInv
<1>1. \A a \in Actors : op[a] = Idle
    BY DEF Init
<1>2. /\ Idle.pc = "idle" /\ Idle.acts = <<>> /\ Idle.folder = Source /\ Idle.moved = FALSE
    BY DEF Idle
<1>3. UidsGiven
    BY DEF Init, UidsGiven
<1>4. NoReturns
    BY <1>1, <1>2 DEF NoReturns
<1>5. Counted
    BY DEF Init, Counted
<1>6. Ticker \in Actors /\ Applies \subseteq Actors
    BY DEF Actors, Processors
<1>7. TickHolds(op[Ticker], op[Ticker].found)
    BY <1>1, <1>2, <1>6 DEF TickHolds, InHand, Handling
<1>8. \A a \in Applies : ApplyHolds(op[a])
    BY <1>1, <1>2, <1>6 DEF ApplyHolds, InHand, Handling
<1> QED
    BY <1>3, <1>4, <1>5, <1>7, <1>8 DEF OnceInv, Once

(* A reconnect, or a folder come to the bound, is for good.                 *)
LEMMA CalmBefore ==
    ASSUME MailInv, AimInv, AimInv', [Next]_vars, Calm'
    PROVE  Calm
<1>1. ~fails
    BY GivenStays DEF Calm
<1>2. Room
    BY StepMoves, UidsGrow, MailAssumption DEF Calm, MailInv
<1>3. cur = Startup
  <2>1. Undisturbed' /\ cur' = Startup
    BY DEF Calm, AimInv
  <2>2. cur' = cur \/ Swap
    BY DEF Next, BeginTick, BeginApply, BeginTest, BeginSeed, Begin, Step, LockSession,
        UnlockSession, Round, LimitReached, SearchFails, SearchMessages, FetchFails,
        FetchMessage, Execute, ExecuteActions, ActionSkipped, MoveMessage, SelectMailbox,
        MarkAs, StoreSeen, ActionsDone, MarkHandled, Seed, SeedFolder, SeedFolderFails,
        SeedFetch, SeedNext, CloseRetired, Environment, Deliver, UserRemoves, vars, sessions
  <2>3. ~Swap
    BY <2>1 DEF Swap, Undisturbed
  <2> QED
    BY <2>1, <2>2, <2>3
<1> QED
    BY <1>1, <1>2, <1>3 DEF Calm

(* Every step keeps it.                                                     *)
LEMMA OnceNext ==
    ASSUME Setting, MailInv, AimInv, AimInv', OnceInv, [Next]_vars
    PROVE  OnceInv'
<1> SUFFICES ASSUME Calm'
             PROVE  Once'
    BY DEF OnceInv
<1>1. Now
    BY CalmBefore DEF Now, OnceInv, AimInv, Calm
<1>2. UidsGiven'
    BY <1>1, StepMoves, UidsGrow, MailAssumption DEF Now, MailInv, Once
<1>3. NoReturns'
    BY <1>1, NoReturnsKept DEF Now, Once, Setting
<1>4. TickHolds(op[Ticker], op[Ticker].found)'
    BY <1>1, TickKept
<1>5. \A a \in Applies : ApplyHolds(op[a])'
    BY <1>1, ApplyKept
<1> QED
    BY <1>1, <1>2, <1>3, <1>4, <1>5, CountedKept DEF Once

(* CHANGELOG, of a matched message: it "isn't re-processed ... on every     *)
(* poll".  While every operation locks its session, ticks run the actions   *)
(* of a message at most once in its life, whatever other operations do to   *)
(* it in between, if the rules never move mail to the folder the poller     *)
(* watches: such a rule does run again on every poll, because executeActions*)
(* takes the message for moved out.  The bound on UIDs, which the program   *)
(* does not have, is not to be met.                                         *)
THEOREM ActionsRunOnce ==
    ASSUME WebSeeders = {}, NothingReturns
    PROVE  Spec => [](Room => ActedOnce)
<1>1. Setting
    BY DEF Setting
<1>2. MailInv /\ AimInv /\ [Next]_vars => AimInv'
    BY AimNext
<1>3. MailInv /\ AimInv /\ AimInv' /\ OnceInv /\ [Next]_vars => OnceInv'
    BY <1>1, OnceNext
<1>4. Init => OnceInv
    BY OnceInit
<1>5. OnceInv => (Room => ActedOnce)
    BY DEF OnceInv, Calm, Once, Counted, Promised, ActedOnce
<1> QED
    BY <1>2, <1>3, <1>4, <1>5, AimInit, MailInvariant, PTL DEF Spec
=============================================================================
