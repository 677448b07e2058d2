--------------------------- MODULE ServicesProofs ---------------------------
(***************************************************************************)
(* Proofs about AutoReply, Backup and Folders, for any number of workers,  *)
(* requests, senders, days and mailboxes, and about the composition of all *)
(* the components that share no state, MCServices.                         *)
(***************************************************************************)
EXTENDS MCServices, WebProofs

(* The throttle of auto replies: AutoReply.                                 *)

(* Who is at an auto reply has locked a session. *)
InSession == \A w \in Workers : holds[w] = 0 <=> at[w] = "idle"

(* While nothing interferes, one worker at a time is at an auto reply. *)
Alone ==
    ~slipped => \A v, w \in Workers : at[v] # "idle" /\ at[w] # "idle" => v = w

(* A reply about to be recorded went out today or just before midnight. *)
Sent ==
    \A w \in Workers :
       at[w] = "record" =>
          /\ sentOn[w] \in {today, today - 1}
          /\ replies[from[w]][sentOn[w]] > 0

(* Nothing goes out on a day to come. *)
NotYet == \A s \in Senders, d \in Days : d > today => replies[s][d] = 0

(* A reply that went out today has its slot or is about to be recorded. *)
Accounted ==
    ~slipped => \A s \in Senders :
       replies[s][today] > 0 =>
          <<s, today>> \in log \/ \E w \in Workers : at[w] = "record" /\ from[w] = s

(* Who is about to send has sent nothing today. *)
Free ==
    ~slipped => \A w \in Workers : at[w] = "send" => replies[from[w]][today] = 0

ReplyInv ==
    /\ ReplyTypeOK
    /\ InSession /\ Alone /\ Sent /\ NotYet /\ Accounted /\ Free
    /\ OneReplyPerDay /\ SlotsAreEarned

-----------------------------------------------------------------------------

(* The ranges of days and connections, for leaves that need no more. *)
LEMMA Ranges ==
  /\ 0 \in Days /\ Days \subseteq Nat
  /\ 0 \in 0..LastClient /\ 1 \in 1..LastClient
  /\ \A c \in 1..LastClient : c \in 0..LastClient
  BY ReplyAssumption DEF Days

(* Nobody is at an auto reply before the first message.                    *)
LEMMA ReplyInvInit == ReplyInit => ReplyInv
  <1> SUFFICES ASSUME ReplyInit
               PROVE  ReplyInv
    OBVIOUS
  <1>1. ReplyTypeOK
    BY ReplyAssumption, Ranges DEF ReplyInit, ReplyTypeOK
  <1>2. \A s \in Senders, d \in Days : replies[s][d] = 0
    BY DEF ReplyInit
  <1>3. InSession /\ Alone /\ Sent /\ Free
    BY DEF ReplyInit, InSession, Alone, Sent, Free
  <1>4. NotYet /\ Accounted /\ OneReplyPerDay /\ SlotsAreEarned
    BY <1>2, Ranges DEF ReplyInit, NotYet, Accounted, OneReplyPerDay, SlotsAreEarned
  <1> QED BY <1>1, <1>3, <1>4 DEF ReplyInv

(* The lock lets a worker in only where no other one holds the connection,  *)
(* so that, unless one holds another connection, the others are idle.       *)
LEMMA ReachKeeps ==
  ASSUME ReplyInv, NEW w \in Workers, NEW s \in Senders, ReachAutoReply(w, s)
  PROVE  ReplyInv'
  <1>1. ReplyTypeOK'
    BY Ranges DEF ReplyInv, ReplyTypeOK, ReachAutoReply
  <1>2. InSession' /\ Alone'
    <2>1. InSession'
      BY DEF ReplyInv, ReplyTypeOK, InSession, ReachAutoReply
    <2>2. ~slipped' => \A v \in Workers : at[v] = "idle"
      BY DEF ReplyInv, ReplyTypeOK, InSession, ReachAutoReply
    <2> QED BY <2>1, <2>2 DEF ReplyInv, ReplyTypeOK, Alone, ReachAutoReply
  <1>3. Sent' /\ NotYet'
    BY DEF ReplyInv, ReplyTypeOK, Sent, NotYet, ReachAutoReply, Days
  <1>4. Accounted'
    BY DEF ReplyInv, ReplyTypeOK, Accounted, ReachAutoReply
  <1>5. Free'
    BY DEF ReplyInv, ReplyTypeOK, Free, ReachAutoReply
  <1>6. OneReplyPerDay' /\ SlotsAreEarned'
    BY DEF ReplyInv, OneReplyPerDay, SlotsAreEarned, ReachAutoReply, Days
  <1> QED BY <1>1, <1>2, <1>3, <1>4, <1>5, <1>6 DEF ReplyInv

(* Who finds no entry for today goes on to send; the others leave. *)
LEMMA LookupKeeps ==
  ASSUME ReplyInv, NEW w \in Workers, HasReplied(w)
  PROVE  ReplyInv'
  <1>1. ReplyTypeOK'
    BY Ranges DEF ReplyInv, ReplyTypeOK, HasReplied, Leave
  <1>2. InSession' /\ Alone'
    BY DEF ReplyInv, ReplyTypeOK, InSession, Alone, HasReplied, Leave
  <1>3. Sent' /\ NotYet'
    BY DEF ReplyInv, ReplyTypeOK, Sent, NotYet, HasReplied, Leave, Days
  <1>4. Accounted'
    BY DEF ReplyInv, ReplyTypeOK, Accounted, HasReplied, Leave
  <1>5. Free'
    <2> SUFFICES ASSUME ~slipped', NEW v \in Workers, at'[v] = "send"
                 PROVE  replies[from[v]][today] = 0
      BY DEF Free, HasReplied
    <2>1. ~slipped
      BY DEF HasReplied, ReplyInv, ReplyTypeOK
    <2>2. CASE v # w
      BY <2>1, <2>2 DEF ReplyInv, ReplyTypeOK, Free, HasReplied, Leave
    <2>3. CASE v = w
      <3>1. <<from[w], today>> \notin log
        BY <2>3 DEF HasReplied, Leave, ReplyInv, ReplyTypeOK
      <3>2. \A u \in Workers : at[u] # "record"
        BY <2>1 DEF ReplyInv, Alone, HasReplied
      <3>3. from[w] \in Senders /\ replies[from[w]][today] \in Nat
        BY DEF ReplyInv, ReplyTypeOK
      <3> QED BY <2>1, <2>3, <3>1, <3>2, <3>3 DEF ReplyInv, Accounted
    <2> QED BY <2>2, <2>3
  <1>6. OneReplyPerDay' /\ SlotsAreEarned'
    BY DEF ReplyInv, ReplyTypeOK, OneReplyPerDay, SlotsAreEarned, HasReplied, Leave, Days
  <1> QED BY <1>1, <1>2, <1>3, <1>4, <1>5, <1>6 DEF ReplyInv

(* A reply goes out where none was recorded; nobody else is at it. *)
LEMMA SendKeeps ==
  ASSUME ReplyInv, NEW w \in Workers, SendReply(w)
  PROVE  ReplyInv'
  <1> DEFINE s == from[w]
  <1>0. /\ s \in Senders /\ today \in Days /\ today \in Nat
        /\ \A q \in Senders, d \in Days :
              /\ replies[q][d] \in Nat
              /\ replies'[q][d] = IF q = s /\ d = today THEN replies[q][d] + 1
                                  ELSE replies[q][d]
    BY Ranges DEF ReplyInv, ReplyTypeOK, SendReply
  <1>1. ReplyTypeOK'
    BY <1>0 DEF ReplyInv, ReplyTypeOK, SendReply
  <1>2. InSession' /\ Alone'
    BY DEF ReplyInv, ReplyTypeOK, InSession, Alone, SendReply
  <1>3. Sent'
    <2> SUFFICES ASSUME NEW v \in Workers, at'[v] = "record"
                 PROVE  /\ sentOn'[v] \in {today, today - 1}
                        /\ replies'[from[v]][sentOn'[v]] > 0
      BY DEF Sent, SendReply
    <2>1. CASE v = w
      BY <1>0, <2>1 DEF SendReply, ReplyInv, ReplyTypeOK
    <2>2. CASE v # w
      BY <1>0, <2>2 DEF SendReply, ReplyInv, ReplyTypeOK, Sent
    <2> QED BY <2>1, <2>2
  <1>4. NotYet'
    BY <1>0 DEF ReplyInv, NotYet, SendReply
  <1>5. Accounted'
    <2> SUFFICES ASSUME ~slipped, NEW q \in Senders, replies'[q][today] > 0
                 PROVE  \/ <<q, today>> \in log
                        \/ \E v \in Workers : at'[v] = "record" /\ from[v] = q
      BY DEF Accounted, SendReply
    <2>1. CASE q = s
      BY <2>1 DEF SendReply, ReplyInv, ReplyTypeOK
    <2>2. CASE q # s
      <3>1. replies[q][today] > 0
        BY <1>0, <2>2
      <3> QED BY <3>1 DEF SendReply, ReplyInv, ReplyTypeOK, Accounted
    <2> QED BY <2>1, <2>2
  <1>6. Free'
    BY <1>0 DEF ReplyInv, ReplyTypeOK, Free, Alone, SendReply
  <1>7. OneReplyPerDay'
    <2> SUFFICES ASSUME ~slipped, NEW q \in Senders, NEW d \in Days
                 PROVE  replies'[q][d] <= 1
      BY DEF OneReplyPerDay, SendReply
    <2>1. replies[s][today] = 0
      BY DEF ReplyInv, Free, SendReply
    <2>2. replies[q][d] <= 1
      BY DEF ReplyInv, OneReplyPerDay
    <2> HIDE DEF s
    <2> QED BY <1>0, <2>1, <2>2
  <1>8. SlotsAreEarned'
    <2> SUFFICES ASSUME NEW e \in log
                 PROVE  \E d \in {e[2], e[2] - 1} \cap Days : replies'[e[1]][d] > 0
      BY DEF SlotsAreEarned, SendReply
    <2>1. PICK d \in {e[2], e[2] - 1} \cap Days : replies[e[1]][d] > 0
      BY DEF ReplyInv, SlotsAreEarned
    <2>2. e[1] \in Senders /\ d \in Days
      BY <2>1 DEF ReplyInv, ReplyTypeOK
    <2>3. replies[e[1]][d] \in Nat /\ replies'[e[1]][d] >= replies[e[1]][d]
      <3> HIDE DEF s
      <3> QED BY <1>0, <2>2
    <2>4. replies'[e[1]][d] > 0
      BY <1>0, <2>1, <2>2, <2>3
    <2> QED BY <2>1, <2>4
  <1> QED BY <1>1, <1>2, <1>3, <1>4, <1>5, <1>6, <1>7, <1>8 DEF ReplyInv

(* A reply that does not go out leaves its slot free.                      *)
LEMMA SendFailsKeeps ==
  ASSUME ReplyInv, NEW w \in Workers, SendFails(w)
  PROVE  ReplyInv'
  <1>1. ReplyTypeOK'
    BY Ranges DEF ReplyInv, ReplyTypeOK, SendFails, Leave
  <1>2. InSession' /\ Alone' /\ Sent' /\ NotYet' /\ Free'
    BY DEF ReplyInv, ReplyTypeOK, InSession, Alone, Sent, NotYet, Free, SendFails, Leave, Days
  <1>3. Accounted'
    BY DEF ReplyInv, ReplyTypeOK, Accounted, SendFails, Leave
  <1>4. OneReplyPerDay' /\ SlotsAreEarned'
    BY DEF ReplyInv, OneReplyPerDay, SlotsAreEarned, SendFails, Leave, Days
  <1> QED BY <1>1, <1>2, <1>3, <1>4 DEF ReplyInv

(* A reply that goes out and is not recorded is one of the exceptions.      *)
LEMMA SendErrsLateKeeps ==
  ASSUME ReplyInv, NEW w \in Workers, SendErrsLate(w)
  PROVE  ReplyInv'
  <1>0. /\ from[w] \in Senders /\ today \in Days /\ today \in Nat
        /\ \A q \in Senders, d \in Days :
              /\ replies[q][d] \in Nat
              /\ replies'[q][d] = IF q = from[w] /\ d = today THEN replies[q][d] + 1
                                  ELSE replies[q][d]
    BY Ranges DEF ReplyInv, ReplyTypeOK, SendErrsLate
  <1>1. ReplyTypeOK'
    BY <1>0, Ranges DEF ReplyInv, ReplyTypeOK, SendErrsLate, Leave
  <1>2. InSession'
    BY DEF ReplyInv, ReplyTypeOK, InSession, SendErrsLate, Leave
  <1>3. Alone' /\ Accounted' /\ Free' /\ OneReplyPerDay'
    BY DEF Alone, Accounted, Free, OneReplyPerDay, SendErrsLate
  <1>4. \A q \in Senders, d \in Days : replies[q][d] > 0 => replies'[q][d] > 0
    BY <1>0
  <1>5. Sent'
    <2> SUFFICES ASSUME NEW v \in Workers, at'[v] = "record"
                 PROVE  /\ sentOn[v] \in {today, today - 1}
                        /\ replies'[from[v]][sentOn[v]] > 0
      BY DEF Sent, SendErrsLate
    <2>1. at[v] = "record" /\ from[v] \in Senders /\ sentOn[v] \in Days
      BY DEF ReplyInv, ReplyTypeOK, SendErrsLate, Leave
    <2> QED BY <2>1, <1>4 DEF ReplyInv, Sent
  <1>6. NotYet'
    BY <1>0 DEF ReplyInv, NotYet, SendErrsLate
  <1>7. SlotsAreEarned'
    <2> SUFFICES ASSUME NEW e \in log
                 PROVE  \E d \in {e[2], e[2] - 1} \cap Days : replies'[e[1]][d] > 0
      BY DEF SlotsAreEarned, SendErrsLate
    <2>1. PICK d \in {e[2], e[2] - 1} \cap Days : replies[e[1]][d] > 0
      BY DEF ReplyInv, SlotsAreEarned
    <2>2. e[1] \in Senders /\ d \in Days
      BY <2>1 DEF ReplyInv, ReplyTypeOK
    <2> QED BY <2>1, <2>2, <1>4
  <1> QED BY <1>1, <1>2, <1>3, <1>5, <1>6, <1>7 DEF ReplyInv

(* The slot is consumed on the day of the reply or on the next one. *)
LEMMA RecordKeeps ==
  ASSUME ReplyInv, NEW w \in Workers, RecordReply(w)
  PROVE  ReplyInv'
  <1>1. ReplyTypeOK'
    <2>1. log' \subseteq Senders \X Days
      BY DEF ReplyInv, ReplyTypeOK, RecordReply
    <2>2. slipped' \in BOOLEAN
      BY DEF ReplyInv, ReplyTypeOK, RecordReply
    <2> QED BY <2>1, <2>2, Ranges DEF ReplyInv, ReplyTypeOK, RecordReply, Leave
  <1>2. InSession' /\ Alone' /\ Sent' /\ NotYet' /\ Free'
    BY DEF ReplyInv, ReplyTypeOK, InSession, Alone, Sent, NotYet, Free, RecordReply, Leave, Days
  <1>3. Accounted'
    <2> SUFFICES ASSUME ~slipped', NEW s \in Senders, replies[s][today] > 0
                 PROVE  \/ <<s, today>> \in log'
                        \/ \E v \in Workers : at'[v] = "record" /\ from[v] = s
      BY DEF Accounted, RecordReply
    <2>1. ~slipped /\ log' = log \cup {<<from[w], today>>}
      BY DEF RecordReply, ReplyInv, ReplyTypeOK
    <2> QED BY <2>1 DEF ReplyInv, ReplyTypeOK, Accounted, RecordReply, Leave
  <1>4. OneReplyPerDay'
    BY DEF ReplyInv, ReplyTypeOK, OneReplyPerDay, RecordReply, Days
  <1>5. SlotsAreEarned'
    <2> SUFFICES ASSUME NEW e \in log'
                 PROVE  \E d \in {e[2], e[2] - 1} \cap Days : replies[e[1]][d] > 0
      BY DEF SlotsAreEarned, RecordReply
    <2>1. CASE e \in log
      BY <2>1 DEF ReplyInv, SlotsAreEarned
    <2>2. CASE e = <<from[w], today>>
      <3>1. /\ sentOn[w] \in {today, today - 1} \cap Days
            /\ replies[from[w]][sentOn[w]] > 0
        BY DEF RecordReply, ReplyInv, ReplyTypeOK, Sent
      <3> QED BY <2>2, <3>1
    <2> QED BY <2>1, <2>2 DEF RecordReply
  <1> QED BY <1>1, <1>2, <1>3, <1>4, <1>5 DEF ReplyInv

(* Pruning takes only entries of days gone by. *)
LEMMA PruneKeeps ==
  ASSUME ReplyInv, Prune
  PROVE  ReplyInv'
  <1>1. ReplyTypeOK'
    BY DEF ReplyInv, ReplyTypeOK, Prune
  <1>2. InSession' /\ Alone' /\ Sent' /\ NotYet' /\ Free' /\ OneReplyPerDay'
    BY DEF ReplyInv, InSession, Alone, Sent, NotYet, Free, OneReplyPerDay, Prune, Days
  <1>3. Accounted'
    <2>1. \A s \in Senders : <<s, today>> \in log => <<s, today>> \in log'
      BY ReplyAssumption DEF Prune, ReplyInv, ReplyTypeOK, Days
    <2> QED BY <2>1 DEF ReplyInv, Accounted, Prune
  <1>4. SlotsAreEarned'
    BY DEF ReplyInv, SlotsAreEarned, Prune, Days
  <1> QED BY <1>1, <1>2, <1>3, <1>4 DEF ReplyInv

(* A new day starts with no reply and no entry. *)
LEMMA MidnightKeeps ==
  ASSUME ReplyInv, Midnight
  PROVE  ReplyInv'
  <1>1. today \in Nat /\ today' = today + 1 /\ today' \in Days
    BY ReplyAssumption DEF ReplyInv, ReplyTypeOK, Midnight, Days
  <1>2. ReplyTypeOK'
    BY <1>1 DEF ReplyInv, ReplyTypeOK, Midnight
  <1>3. InSession' /\ Alone' /\ OneReplyPerDay' /\ SlotsAreEarned'
    BY DEF ReplyInv, InSession, Alone, OneReplyPerDay, SlotsAreEarned, Midnight, Days
  <1>4. Sent'
    BY <1>1 DEF ReplyInv, ReplyTypeOK, Sent, Midnight
  <1>5. NotYet'
    BY <1>1 DEF ReplyInv, NotYet, Midnight, Days
  <1>6. \A s \in Senders : replies[s][today'] = 0
    BY <1>1 DEF ReplyInv, NotYet
  <1>7. Accounted' /\ Free'
    BY <1>6 DEF ReplyInv, ReplyTypeOK, Accounted, Free, Midnight
  <1> QED BY <1>2, <1>3, <1>4, <1>5, <1>7 DEF ReplyInv

(* A second connection is the second of the ways to spoil the throttle.    *)
LEMMA ReconnectKeeps ==
  ASSUME ReplyInv, ReconnectSession
  PROVE  ReplyInv'
  <1>1. ReplyTypeOK'
    BY ReplyAssumption DEF ReplyInv, ReplyTypeOK, ReconnectSession, Days
  <1> QED
    BY <1>1 DEF ReplyInv, ReconnectSession, InSession, Alone, Sent, NotYet, Accounted, Free,
                OneReplyPerDay, SlotsAreEarned, Days

(* A crash between sending and recording counts as a slip. *)
LEMMA CrashKeeps ==
  ASSUME ReplyInv, CrashReplies
  PROVE  ReplyInv'
  <1>1. ReplyTypeOK'
    <2>1. slipped' \in BOOLEAN
      BY DEF CrashReplies
    <2>2. at' \in [Workers -> {"idle", "lookup", "send", "record"}]
      BY DEF CrashReplies
    <2>3. connection' \in 1..LastClient /\ holds' \in [Workers -> 0..LastClient]
      BY Ranges DEF CrashReplies
    <2>4. UNCHANGED <<today, from, sentOn, log, replies>>
      BY DEF CrashReplies
    <2> QED
      BY <2>1, <2>2, <2>3, <2>4 DEF ReplyInv, ReplyTypeOK
  <1>2. InSession' /\ Alone' /\ Sent' /\ NotYet' /\ Free'
    BY DEF ReplyInv, ReplyTypeOK, InSession, Alone, Sent, NotYet, Free, CrashReplies, Days
  <1>3. Accounted'
    BY DEF ReplyInv, ReplyTypeOK, Accounted, CrashReplies
  <1>4. OneReplyPerDay' /\ SlotsAreEarned'
    BY DEF ReplyInv, ReplyTypeOK, OneReplyPerDay, SlotsAreEarned, CrashReplies, Days
  <1> QED BY <1>1, <1>2, <1>3, <1>4 DEF ReplyInv

(* Every step of workers and surroundings keeps the invariant.             *)
LEMMA ReplyInvNext == ReplyInv /\ [ReplyNext]_replyVars => ReplyInv'
  <1> SUFFICES ASSUME ReplyInv, [ReplyNext]_replyVars
               PROVE  ReplyInv'
    OBVIOUS
  <1>1. CASE UNCHANGED replyVars
    BY <1>1 DEF replyVars, ReplyInv, ReplyTypeOK, InSession, Alone, Sent, NotYet, Accounted, Free,
                OneReplyPerDay, SlotsAreEarned, Days
  <1>2. ASSUME NEW w \in Workers, NEW s \in Senders, ReachAutoReply(w, s)
        PROVE  ReplyInv'
    BY <1>2, ReachKeeps
  <1>3. ASSUME NEW w \in Workers,
               \/ HasReplied(w) \/ SendReply(w) \/ SendFails(w)
               \/ SendErrsLate(w) \/ RecordReply(w)
        PROVE  ReplyInv'
    BY <1>3, LookupKeeps, SendKeeps, SendFailsKeeps, SendErrsLateKeeps, RecordKeeps
  <1>4. CASE Prune
    BY <1>4, PruneKeeps
  <1>5. CASE Midnight
    BY <1>5, MidnightKeeps
  <1>6. CASE ReconnectSession
    BY <1>6, ReconnectKeeps
  <1>7. CASE CrashReplies
    BY <1>7, CrashKeeps
  <1> QED BY <1>1, <1>2, <1>3, <1>4, <1>5, <1>6, <1>7 DEF ReplyNext

(* The invariant holds throughout: today's replies have their entry in the  *)
(* log or their worker on the way to make it.                               *)
THEOREM ReplyInvariant == ReplySpec => []ReplyInv
  BY ReplyInvInit, ReplyInvNext, PTL DEF ReplySpec

(* Nothing but what OneReplyPerDay names gives a sender two replies on a    *)
(* day: workers on the sessions of two connections, a crash or an error of  *)
(* the table between sending and recording, a send that errs late.  The     *)
(* lock of one session is enough to keep executeActions' lookup, sending    *)
(* and recording together, for any number of workers, senders and days.     *)
THEOREM RepliesAreThrottled == ReplySpec => []OneReplyPerDay
  <1>1. ReplyInv => OneReplyPerDay
    BY DEF ReplyInv
  <1> QED BY <1>1, ReplyInvariant, PTL

(* Whatever fails or crashes, a slot of the throttle is consumed only by a  *)
(* reply that went out.                                                     *)
THEOREM SlotsNeedReplies == ReplySpec => []SlotsAreEarned
  <1>1. ReplyInv => SlotsAreEarned
    BY DEF ReplyInv
  <1> QED BY <1>1, ReplyInvariant, PTL

-----------------------------------------------------------------------------
(* Backups: Backup. *)

(* Whoever is about to set last_backup has just sent a backup. *)
JustSent == \A w \in Writers : doing[w] = "stamp" => delivered = 0

BackupInv == BackupTypeOK /\ JustSent /\ StampIsTrue

-----------------------------------------------------------------------------

(* Time keeps ages in their range and in their order. *)
LEMMA AgesGrow ==
  /\ 0 \in Ages /\ Ages \subseteq Nat /\ Never \notin Ages
  /\ \A a \in Ages : Older(a) \in Ages
  /\ Older(Never) = Never
  /\ \A a, b \in Ages : a <= b => Older(a) <= Older(b)
  <1>1. Longest \in Nat /\ Never \notin 0..Longest
    BY BackupAssumption
  <1>2. 0 \in Ages /\ Ages \subseteq Nat /\ Never \notin Ages /\ Older(Never) = Never
    BY <1>1 DEF Ages, Older
  <1>3. \A a \in Ages : Older(a) = IF a = Longest THEN Longest ELSE a + 1
    BY <1>2 DEF Older
  <1>4. \A a \in Ages : Older(a) \in Ages
    BY <1>1, <1>3 DEF Ages
  <1>5. \A a, b \in Ages : a <= b => Older(a) <= Older(b)
    BY <1>1, <1>3 DEF Ages
  <1> QED BY <1>2, <1>4, <1>5

(* Nothing is stamped before the first backup.                             *)
LEMMA BackupInvInit == BackupInit => BackupInv
  <1> SUFFICES ASSUME BackupInit
               PROVE  BackupInv
    OBVIOUS
  <1>1. 0 \in 0..MaxCrashes
    BY BackupAssumption
  <1>2. BackupTypeOK
    BY <1>1, AgesGrow DEF BackupInit, BackupTypeOK
  <1>3. JustSent /\ StampIsTrue
    BY DEF BackupInit, JustSent, StampIsTrue
  <1> QED BY <1>2, <1>3 DEF BackupInv

(* checkBackup's reads and the settings leave what was sent and stamped     *)
(* alone, and nobody comes to stamp.                                        *)
LEMMA QuietSteps ==
  ASSUME BackupInv,
         \/ CheckBackup \/ ReadLastBackup \/ Threshold
         \/ \E r \in Requests : RequestBackup(r)
         \/ DeliverAlert \/ AlertFails
         \/ SaveEnabled \/ SaveFrequency \/ SaveAlerts
         \/ MailChanges \/ WebhookChanges
         \/ CrashBackup
  PROVE  BackupInv'
  <1>1. /\ stamp' = stamp /\ delivered' = delivered
        /\ \A w \in Writers : doing'[w] = "stamp" => doing[w] = "stamp"
    BY DEF BackupInv, BackupTypeOK, CheckBackup, ReadLastBackup, Threshold, RequestBackup,
           DeliverAlert, AlertFails, SaveEnabled, SaveFrequency, SaveAlerts,
           MailChanges, WebhookChanges, CrashBackup, Goes
  <1>2. JustSent' /\ StampIsTrue'
    BY <1>1 DEF BackupInv, JustSent, StampIsTrue
  <1>3. doing' \in [Writers -> {"idle", "last", "frequency", "send", "stamp"}]
    <2>1. CASE Threshold
      BY <2>1 DEF BackupInv, BackupTypeOK, Threshold, Goes
    <2> QED
      BY <2>1 DEF BackupInv, BackupTypeOK, CheckBackup, ReadLastBackup, RequestBackup,
             DeliverAlert, AlertFails, SaveEnabled, SaveFrequency, SaveAlerts,
             MailChanges, WebhookChanges, CrashBackup, Goes
  <1>4. /\ enabled' \in BOOLEAN /\ mail' \in BOOLEAN
        /\ alertsOn' \in BOOLEAN /\ webhook' \in BOOLEAN
    BY DEF BackupInv, BackupTypeOK, CheckBackup, ReadLastBackup, Threshold, RequestBackup,
           DeliverAlert, AlertFails, SaveEnabled, SaveFrequency, SaveAlerts,
           MailChanges, WebhookChanges, CrashBackup
  <1>5. alerting' \in BOOLEAN
    BY DEF BackupInv, BackupTypeOK, CheckBackup, ReadLastBackup, Threshold, RequestBackup,
           DeliverAlert, AlertFails, SaveEnabled, SaveFrequency, SaveAlerts,
           MailChanges, WebhookChanges, CrashBackup
  <1>6. /\ frequency' \in Frequencies
        /\ read' \in Ages \cup {Never} /\ sign' \in Ages
        /\ crashes' \in 0..MaxCrashes
    BY AgesGrow, BackupAssumption
    DEF BackupInv, BackupTypeOK, CheckBackup, ReadLastBackup, Threshold, RequestBackup,
        DeliverAlert, AlertFails, SaveEnabled, SaveFrequency, SaveAlerts,
        MailChanges, WebhookChanges, CrashBackup
  <1> QED
    BY <1>1, <1>2, <1>3, <1>4, <1>5, <1>6 DEF BackupInv, BackupTypeOK

(* A backup that fails may have gone out all the same, which makes no stamp *)
(* newer than the mail.                                                     *)
LEMMA BackupFailsKeeps ==
  ASSUME BackupInv, NEW w \in Writers, BackupFails(w)
  PROVE  BackupInv'
  <1>1. /\ stamp' = stamp /\ (stamp # Never => stamp \in Nat)
        /\ delivered' \in {0, delivered} /\ sign' \in {0, sign}
        /\ doing' = [doing EXCEPT ![w] = "idle"]
        /\ UNCHANGED <<enabled, frequency, read, mail, alertsOn, webhook, crashes>>
    BY AgesGrow DEF BackupFails, MailErrs, BackupInv, BackupTypeOK, Goes
  <1>2. alerting' \in BOOLEAN
    BY DEF BackupFails, SendAlertNow, BackupInv, BackupTypeOK
  <1>3. BackupTypeOK'
    BY <1>1, <1>2, AgesGrow DEF BackupInv, BackupTypeOK
  <1>4. JustSent'
    BY <1>1 DEF BackupInv, BackupTypeOK, JustSent
  <1>5. StampIsTrue'
    BY <1>1, AgesGrow DEF BackupInv, StampIsTrue
  <1> QED BY <1>3, <1>4, <1>5 DEF BackupInv

(* A mail that goes out is the newest of all. *)
LEMMA SendBackupKeeps ==
  ASSUME BackupInv, NEW w \in Writers, SendBackup(w)
  PROVE  BackupInv'
  <1>1. BackupTypeOK'
    BY AgesGrow DEF BackupInv, BackupTypeOK, SendBackup, Goes
  <1>2. JustSent'
    BY DEF SendBackup, JustSent
  <1>3. StampIsTrue'
    <2>1. stamp' = stamp /\ delivered' = 0 /\ (stamp # Never => stamp \in Nat)
      BY AgesGrow DEF SendBackup, BackupInv, BackupTypeOK
    <2> QED BY <2>1, AgesGrow DEF StampIsTrue
  <1> QED BY <1>1, <1>2, <1>3 DEF BackupInv

(* Who comes to stamp has sent its mail in this unit of time. *)
LEMMA StampBackupKeeps ==
  ASSUME BackupInv, NEW w \in Writers, StampBackup(w)
  PROVE  BackupInv'
  <1>1. delivered = 0 /\ delivered' = 0
    BY DEF BackupInv, JustSent, StampBackup
  <1>2. BackupTypeOK'
    BY AgesGrow DEF BackupInv, BackupTypeOK, StampBackup, Goes
  <1>3. JustSent'
    BY <1>1 DEF JustSent
  <1>4. StampIsTrue'
    BY <1>1, AgesGrow DEF BackupInv, StampIsTrue, StampBackup
  <1> QED BY <1>2, <1>3, <1>4 DEF BackupInv

(* The stamp and the mail grow old together. *)
LEMMA TimePassesKeeps ==
  ASSUME BackupInv, TimePasses
  PROVE  BackupInv'
  <1>1. BackupTypeOK'
    BY AgesGrow DEF BackupInv, BackupTypeOK, TimePasses
  <1>2. JustSent'
    BY DEF JustSent, TimePasses
  <1>3. StampIsTrue'
    <2> SUFFICES ASSUME stamp' # Never
                 PROVE  delivered' # Never /\ delivered' <= stamp'
      BY DEF StampIsTrue
    <2>1. stamp # Never /\ stamp' = Older(stamp) /\ delivered' = Older(delivered)
      BY AgesGrow DEF TimePasses
    <2>2. stamp \in Ages /\ delivered \in Ages /\ delivered <= stamp
      BY <2>1 DEF BackupInv, BackupTypeOK, StampIsTrue
    <2> QED BY <2>1, <2>2, AgesGrow
  <1> QED BY <1>1, <1>2, <1>3 DEF BackupInv

(* Every step of loop, requests, user and time keeps the invariant.        *)
LEMMA BackupInvNext == BackupInv /\ [BackupNext]_backupVars => BackupInv'
  <1> SUFFICES ASSUME BackupInv, [BackupNext]_backupVars
               PROVE  BackupInv'
    OBVIOUS
  <1>1. CASE UNCHANGED backupVars
    BY <1>1 DEF backupVars, BackupInv, BackupTypeOK, JustSent, StampIsTrue
  <1>2. CASE LoopStep
    BY <1>2, QuietSteps, SendBackupKeeps, BackupFailsKeeps, StampBackupKeeps
    DEF LoopStep, Writers
  <1>3. CASE RequestStep
    BY <1>3, QuietSteps, SendBackupKeeps, BackupFailsKeeps, StampBackupKeeps
    DEF RequestStep, Writers
  <1>4. CASE TimePasses
    BY <1>4, TimePassesKeeps
  <1>5. CASE \/ DeliverAlert \/ AlertFails
             \/ SaveEnabled \/ SaveFrequency \/ SaveAlerts
             \/ MailChanges \/ WebhookChanges
             \/ CrashBackup
    BY <1>5, QuietSteps
  <1> QED BY <1>1, <1>2, <1>3, <1>4, <1>5 DEF BackupNext

(* The invariant holds throughout: the stamp is never newer than the mail,  *)
(* and who is about to stamp has just sent one.                             *)
THEOREM BackupInvariant == BackupSpec => []BackupInv
  BY BackupInvInit, BackupInvNext, PTL DEF BackupSpec

(* BackupNow sets last_backup only for a backup that went out, however many *)
(* requests and loops write backups at once, fail and crash.                *)
THEOREM StampsAreTrue == BackupSpec => []StampIsTrue
  <1>1. BackupInv => StampIsTrue
    BY DEF BackupInv
  <1> QED BY <1>1, BackupInvariant, PTL

-----------------------------------------------------------------------------
(* The list of folders: Folders. *)

(* Before a reconnect, who refreshes holds the lock of the only session. *)
Holds ==
    current = 1 => \A s \in Syncers : step[s] \notin {"idle", "lock"} => locks[s] = 1

Excludes ==
    current = 1 =>
       \A r, s \in Syncers :
          step[r] \notin {"idle", "lock"} /\ step[s] \notin {"idle", "lock"} => r = s

(* What was listed is as new as what the table shows. *)
Fresh ==
    current = 1 =>
       /\ shows <= version
       /\ \A s \in Syncers :
             step[s] \in {"sync", "resync"} =>
                shows <= list[s].version /\ list[s].version <= version

FoldersInv == FoldersTypeOK /\ Holds /\ Excludes /\ Fresh

-----------------------------------------------------------------------------

(* The list of a request that has read none is of the type of lists.      *)
LEMMA NoListType == NoList \in [names : SUBSET Names, version : Nat \cup {-1}]
  BY DEF NoList

(* No request refreshes the list at startup. *)
LEMMA FoldersInvInit == FoldersInit => FoldersInv
  BY NoListType DEF FoldersInit, FoldersInv, FoldersTypeOK, Holds, Excludes, Fresh

(* A page that waits for the session has not begun. *)
LEMMA FindEmptyKeeps ==
  ASSUME FoldersInv, NEW p \in Pages, FindEmpty(p)
  PROVE  FoldersInv'
  <1>1. FoldersTypeOK'
    BY DEF FoldersInv, FoldersTypeOK, FindEmpty, Moves
  <1>2. Holds' /\ Excludes'
    BY DEF FoldersInv, FoldersTypeOK, Holds, Excludes, FindEmpty, Moves
  <1>3. Fresh'
    BY DEF FoldersInv, FoldersTypeOK, Fresh, FindEmpty, Moves
  <1> QED BY <1>1, <1>2, <1>3 DEF FoldersInv

(* Who locks the session finds no other refresh in progress.               *)
LEMMA BeginKeeps ==
  ASSUME FoldersInv, NEW s \in Syncers, Begin(s)
  PROVE  FoldersInv'
  <1>1. Session(s) \in {1, 2} /\ (current = 1 => Session(s) = 1)
    BY DEF FoldersInv, FoldersTypeOK, Session
  <1>2. FoldersTypeOK'
    BY <1>1 DEF FoldersInv, FoldersTypeOK, Begin, Moves
  <1>3. Holds' /\ Excludes'
    BY <1>1 DEF FoldersInv, FoldersTypeOK, Holds, Excludes, Begin, Moves
  <1>4. Fresh'
    BY DEF FoldersInv, FoldersTypeOK, Fresh, Begin, Moves
  <1> QED BY <1>2, <1>3, <1>4 DEF FoldersInv

(* What the server lists is as new as can be.                              *)
LEMMA ListKeeps ==
  ASSUME FoldersInv, NEW s \in Syncers, ListFolders(s)
  PROVE  FoldersInv'
  <1> DEFINE l == [names |-> mailboxes, version |-> version]
  <1>1. /\ l \in [names : SUBSET Names, version : Nat \cup {-1}]
        /\ l.version = version
        /\ version \in Nat
    BY DEF FoldersInv, FoldersTypeOK
  <1>2. /\ list' = [list EXCEPT ![s] = l]
        /\ step[s] \notin {"idle", "lock"}
        /\ step' = [step EXCEPT ![s] = "sync"] \/ step' = [step EXCEPT ![s] = "resync"]
        /\ UNCHANGED <<mailboxes, version, table, shows, current, locks>>
    BY DEF ListFolders, Moves
  <1> HIDE DEF l
  <1>3. FoldersTypeOK'
    BY <1>1, <1>2 DEF FoldersInv, FoldersTypeOK
  <1>4. Holds' /\ Excludes'
    BY <1>2 DEF FoldersInv, FoldersTypeOK, Holds, Excludes
  <1>5. Fresh'
    BY <1>1, <1>2 DEF FoldersInv, FoldersTypeOK, Fresh
  <1> QED BY <1>3, <1>4, <1>5 DEF FoldersInv

(* A request that ends leaves the invariant of the others. *)
LEMMA DoneKeeps ==
  ASSUME FoldersInv, NEW s \in Syncers, Done(s),
         UNCHANGED <<mailboxes, version, table, shows, current>>
  PROVE  FoldersInv'
  <1>1. FoldersTypeOK'
    BY NoListType DEF FoldersInv, FoldersTypeOK, Done, Moves
  <1>2. Holds' /\ Excludes'
    BY DEF FoldersInv, FoldersTypeOK, Holds, Excludes, Done, Moves
  <1>3. Fresh'
    BY DEF FoldersInv, FoldersTypeOK, Fresh, Done, Moves
  <1> QED BY <1>1, <1>2, <1>3 DEF FoldersInv

(* The holder of the session stores what it listed, while no other is past *)
(* its lock: the table gets no older.                                       *)
LEMMA SyncKeeps ==
  ASSUME FoldersInv, NEW s \in Syncers, Sync(s)
  PROVE  FoldersInv' /\ (current = 1 => shows' >= shows)
  <1>0. /\ list[s] \in [names : SUBSET Names, version : Nat \cup {-1}]
        /\ version \in Nat /\ shows \in Nat \cup {-1}
    BY DEF FoldersInv, FoldersTypeOK
  <1>1. current = 1 => shows <= list[s].version /\ list[s].version <= version
    BY DEF FoldersInv, Fresh, Sync
  <1>2. current = 1 => \A r \in Syncers : r # s => step[r] \in {"idle", "lock"}
    BY DEF FoldersInv, Excludes, Sync
  <1>3. /\ table' = list[s].names /\ shows' = list[s].version
        /\ UNCHANGED <<mailboxes, version, current>>
        /\ \/ step' = [step EXCEPT ![s] = "ensure"] /\ UNCHANGED <<locks, list>>
           \/ /\ step' = [step EXCEPT ![s] = "idle"]
              /\ locks' = [locks EXCEPT ![s] = 0]
              /\ list' = [list EXCEPT ![s] = NoList]
    BY DEF Sync, Synced, Done, Moves
  <1>4. FoldersTypeOK'
    BY <1>0, <1>3, NoListType DEF FoldersInv, FoldersTypeOK
  <1>5. Holds' /\ Excludes'
    BY <1>3 DEF FoldersInv, FoldersTypeOK, Holds, Excludes, Sync
  <1>6. Fresh'
    BY <1>0, <1>1, <1>2, <1>3 DEF FoldersInv, FoldersTypeOK, Fresh
  <1> QED BY <1>0, <1>1, <1>3, <1>4, <1>5, <1>6 DEF FoldersInv

(* A list that could not be stored leaves the table as it was.             *)
LEMMA SyncFailsKeeps ==
  ASSUME FoldersInv, NEW s \in Syncers, SyncFails(s)
  PROVE  FoldersInv'
  <1>1. CASE Done(s)
    BY <1>1, DoneKeeps DEF SyncFails
  <1>2. CASE Moves(s, "ensure") /\ UNCHANGED <<locks, list>>
    <2>1. FoldersTypeOK'
      BY <1>2 DEF FoldersInv, FoldersTypeOK, SyncFails, Moves
    <2>2. Holds' /\ Excludes'
      BY <1>2 DEF FoldersInv, FoldersTypeOK, Holds, Excludes, SyncFails, Moves
    <2>3. Fresh'
      BY <1>2 DEF FoldersInv, FoldersTypeOK, Fresh, SyncFails, Moves
    <2> QED BY <2>1, <2>2, <2>3 DEF FoldersInv
  <1> QED BY <1>1, <1>2 DEF SyncFails, Synced

(* Creating the source folder makes the mailboxes newer, not the table.     *)
LEMMA EnsureKeeps ==
  ASSUME FoldersInv, NEW s \in Syncers, EnsureFolder(s)
  PROVE  FoldersInv'
  <1>1. CASE Done(s) /\ UNCHANGED <<mailboxes, version>>
    BY <1>1, DoneKeeps DEF EnsureFolder
  <1>2. CASE /\ mailboxes' = mailboxes \cup {Source}
             /\ version' = IF Source \in mailboxes THEN version ELSE version + 1
             /\ Moves(s, "relist")
             /\ UNCHANGED <<locks, list>>
    <2>1. FoldersTypeOK'
      BY <1>2, FoldersAssumption DEF FoldersInv, FoldersTypeOK, EnsureFolder, Moves
    <2>2. Holds' /\ Excludes'
      BY <1>2 DEF FoldersInv, FoldersTypeOK, Holds, Excludes, EnsureFolder, Moves
    <2>3. Fresh'
      BY <1>2 DEF FoldersInv, FoldersTypeOK, Fresh, EnsureFolder, Moves
    <2> QED BY <2>1, <2>2, <2>3 DEF FoldersInv
  <1> QED BY <1>1, <1>2 DEF EnsureFolder

(* Other clients make the mailboxes newer; a reconnect ends the claim.      *)
LEMMA OthersKeep ==
  ASSUME FoldersInv, OthersChange \/ Reconnected
  PROVE  FoldersInv'
  <1>1. FoldersTypeOK'
    BY DEF FoldersInv, FoldersTypeOK, OthersChange, Reconnected
  <1>2. Holds' /\ Excludes'
    BY DEF FoldersInv, Holds, Excludes, OthersChange, Reconnected
  <1>3. Fresh'
    BY DEF FoldersInv, FoldersTypeOK, Fresh, OthersChange, Reconnected
  <1> QED BY <1>1, <1>2, <1>3 DEF FoldersInv

(* Every step keeps the invariant, and before a reconnect none puts back an *)
(* older list.                                                              *)
LEMMA FoldersInvNext ==
  FoldersInv /\ [FoldersNext]_folderVars =>
     FoldersInv' /\ (current = 1 => shows' >= shows)
  <1> SUFFICES ASSUME FoldersInv, [FoldersNext]_folderVars
               PROVE  FoldersInv' /\ (current = 1 => shows' >= shows)
    OBVIOUS
  <1>0. shows >= shows
    BY DEF FoldersInv, FoldersTypeOK
  <1>1. CASE UNCHANGED folderVars
    BY <1>0, <1>1 DEF folderVars, FoldersInv, FoldersTypeOK, Holds, Excludes, Fresh
  <1>2. ASSUME NEW s \in Syncers,
               \/ Begin(s) \/ ListFolders(s) \/ ListFails(s)
               \/ SyncFails(s) \/ EnsureFolder(s)
        PROVE  FoldersInv' /\ shows' = shows
    <2>1. CASE Begin(s)
      BY <2>1, BeginKeeps DEF Begin
    <2>2. CASE ListFolders(s)
      BY <2>2, ListKeeps DEF ListFolders
    <2>3. CASE ListFails(s)
      BY <2>3, DoneKeeps DEF ListFails
    <2>4. CASE EnsureFolder(s)
      BY <2>4, EnsureKeeps DEF EnsureFolder
    <2>5. CASE SyncFails(s)
      BY <2>5, SyncFailsKeeps DEF SyncFails
    <2> QED BY <1>2, <2>1, <2>2, <2>3, <2>4, <2>5
  <1>3. ASSUME NEW s \in Syncers, Sync(s)
        PROVE  FoldersInv' /\ (current = 1 => shows' >= shows)
    BY <1>3, SyncKeeps
  <1>4. CASE OthersChange \/ Reconnected
    BY <1>0, <1>4, OthersKeep DEF OthersChange, Reconnected
  <1>5. ASSUME NEW p \in Pages, FindEmpty(p)
        PROVE  FoldersInv' /\ shows' = shows
    BY <1>5, FindEmptyKeeps DEF FindEmpty
  <1> QED BY <1>0, <1>1, <1>2, <1>3, <1>4, <1>5 DEF FoldersNext, Refresh

(* The invariant holds throughout: before a reconnect one request at a time *)
(* refreshes the list, with what it read under its lock.                    *)
THEOREM FoldersInvariant == FoldersSpec => []FoldersInv
  BY FoldersInvInit, FoldersInvNext, PTL DEF FoldersSpec

(* As long as the poller has the connection of startup, no refresh, by a    *)
(* tick, a request or the settings page, stores an older list of mailboxes  *)
(* than the one there is.                                                   *)
THEOREM ListsMoveForward == FoldersSpec => FoldersNotStale
  <1>1. FoldersInv /\ [FoldersNext]_folderVars => [current = 1 => shows' >= shows]_folderVars
    BY FoldersInvNext
  <1> QED BY <1>1, FoldersInvariant, PTL DEF FoldersSpec, FoldersNotStale

-----------------------------------------------------------------------------
(* The components side by side. *)

(* A step of the composition is a step of each component or leaves it as it *)
(* was.                                                                     *)
LEMMA ComponentSteps ==
  ASSUME [Next]_allVars
  PROVE  /\ [ReplyNext]_replyVars /\ [BackupNext]_backupVars /\ [FoldersNext]_folderVars
         /\ [LogNext]_logVars /\ [LoginsNext]_loginVars
  <1>1. CASE UNCHANGED allVars
    BY <1>1 DEF allVars
  <1>2. CASE InReplies(ReplyNext)
    BY <1>2 DEF InReplies
  <1>3. CASE InBackup(BackupNext)
    BY <1>3 DEF InBackup
  <1>4. CASE InFolders(FoldersNext)
    BY <1>4 DEF InFolders
  <1>5. CASE InLog(LogNext)
    BY <1>5 DEF InLog
  <1>6. CASE InLogins(LoginsNext)
    BY <1>6 DEF InLogins
  <1> QED BY <1>1, <1>2, <1>3, <1>4, <1>5, <1>6 DEF Next

(* So what is proved of every component holds of the instance that TLC      *)
(* checks: its behaviours are behaviours of all five.                       *)
THEOREM ComponentsRun ==
  Spec => /\ ReplySpec /\ LogSpec /\ LoginsSpec
          /\ BackupInit /\ [][BackupNext]_backupVars
          /\ FoldersInit /\ [][FoldersNext]_folderVars
  <1>1. Init => ReplyInit /\ BackupInit /\ FoldersInit /\ LogInit /\ LoginsInit
    BY DEF Init
  <1> QED BY <1>1, ComponentSteps, PTL DEF Spec, ReplySpec, LogSpec, LoginsSpec

(* All variables of all components keep their types: counts and ages their  *)
(* bounds, requests their steps, whatever runs, fails or crashes.           *)
THEOREM ServicesTypes == Spec => []TypeOK
  <1>1. ReplyInv /\ BackupInv /\ FoldersInv /\ LogInv /\ LoginsTypeOK => TypeOK
    BY DEF TypeOK, ReplyInv, BackupInv, FoldersInv, LogInv
  <1> QED BY <1>1, ComponentsRun, ReplyInvariant, BackupInvInit, BackupInvNext, FoldersInvInit,
             FoldersInvNext, LogInvariant, LoginsTypes, PTL
=============================================================================
