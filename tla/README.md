# Verification of icloud-mailflow in TLA+

icloud-mailflow is one Go process that polls an IMAP folder, matches each
message against user rules and runs the rule's actions.  A web interface and an
MCP server drive the same parts at the same time, and everything shares one
SQLite database and, mostly, one IMAP connection.  These modules describe the
parts where several actors meet, TLC checks them on small instances, and TLAPS
proves every safety property of the passing runs for any number of goroutines,
operations, requests, messages, rules and nested groups.

## Inventory

| part | state | operations | met by |
|---|---|---|---|
| poller lifecycle (`internal/poller`) | `running`, `stopCh`, `processing`, `reconnecting`, failure count, alert flag, backoff, current client | Start, Stop, loop, TryTick, setLastError, clearLastError, reconnect, CloseClient | toggle and tick requests, MCP `run_poll`, main's shutdown |
| mail processing (`poller.go`, `internal/imap`) | mailboxes and flags on the server; per session the selected mailbox and a lock | runTick, ApplyToFolder, executeActions, rule test, contact seeding, folder refresh | loop, web requests, MCP tools, reconnect |
| rule store (`internal/db/rules.go`, `ruleexport.go`) | tables rules, condition_groups, conditions, actions | Create, Update, Delete, Reorder, EnsureCatchAll, List, Get, import, export | rule forms, MCP tools, ticks |
| rules engine (`internal/rules`) | none | Match, groups, conditions, schedules, EvaluateWithResults | ticks, apply, tests |
| rule files (`ruleexport.go`, `validate.go`) | none | save and load of group trees, export, import, validation | forms, MCP, the backup mail |
| auto reply (`poller.go`, `db/autoreply.go`) | `auto_reply_log`: who was answered on which day | look up, send, record, prune | executeActions |
| backup and alerts (`poller.go`, `web/settings.go`) | `last_backup`, backup and alert settings | BackupNow, checkBackup, sendAlertNow | loop, settings page, MCP |
| logins (`web/auth.go`, `web/web.go`, `db/sessions.go`) | sessions table, cookies, failures per address | login, logout, password change, cleanup, limiter | every request |
| folder list (`db/folders.go`, `web/settings.go`) | table folders | list and sync, ensureFolder | ticks, folder list, settings page |
| activity log (`db/log.go`, `web/activity.go`) | table of rows with ids | insert, list, delete by id, clear, keep the newest | ticks, activity page, startup |
| contacts, statistics, audit, settings, log buffer | one table or ring each | single statements | all of the above |
| configuration, crypto, SMTP, CardDAV, pages, metrics | files, connections | input and output | |

Hard behaviours: ticks, apply jobs, tests and seedings interleave on a session
whose selected mailbox is shared state; a reconnect replaces and closes a client
that others hold; Stop gives up after 15 seconds; a failed tick is reported
twice; `MOVE` may succeed and report an error; `n:*` is never empty in a
non-empty mailbox; rules are read in four queries outside a transaction and
written back whole; the catch-all rule is repaired in a second transaction that
only the rule forms run; a reply or a backup is sent and only then recorded; a
page with row ids outlives the rows; a list of folders is read in one step and
stored in another; a limiter's entries expire before they are swept.
`PROJECT.json` lists each at its line with the properties that watch over it.

What makes the parts correct: one tick and one reconnect at a time, no leaked
and no wrongly closed connection, loops that end and a poller that heals
(poller); no operation touches a message but its own, mail that a rule moves
leaves and is acted on once, ticks and jobs end (mail); a catch-all that is
there, last and unconditional, and no rule without the conditions it was given
(rules); a rule means the same after it was stored, exported and imported (rule
files); one reply a day, and a day's reply is used up only by a reply (auto
reply); `last_backup` tells the truth, backups recur, failures are heard of
(backup); a list of folders that never goes back and catches up (folders); only
rows a user saw are deleted (activity); a login lasts, a lockout is earned
(logins).

## Modules

**Poller** has one step per atomic operation, critical section or channel
operation.  `pc` says where each goroutine is: the loops (more than one can be
alive after a Stop that timed out), requests (toggle or manual tick), the
reconnect goroutine and main.  `TryTick` stands for the compare-and-swap of
both `process` and `TryTick`; `SetLastError` is the critical section and
`SpawnReconnect` the decision after it, which uses the counter's value from
inside; `ReconnectBackoff` to `ReconnectReturns` follow `reconnect` line by
line, with the one look at `running` before connecting.  `Inputs` says which of
toggles, manual ticks and the shutdown signal an instance gets.  A tick is rounds
of a search and a rule's actions, the listing of the Trash and the refresh of
the folders, each of which may fail; as in the code it reads `client()` not only
when it begins (`cl`) but again for the actions (`acts`) and for each listing
(`lists`), so that a reconnect in between makes it go over to another
connection.  What these calls do on the server is in MailSession.  Left out:
alert delivery, `lastError` and `lastTick` (reports); backups are in Backup.

**ClientContract** is the abstract specification of Poller: which worker uses
which connection, the current one, at most one spare, which are open.  It knows
no goroutines, flags or counters.  One tick at a time begins, on the current
connection (`session`); each of the calls it makes takes the one that is current
by then (`calls`), which after a reconnect is not its session and which nobody
has locked for it; and a connection is closed only after another has taken its
place, whoever still uses it.  `ImplementsContract` in Poller is the refinement
mapping: `session` from the ticks' clients, `calls` from those their actions and
listings read again, `spare` from the client the reconnect goroutine holds,
`replaced` from whether it has already swapped.

**MailSession** has one step per IMAP command.  A message has a folder, a UID
and `\Seen`; `batch` is the number of rounds a tick has, read from the settings at
startup; a session has a selected mailbox and an owner of its lock; an
actor's record `op` holds the local variables of its handler.  `sess` is the
client the operation locked, `exec` the client `executeActions` read again.
The outcome of `Match` is a parameter: an error, no match, or actions.
`strays` collects messages an operation fetched or changed that its search had
not found, and `runs` counts how often ticks ran a message's actions; neither
influences a step.  The server follows RFC 3501 with UIDs that only grow.  Two
variables describe it and never change: `hides`, whether its search passes over
seen mail, as the tests' mock says iCloud does, or returns every message, as
the RFC says; and `fails`, whether any command may fail.
Left out: folder refresh, which selects nothing, and what webhooks, replies and
forwards send.

**RulesRepo** has one step per transaction or query.  A rule has a name, a
priority, at most one group that has conditions or not, and the kinds of its
actions.  A request's record `req` holds what its handler has read.  The rule
forms write and then repair the catch-all in a second step; the MCP tools and
imports only write; `Restart` kills the process anywhere.  `List` reads all
conditions, `Get` those of the groups the rule has by then (`ReadConditions`).
SQLite enforces the foreign keys, as the connection string asks (`db.go:11`): that
a rule's groups, conditions and actions go with it, and that rows for a rule that
is gone are refused, is SQLite's doing and marked external in the map.  `clients`
are the requests a behaviour gets to serve.  Names that the matcher has too begin
with `Store` here, and the rows of the rules are `ruleRows`, so that one run can
hold both.  Left out:
group trees (see RuleFile), schedules, descriptions, database errors.

**RulesEngine** follows `Match` call by call.  The recursion of
`evalGroupWithExtras` is a stack of groups, each with the child at work.  A
condition is what it yields (true, false or an error), and for one that looks
at the body or a header also what it yields when that cannot be fetched; the
string operators, which decide it, are a parameter.  `extras` is the cache that
keeps a source from being fetched twice.  Groups come in
`Layers`, each made of conditions and of groups of the layers below, as deep as
an instance wants.  `Meaning` is the reference: the value
of a rule by recursion over its tree, without a stack, a cache or short cuts
other than the order that decides whether an error is met.
`EvaluateWithResults` is a function over the same trees.  A day has a few
times, each of which can be written with or without its leading zero; `Rank`
orders them as the code does, which compares the strings.

**RuleFile** extends RulesEngine with what happens to a rule on its way to the
database and to a file: `saveGroup` and `buildGroupTree` turn a tree into rows
with parents and back, `ruleToExport` and `ruleExportToRule` into the shapes of
the file and back, with the validation of `validate.go` before an import.  Rules
are compared by RulesEngine's reference definition, over every way in which
their conditions can turn out.  Which conditions validation refuses is a
parameter (`Refused`): in the run a malformed date, which errs in the engine,
and an expression that does not compile, which the engine takes for no match.  A
row's id is its place among the rule's rows.  Left out: names, actions, versions
of the envelope, days of a schedule.

**AutoReply** takes the auto_reply action apart: look up, send, record, leave.
A worker holds the session it locked, and a reconnect gives the next one
another.  `replies` counts what went out; `slipped` becomes true when one of
the four exceptions of `OneReplyPerDay` happens: a worker begins while another
holds the session of an earlier connection, the table errs, the process dies
between sending and recording, or sending returns an error although the server
took the mail.  Workers on one session slip only if its lock lets them.  A reply
is recorded within a day of going out.

**Backup** has the loop's `checkBackup`, which reads its settings one after the
other, `BackupNow` for the loop and for requests, the alert of a failed
scheduled backup in its own goroutine, the settings saved meanwhile, and
crashes.  Times are ages up to the longest period.  A mail is stamped in the
unit of time in which it goes out, and may have gone out although sending
returned an error.  `webhook` says whether alerts can be delivered: one that
cannot is logged and not tried again (`AlertFails`), so `NoSilentFailure` asks
for a webhook that works.

**Folders** has the three users of the list: ticks, the folder list and the
settings page, which looks at the table, waits for the session if it is empty,
lists, and creates the source folder if it is not listed.  The listing and the
transaction may each fail.  `shows` is the version of the mailboxes the table
shows.  The web handlers keep the session of startup, which a reconnect closes.
MCP's `list_folders` asks the server and does not touch the table.

**ActivityLog** gives each row an id and what it tells of, so that an id used
again would be seen; `page` is what each browser still shows.

**Logins** counts the lifetime of sessions and the window of the limiter down
in one unit.  `recent` remembers when each address really failed, beside the
limiter's own count and reset.  A restart keeps sessions and forgets the
limiter.

**MCPoller**, **MCMailSession**, **MCRulesRepo** and **MCRulesEngine**
instantiate them for TLC: sets of rules and forms, and the symmetries.
**MCRules** holds the rule store and the matcher, which share no state: a
behaviour is about one of them (`running`).  **MCServices** instantiates the
five components that share no state with each other; `running` says which of
them a behaviour is about, the others rest, and its fairness is the components'
own for the one that runs.

The proofs are in **PollerProofs** (ClientContract included),
**MailSessionProofs**, **MailOnceProofs** (`ActedOnce`), **RulesProofs**,
**EngineProofs**, **FileProofs**, **WebProofs** (ActivityLog and Logins) and
**ServicesProofs** (AutoReply, Backup, Folders and their composition in
MCServices).  What they reason about recurses by recursive functions and folds.

Operators described as "a mistake ... rules out" are variants of the operator
after them with a plausible bug; no specification uses them.  Each shows that
the property named can fail.

## Runs

Passing:

| run | properties | what it shows |
|---|---|---|
| poller_safety | TypeOK, TickExclusion, SingleReconnect, NoClientLeak, CurrentClientOpen, AlertedOnlyWhenFailing, PollerInv, ImplementsContract | exclusion of ticks and of reconnects, connections, alert state, the inductive invariant and the refinement of ClientContract, over two loops, a request, two reconnect goroutines and main |
| poller_live | PollerHeals, StopEndsLoops | any number of outages ends in a healthy poller; loops end after Stop |
| mail_safety | TypeOK, LockHeld, NoStrays | a tick, an apply job, a rule test or an MCP seeding on one session touch their own messages only, any command failing |
| mail_progress | ActedOnce, TickEnds, SourceDrains, EveryMessageChecked | ticks end, look at every message if the batch holds them all, and mail that a rule moves leaves unless a batch of others is in its way, and is acted on once; both kinds of server, batches of one and of two, a reconnect at any time |
| rules | StoreTypeOK, CatchAllCatches, ListedRulesComplete, TypeOK, ScheduleCovers, FirstMatchWins, FetchedOnce, CapturesAreTheRules, TestAgrees, LoadInvertsSave, RestoreKeepsMeaning | the store: the catch-all under two concurrent forms and crashes; a listing tick sees conditions on every rule that no update or deletion overtakes.  The matcher: `Match` yields the first rule that holds or the error before it, by the reference definition; schedules cover what they say, over midnight too; sources are fetched once; the rule test and `Match` agree; trees survive the database, and valid rules a backup |
| services | TypeOK, OneReplyPerDay, SlotsAreEarned, StampIsTrue, BackupsRecur, NoSilentFailure, FoldersNotStale, FoldersConverge, OnlyShownDeleted, SessionsLast, LockoutIsEarned | auto replies, backups, the folder list, the activity log and logins, one of them per behaviour |

Each run below refutes a sentence of the documentation, the change log or a
comment, quoted under "findings" in `PROJECT.json`:

| run | property | what happens |
|---|---|---|
| poller_restart | RunningHasLoop | polling off and on again: running, without a loop |
| mail_seed | NoStrays | seeding from the dashboard changes the mailbox under a tick |
| mail_apply | ApplyEnds | an apply job that cannot match its last message never ends |
| rules_restore | BackupRestores | the form stores what import refuses, and an empty OR group, which matches nothing, comes back as a rule that matches everything |
| schedule_times | ScheduleCovers | a schedule from 9:00 to 17:00 is accepted and compared as strings: it is never on at ten |
| out_of_schedule | OutOfScheduleWaits | a rule that would match is outside its schedule; the message does not stay for a later tick, the next rule or the catch-all takes it |

*Bounds.*  Poller: two loops are the most that a timed-out Stop can leave
beside a new one with one request toggling; two reconnect identities suffice to
see a second one start; three clients let one be current, one be held by a tick
and one be new; the failure counter saturates at 3, the only value beside 0 the
code compares with.  MailSession: with two messages a round
finds its own message, another one or the last one again; a batch of two holds
them both, and a batch of one can be used up by the first for ever, so that what
`SourceDrains` and `EveryMessageChecked` except does happen in the run;
`MaxUID` bounds how often mail moves, and a full folder refuses a move like a
failing server.  RulesRepo: three rows are the catch-all and two user rules, or
a catch-all deleted and made again; `MaxGid` bounds the updates.  `Setups` names
the mixes of requests: both forms, the MCP tools, a form with `enable_rule`, and
a form with an import and a tick.  RulesEngine:
trees of two levels with up to two conditions or subgroups each reach every
branch of the recursion; three
days make the week wrap around and leave one out;
four times give schedules within a day, over midnight and of a single moment,
and half of them have a leading zero to lose.  RuleFile: depth two and three
conditions reach each refusal of the validation (in the code 5 and 50).
AutoReply: two workers, two connections and three days with one day of retention
reach a second session, midnight between look-up and record, and pruning.
Backup: periods of one, two and three units, one request beside the loop, one
crash.  Folders: two changes by other clients let each of three overlapping
refreshes see another state.  ActivityLog: four rows of which one is kept.
Logins: two browsers behind one address, two failures lock out, two sessions.
Symmetry is
used for interchangeable members in safety runs only.  Deadlock is not checked
for Poller, which ends with the process, and for RulesRepo, whose bounds on
rows stop it, nor for RulesEngine, which ends when `Match` returns; MailSession
and the services never stop.

*Fairness.*  Poller: weak fairness per goroutine, as Go's scheduler is fair and
the model's server answers or fails every command; strong fairness of leaving
the select, since Go chooses at random among ready cases; and strong fairness of
ending a rule's actions and of refreshing the folders, since a rule has finitely
many actions and a tick finitely many rounds, although another of either may
come first.  Requests need not arrive and outages need not end; `PollerHeals`
assumes the server stays up.  MailSession: weak fairness per operation, strong
fairness of `LockSession`, as Go's mutex hands over to a waiter after a
millisecond. Backup: weak fairness of the loop, which checks after every tick,
of recording what was sent, of time and of the alert's goroutine, which delivers
or fails; nothing is assumed of requests, settings, the mail server and the
webhook, whose lasting states are premises of the properties.  Folders: strong
fairness of a tick's lock, of a listing by it and of storing the list (ticks go
on, the server answers again and again, which is what the poller's reconnects
are for, and the database does not fail for ever), weak fairness of what has
begun.  The other components have only safety properties.

### Where the code departs from its documents

Six departures are the runs above.  The models show these as well; the
properties of the passing runs are stated so that they exclude them, and the
conditions are there for no other reason.

- Two toggles at once read the same setting; the stored value and the poller
  can then disagree for good (`dashboard.go:169`; docs.html:298 "Enable or
  disable automatic polling").
- A reconnect that was connecting when Stop was called gives the stopped poller
  a new connection (`poller.go:986`; CHANGELOG.md:67 "reconnects abort once the
  poller stops").
- After a reconnect `executeActions` uses a session its caller has not locked
  (`poller.go:359`; `client.go:62`).  With nothing selected there the actions
  are lost and the message is marked seen all the same, which `SourceDrains`
  excepts; `ActedOnce` is about the time before a reconnect.  With an apply job
  at work there they can hit the job's mailbox.
- `minUID:*` finds a last message below the floor again, so a matched message
  that stays is processed up to `batchSize` times in one tick if the server
  returns seen mail (`client.go:152`; the comment at `poller.go:242`), and by
  every later tick (CHANGELOG.md:30).  `ActedOnce` asks for a server that hides
  it.
- `\Seen` is set after the actions, so mark_as_unread is undone
  (`poller.go:274`; docs.html:161).
- As many messages as a batch holds, unmatched, failing, or left in place by
  their rule, keep later mail from being looked at, for ever, whatever a rule
  would do with it (`poller.go:219`; README.md:78 "Each message is checked
  against your rules").  `EveryMessageChecked` asks for a batch that holds all
  mail, `SourceDrains` for fewer such messages before the one it is about
  (`InTheWay`) than the batch holds.
- `enable_rule` and `disable_rule` read the rule in four queries and write it
  back whole: an update of the rule between them, or between the queries, is
  undone, and if its groups were replaced in between the rule is stored without
  conditions, so that it matches everything (`mcp/server.go:469`,
  `db/rules.go:81`).  `ListedRulesComplete` asks that these tools write no rule.
- An import with a rule that has conditions and groups validates the groups and
  stores the conditions (`validate.go:53`, `ruleexport.go:297`); the exports
  never look so, which is why `RestoreKeepsMeaning` holds.
- An import stops at the first error and keeps what it has stored
  (`ruleexport.go`); neither it nor MCP repairs the catch-all.
- `create_rule` stores a rule after the catch-all, `delete_rule` deletes the
  catch-all (`mcp/server.go:166`, `:250`; CHANGELOG.md:714, :140).
  `CatchAllCatches` asks that only forms write.
- Three forms at once can delete the catch-all: a form that deletes looks at the
  name first, and may do so while a second has renamed the catch-all and a third
  gives the name back (`web/rules.go:160`).  `CatchAllCatches` asks for two.
- A form can give a rule the catch-all's name; the repair then takes its
  conditions away, also under a tick that lists it.  `ListedRulesComplete` asks
  that none does.
- A rule that moves mail into the watched folder, or a Trash that is the watched
  folder, runs again on the same mail at every poll: the moved message has a new
  UID, and `\Seen` is not set on it (`poller.go:274`; what CHANGELOG.md:30 mends
  for moves that fail).  `ActionsRunOnce` assumes there is none.
- A tick lists rules in four queries (`db/rules.go:81`).  If a rule is updated or
  deleted between that for the groups and that for the conditions, the tick has
  it with an empty group, which matches every message.  `ListedRulesComplete`
  excepts a rule whose groups are no longer those the tick has read
  (`Overtaken`).
- A second auto reply on one day goes out in the four cases that
  `OneReplyPerDay` excepts (docs.html:170 "throttled to at most one reply per
  sender per day"): two connections after a reconnect, an error of the table, a
  crash before the record, an error after the mail was accepted.
- An alert that the webhook refuses is logged and forgotten (`poller.go:933`), so
  that with a webhook that fails nobody hears of failing backups.
  `NoSilentFailure` asks for one that works.

## Proofs

`PollerProofs` proves `Spec => []PollerInv` for arbitrary sets of loops,
requests, reconnect goroutines and clients, from `PollerAssumption` (the sets
are disjoint, there is a client, the counter's cap is at least the threshold).
The properties are not inductive by themselves: that two goroutines never tick
together needs that `processing` is set exactly while one does, and likewise
for `reconnecting` (`FlagsMirrorGoroutines`); that connections do not leak needs
that a reconnect goroutine holds a client exactly between connecting and
closing, and never the current one (`ReconnectOwnsItsClient`).  The induction
step is split by part of the invariant (`TypeNext`, `TickNext`, `ReconNext`,
`ClientNext`, `AlertNext`), each with a frame lemma for the steps that leave
the part alone.  From it follow `TicksExclude`, `ReconnectsExclude`,
`ClientsDoNotLeak`, `CurrentClientStaysOpen`, `AlertsNeedFailures` and
`PollerTypes`.

`MailSessionProofs` proves `Spec => []MailInv` for arbitrary sets of sessions,
operations, messages and folders, from `MailAssumption` (the kinds of operations
do not overlap where it matters, there are finitely many messages, a rule's
actions name folders).  `LockHeld` is not inductive alone: that unlocking leaves
the others' locks needs that an operation at work has a session (`OpOK`), and
the types of its local variables carry that from step to step.  The steps
between lock and unlock are proved once to keep the operation's session and
every lock (`Continues`, one lemma per command), so that `LockHeld` is argued
only for them together (`GoesOnFact`), for the lock (`LockSessionStep`: it is
taken from nobody, hence from no other owner) and for the unlock.  From it
follow `LocksAreHeld` and `MailTypes`.

The second invariant there, `AimInv`, is for `NoStrays`.  It says of every
operation past its search that the UID it is about to use can only mean the
message it found: in the selected mailbox while it fetches, acts or marks, in the
destination between a MOVE and the SELECT that follows (`Focus`).  An aim (`Aim`)
also bounds the UID by the mailbox's next one, so that mail that arrives or is
moved there cannot take it (`AimKept`); for this UIDs must be distinct
(`DistinctKept`).  That nobody else selects in between is `OneAtWork`: two
operations at work would both own the one session's lock.  There is one lemma
per command (`...Aims`).  All of it is promised until the first reconnect only
(`Undisturbed`), after which operations may work on sessions they have not
locked; `AimNext` needs that a connection that was replaced never comes back.
`NoStraysWhenLocked` assumes that there are no dashboard seedings, which the run
`mail_seed` shows to be necessary.

`PollerProofs` also proves that Poller implements ClientContract: initial states
map to initial states (`ContractInit`) and, from `PollerInv` and `WorkersHold`,
every step maps to a step of the contract or to a stutter (`ContractNext`, by
part of the program).  `WorkersHold` says that a goroutine holds a connection
exactly while it is in a tick, one for its actions while it executes them, and
one for a listing while it lists: so a tick that ends has no call left, and a
new connection, which is none that is held, is new to the contract too.

`MailOnceProofs` proves `ActedOnce`, which looks at the whole life of a message
and is far from inductive.  `OnceInv` adds that a message whose actions a tick
has run is one ticks do not find any more, moved or seen, or the one the tick is
still at (`Counted`); that what the tick has in hand is where it will look, and
that as long as it is in the source folder an action that takes it out is still
to come (`TickHolds`); and that no apply job brings a handled message back
(`ApplyHolds`).  It stands on `AimInv`, since an operation that hit another
message would break all three.  `ActionsRunOnce` has two hypotheses and a
condition.  `WebSeeders = {}` is that of `NoStraysWhenLocked`.  `NothingReturns`,
that no rule moves mail into the watched folder, is necessary: such mail gets a
new UID, is not marked seen there, and is matched again by every poll (see the
departures).  `Room`, that no folder has come to `MaxUID`, is about the model's
bound only: a full folder refuses moves, so the mail stays.

`RulesProofs` has three results about any requests with any forms.  `TypesInv`
types the tables and what each request has read by then (`Knows`).  `CatchInv` is
for the catch-all: while two forms write, names are unique, and what a form has
looked up to delete is not the catch-all by the time it deletes, as the other
form cannot give that name to a rule without repairing it first; that the
repaired catch-all comes last rests on the largest of a finite set of priorities
(`HighestExists`, from its strict subsets being well-founded).  `ListsInv` is for
the lists of ticks, with foreign keys enforced.  Group ids are given out once
(`Keys`), and a transaction either keeps a user rule's groups or gives it one
whose id is new (`Steady`, proved once per transaction).  So a rule that still has
the groups a tick read has had them all along, with their conditions, when the
tick asked for these; any other has been overtaken, and stays so (`Sees`).

`EngineProofs` proves everything the `rules` run checks of the matcher, for any
rules, schedules, groups nested to any depth and outcomes of the fetches.
Induction over trees is replaced by a least counterexample: a set of natural
numbers has a least member (`WellOrdered`), hence what holds of a group when it
holds of the groups in it holds of all in `Layers` (`LayerInduction`), and what
recurses over groups is a function that exists (`RecursionOverGroups`).
`EngineInv` ties the stack to the reference definition: for every way `e` in
which unread sources may turn out, no rule passed so far decides (`PassedInv`),
the groups before the one at work hold (`GroupsInv`), no child passed in a group
on the stack decides it, and an error of a group on the stack is one of the rule
(`FramesInv`), what is returned is what the group means (`ReturnInv`), and so the
verdict (`VerdictInv`).  The order of evaluation is in `FramesInv`: it is what
would fail if an error were reported that a short cut hides.  `SchedulesCover`
and `FirstMatchDecides` assume `AllPadded`, times written with their leading
zero, as `inSchedule` compares strings; the run `schedule_times` shows that it
is necessary.

`FileProofs` proves that rules survive the database and the file.  The rows a
loop over groups adds come after those of their parents and name no parent among
earlier rows but the one given (`StoredAt`, `Apart`), so that rows added later
change nothing of what is loaded from these; then by `LayerInduction` every
group is stored so (`GroupStored`) and `buildGroupTree` inverts `saveConditions`
(`LoadFact`).  That rows under a parent come in one ascending order is
`RisesOnce` and `RisingExists`.  For export and import, `RestoredMeans` compares
meanings rather than trees: a single AND of nothing comes back as a rule without
groups, and both hold for every message.

`WebProofs` adds to `OnlyShownDeleted` that an id stands for one event for ever,
pages included; to `SessionsLast` that a session is one browser's; and to
`LockoutIsEarned` that an entry of the limiter that has not expired counts at
most the failures that are within its window, whose number is that of a finite
set of pairs (`LimiterInv`), which time shifts one to one.

`ServicesProofs` proves `ReplyInv`, which adds to the two properties of AutoReply
that who is in the action has a session locked (`InSession`); hence that one
worker is in it at a time (`Alone`): the lock lets nobody in beside one on the
same connection, and one on another connection is the exception that sets
`slipped`.  While nothing has slipped, one about to send has found no entry and
no reply of the day (`Free`), and all replies are in the table or about to be
(`Accounted`).  It adds to `StampIsTrue` that who is about to stamp has sent just
now, whatever failed backups have gone out as well, and to `FoldersNotStale` that
a list in hand, before a reconnect, is under the lock and no older than the
table.  `ComponentsRun` shows that a behaviour of the
composition is one of each component, which gives `ServicesTypes` from the
components' own.

The assumptions are those the modules name (`...Assumption`): disjoint kinds of
actors, positive bounds, finitely many messages, groups in layers.  TLC evaluates
each in the runs.

Only model-checked: the liveness properties (`PollerHeals`, `StopEndsLoops`,
`TickEnds`, `SourceDrains`, `EveryMessageChecked`, `BackupsRecur`,
`NoSilentFailure`, `FoldersConverge`), which are out of the prover's reach.

## Not modelled

Settings, statistics, audit and contacts are single statements on independent
rows; a setting is modelled where something depends on it.  The log buffer is a
ring under one mutex.  Configuration, encryption, SMTP, CardDAV, pages, metrics
and health are input and output or presentation.  Of modelled parts: an IMAP
command that never returns, which would hold the session's lock for good as
there is no deadline (`client.go:154`); a panic in a manual tick; webhook
retries; the limiter of API requests and CSRF tokens; MCP's queries and settings
tools; a settings page without a connection at startup.

## Plan

1. An abstract mailbox in which an operation is one step, implemented by
   MailSession while every operation locks the session.
2. RulesRepo with trees of groups, and an abstract list of rules that its
   transactions implement.
3. The sliding counters of API requests, with the limiter of Logins.
