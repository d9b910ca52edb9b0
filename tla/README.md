# LinkSend: TLA+ models and proofs

LinkSend sends files and clipboard content directly between devices.  A Go core
(`internal/`) runs inside a desktop application and a command line tool; a small
rendezvous server introduces devices to each other and never sees content.
This directory models the parts whose correctness depends on the order in which
requests, goroutines, timers, messages, saves and crashes happen.

Definitions keep the names of the code where they can.  `PROJECT.json` maps every
definition to the lines it models, and lists the hazards of the code with the
properties that cover them.

Contents: [parts of the system](#parts-of-the-system) ·
[modules](#modules) · [runs](#runs-bounds-and-what-they-show) ·
[disagreements](#where-the-code-and-its-documents-disagree) ·
[fairness](#fairness) · [proofs](#proofs) · [not modelled](#not-modelled) ·
[plan](#plan)

## Parts of the system

| Part | State | Operations and partners | What is hard | What makes it correct | Module |
|---|---|---|---|---|---|
| Share grants (`sharegrant/grant.go`, `store/share_grants.go`, `server/share_grants.go`) | one SQLite row per one-time share: lifecycle, parties, claim, approval, task, plan, generation, deadlines | create, claim, approve, bind, complete, deny, revoke by HTTP, all under one gate; reaper, expiry on access | retries with stale identifiers, lapsing claims, a clock set back, a late reaper | one approval for one receiver, generations fence, the end is final, retries answered, quotas, every share ends | `ShareGrant` |
| Share signaling hub (`server/share_signal.go`, `sharegrant/signal.go`) | owners per scope, connections with bounded queues, timers, one negotiation | registration, replacement, forwarding, retirement by requests, reaper, timer or Close | the upgrade runs without the gate, objects outlive the map, a timer fires during retirement | only granted owners, one negotiation in order, balanced wait group, Close returns | `ShareSignal` |
| Task manager (`app/tasks.go`, `history.go`, `incoming_plan.go`) | tasks with attempts, intents, recovery data; rows with revisions | start, pause, cancel, resume, decide; callbacks of the transfer; saves | saves outside the lock, verdicts from snapshots, late callbacks, crash between memory and disk | one active task, intents hold, finished is final, stopped is durable, begun is resumable | `Tasks` |
| Inbox listener (`inbox.go`, `direct_pool.go`) | enabled, running, cancelled; the parked signaling connection | receives by itself or on a pooled session; stopped and restarted around each call that signals | hand-over of the signaling session, 5 s timeout, derived contexts | nobody starts it while a call holds the hand-over | `Tasks`, `Rendezvous` |
| Shutdown (`shutdown.go`) | closing barrier, join of all owners | sets the intent of the active task, stops everything, closes the stores | calls past the barrier, workers in a save, dials in flight | ends; leaves stopped, saved tasks and no connection | `Tasks`, `Sessions` |
| Send queue and batches (`queue.go`, `batch.go`, `workspace.go`) | items with state and task; batches of targets | one dispatcher; enqueue, confirm, cancel; a restart sets items aside | receipt written before or after the task, queue lock against operation lock | no transfer that was not asked for, receipts are durable and arrive, a cancelled batch is quiet | `SendQueue`, `Outbox` |
| Transfer (`transfer/*.go`, `app/inbox_staging.go`) | manifest, selection, checkpoint, staged files, published names | offer, decision, plan, chunks with acknowledgements, publication, confirmation | broken streams, resume after a crash, names taken by others | completed means published, acknowledged stays, both sides return | `Transfer` |
| Content store (`content/store.go`, `app/content_*.go`) | objects (body and metadata), drafts, items, tasks | create, attach, send, resend, forget, clean up | crash between two files, cleanup against live rows | content in use is whole | `ContentStore` |
| Direct connections (`direct.go`, `direct_pool.go`, `lan.go`) | pooled authenticated sessions per generation | dial, adopt, reserve, serve, idle, close | both sides dial at once, grants end while dialling, idle timer against reservation | a reserved session stays, pools agree, shutdown ends | `Sessions`, `Rendezvous` |
| Rendezvous server (`server/server.go`) and signaling client | presence, negotiations | forward, coalesce crossing requests, replace connections | crossing requests, parked connections with unread messages | negotiations belong to the current connections, dials meet | `Rendezvous` |
| Identity and membership (`identity/*.go`, `app/membership_*.go`, `store/control.go`) | the trust file: grants, denials, epochs, recovery; the server's groups | block, unblock, forget, pair, join, refresh, revoke, recover | five operations end a grant and six begin one; lost answers; crash inside a removal | grants are fenced, removed stays out, a removal reaches the server | `Membership` |
| LAN discovery and pairing (`discovery/`, `lan_*.go`) | seen peers, pending consents | announce, ask, confirm | consent that outlives a decision | both users agreed | `Membership` (consents), `Sessions` |
| Clipboard (`clipboardsync/`, `app/clipboard_transport.go`, `clipboard_permissions.go`, `apps/desktop/clipboard_desktop.go`) | Lamport state per device, leases, permissions, jobs | observe, bind, send, begin, commit, edit, pause | independent streams, late watcher, withdrawn permission | newest wins, no echo, leases from before an edit are quiet | `Clipboard` |
| Clipboard files and cache (`app/clipboard_files.go`, `clipboard_cache_*.go`) | offers, reservations, signed rows, objects | offer, reserve, receive, hand over, seal, collect | hours between reservation and write, crash around the hand-over | exposed files stay, sealed ones go, late files yield | `ClipFiles` |
| File body budget (`body_budget.go`) | bytes and slots in use | acquire, resize, release | waiting with cancellation | never over the limit | — |
| Temporary share client (`temporary_share_*.go`, `share_ledger.go`) | ledger row of each share on either side | drives the share grants | server answer lost, restart in any phase | sends to nobody but the approved receiver | — |
| Connectivity (`connectivity/`, `transport/`) | candidates, ICE, QUIC | gather, check, connect | sockets and timers of libraries | mostly I/O | — |
| Staging and inbox history (`inbox_*.go`) | staging records, tombstones | list, reveal, delete, clean up | deletion racing a late save | deleted history stays deleted | in part `Transfer` |
| Desktop store, shell, updater, CLI (`apps/desktop`, `cmd`) | settings, drafts, windows | bindings to the above | operating-system calls | mostly I/O | — |

The parts interact through calls and a few locks.  On the server the *share gate*
(`Server.shareGate`) serialises share requests, the reaper and the hub, so `ShareSignal`
extends `ShareGrant`.  On the device `signalHandoffMu` orders everything that takes over
signaling from the listener, `operationMu` orders the creation of tasks with the closing
barrier, `queue.mu` and `content.mu` order the commands of the queue and of the store,
`membershipMu` the operations that talk to the server about members, the pool's mutex
the sessions, and each task has its own lock; the history is written outside all of them.

## Modules

**`ShareGrant`** — the table, the wall clock and a pending reaper tick.  A transition `T` of
`grant.go` becomes `TRepeats` (an accepted retry), `TApplies` (an accepted change) and the
changed record; a request is one action, because the gate and the SQLite transaction make
it so.  Requests carry any combination of identifiers, which covers delayed, duplicated
and reordered requests.  `ReapExpired` reads the clock, `ReconcileShareGrants` works later
with what it read, limited to `ReapLimit` rows.  `SetBack` moves the clock back.

**`ShareSignal`** extends it with the hub.  Owners and connections are objects with
identity, because pointers to them outlive the map.  What the code does while it holds
the gate is one action; the read loop, the writer, the timer and `Close` are separate.
A writer may take as long as it likes over a frame, which the code bounds by 5 s.  A session
may be requested again once the window has forgotten it (two minutes): with four frames and
a slow writer a candidate of the first request could then be written before the second one,
which `RequestComesFirst` excuses.  Clients draw session names at random
(`share_direct.go:180`) and never do this.

**`Tasks`** — the task manager of a profile with its listener and shutdown.  The grain is
the locks': a step under a task's lock is one action; the save that follows is put in
`saving[x]` and committed later by `Save`, so that other goroutines overtake it.
`handleTaskRunError` is `Fail` (snapshot), `Verdict` (context) and `Conclude` (apply).
`SendCall` … `Spawn` are the phases of StartSend and ResumeTask between the two locks;
`ControlCall` is `beginProfileWork`.  `Restart` is a crash or a new start.  `mem` is
what the process knows, `disk` what survives.

**`Outbox`** is what the queue promises, without tasks, locks or rows: an item is waiting,
sending, held or done; a transfer starts only on an item that is waiting, and no more often
than the user asked.  **`SendQueue`** is the queue as it is: the rows of `send_queue` and
`send_batches`, a task reduced to what the queue reads of it, the dispatcher (`DispatchBegin`,
`DispatchStep`) that lets go of `queue.mu` while it looks up the devices, `CancelBatch` that
cancels tasks one by one, and the restart that sets running items aside.  It implements
`Outbox` under the mapping in `Promise`: the phase of an item from the state of its row, the
number of transfers from the tasks that were made for it.

**`Transfer`** — both ends of the V1 control protocol on a stream that can break at any
frame, the receiver's staging directory (`disk`: part files, leftover copies, `state.json`),
the names in the receive directory (`target`), and the receiver's task row with the digest
of its plan.  Either process may end between two steps; the attempt is then made again,
resumed, or offered to a new task.  Publication is an intention, a link and a record of it;
somebody else may take or remove names meanwhile (`Touch`).  Contents are sets of chunk
numbers: a chunk is the manifest's or was refused by its hash.

**`ContentStore`** — objects made and removed file by file under `content.mu`, drafts, queue
items and tasks that refer to them, cleanup in all its steps, and the end of the process
between any two.  Rows change in one transaction each.

**`Rendezvous`** — how two devices agree on a session: the server's connections and its
table of negotiations with the coalescing of crossing requests (`TakeRequest`, `LaterWins`,
`Winner`, `Loser`), and at each device the dialler and the listener that share one signaling
connection, parked and taken back with whatever has arrived on it.

**`Sessions`** — the pools of two devices in one local network: crossing dials, publication
against the end of a grant, adoption of the other's session, reservations for files,
streams being served, clipboard leases that hold a session, the idle timer whose callback
may run late, pruning, pauses and shutdown.  A session's number stands for its random
identifier, so a new session may sort before or after the others.  The inbound side of a dial
ends as `adopted` or `over`, which the invariants need to tell a session that waits from one
that was given up; `turned` is a history of crossings.

**`Membership`** — the trust file as a record on which every operation is a function, as in
the code (`Granted`, `Refused`, `Retain`, `Applied`, `Completed`), the operations that hold
`membershipMu` as calls whose steps local decisions fall between, and the server's control
store with groups, incarnations, codes and requests.  Answers get lost, other members come
and go, the database may be lost and the process may end at any step.

**`Clipboard`** — three devices with their system clipboard, the core's Lamport state, the
leases and permissions of each pair, the owner that observes and binds copies, a sender and
a reader per peer, and edits of permissions in their two phases.  Messages between devices
are a set: any order, any of them lost.  All leases last as long (`clipboardLeaseTTL`), so that on
one device they lapse in the order they came, replaced ones too (`earlier`, `UpTo`); a restart ends
the sessions of a device, and what its peers had bound to their leases can be sent no more.
What holds a lock of its own in the code is a step of its own: `ClipboardChanged` observes
(`ObserveLocalEvent`), looks for one peer after the other at the permission (`ClipboardGrant`,
`clipboard_transport.go:316`, under `clipboardGrantMu`) and then for a lease (`OutboundForObservation`,
`:317`, under the state's mutex), reads the payload (`ReadPayload`, `:332`), prepares it
(`PrepareObserved`), and binds and queues it for one target after the other (`BindScoped`, `Enqueue`).
A sender takes its job up to the last look before a write (`SendJob`, `:370`; the message is `open`)
and then writes (`WriteJob`, `:377`), or its stream was reset in between; the code looks again before
every 64 KiB, the model has one look and one write.  A lease is admitted (`ReadLease`, `:630`), then
its baseline is read (`ReadBaseline`) and then it is installed (`InstallLease`, `:640`); an event's
permission is looked at (`ReadHeader`, `:648`) before the core decides on it (`BeginHeader`, `:653`).

**`ClipFiles`** — copied files on their way from one device to another: offers, the
reservation of the receiver's clipboard, jobs with their cancellation, and the cache object
with its signed row from `reserved` to `published` or `sealed`, including failing writes,
foreign files in the directory, the collector, and restarts of the receiver.

**`ShareGrantProofs`**, **`ShareSignalProofs`**, **`ContentStoreProofs`** (also of `ClipFiles`), **`SendQueueProofs`**,
**`TransferProofs`**, **`TasksProofs`**, **`CrossingsProofs`** (clipboard and rendezvous) and
**`ConnectionsProofs`** (membership and sessions) hold the theorems.
`MC*` modules add symmetry sets and scenarios.  Four of them (`MCTransfer`, `MCCustody`, `MCCrossings`,
`MCConnections`) put two components side by side: the two share no state, a variable `part`
says to which of them a behaviour belongs, and the properties of both are checked by one run.

A scenario is a record of bounds (how many copies, faults, edits, restarts, and on which
side) of which the initial state takes one; it restricts how often the environment and the
users act and never what the program does in answer.

Operators called *Mutant* in a comment are wrong variants of the definition below them;
each is known to break a named property, which shows that the property can fail.

## Runs, bounds and what they show

| Run | Instance | Properties | Shows |
|---|---|---|---|
| `share_one` | one share, three devices, two claims, tasks and plans, clock to 7 with setbacks | `GrantInv`, `RetryIsAnswered`, `ApprovalIsExclusive`, `GenerationFences`, `FinishedIsFinal` | all transitions stay valid, completions are in time, the approval is exclusive, the end is final, retries are answered |
| `share_many` | two shares, three devices, quota 1, a reaper limited to one row | `Quotas`, `EveryShareEnds` | both quotas hold although rows end at the pace of the reaper; every share ends |
| `signal_frames` | three connections of two devices, two frames of two sessions, queues of two | `RequestComesFirst`, `CleanupIsOwn` | a device that returns sees a request before anything else of a negotiation; cleanup touches only its own |
| `signal_ends` | two connections | `SignalInv`, `SignalEnds` | only granted owners, no ghost peers, balanced wait group, current readiness; retired connections leave, `Close` returns |
| `tasks_inbox` | two tasks, two attempts, a listener that may hang, pooled receives | `ListenerYields`, `OneLiveTask` | the listener stays off while a call has taken over; one active task |
| `tasks_restart` | one task, failing writes, one restart at any step, exit | `TasksInv`, `IntentsHold`, `HistoryKept`, `IntentsEnd`, `ExitEnds` | a stopped task is on disk whatever order its saves took; finished stays finished, begun is resumable, nothing starts by itself; intents and shutdown are concluded |
| `tasks_one_transfer` | two tasks, two callers | `OneTransfer` (violated) | a counterexample, see below |
| `send_queue` | two items, one of a batch; six plans of commands and faults; one restart, one failing write | `QueueInv`, `Promised`, `ReceiptsArrive`, `CompletedWins` | the queue implements `Outbox`; receipts follow durable ends and arrive; a completed task wins over a cancelled batch |
| `transfer` | two files, one of them in a directory; two faults, or one fault and one touch; and dials that cross | `CompletedMeansPublished`, `TransferInv`, `AcknowledgedStays`, `AttemptsEnd`, `DialsMeet` | nobody completes before publication; nothing is published twice or lost; both sides return; dials meet where nothing fails |
| `custody` | two objects, two drafts, one crash; two offers of files in seven scenarios | `ContentInUseStays`, `CacheSteps`, `CacheEnds` | content in use is whole; exposed files stay, foreign ones too, late files yield, sealed objects go |
| `crossings` | three devices copying in eleven scenarios; three devices dialling in four | `OnlyOwnCopiesTravel`, `NewestWins`, `WithdrawnLeasesAreQuiet`, `NegotiationsAreCurrent` | the newest copy wins in every order of arrival, no echo, nothing bound to a lease from before an edit passes its last look after it; negotiations never outlive their connections |
| `connections` | two devices, two sessions, two generations in twelve scenarios; two peers and two groups in thirteen | `SessionsInv`, `ReservedStays`, `ShutdownCompletes`, `MembersInv`, `GrantsAreFenced`, `RemovalReachesServer` | sessions follow their grants and reservations; no grant takes over what belonged to an earlier one; a removal reaches the server |

A property that is a conjunction (`TasksInv`, `SessionsInv`, `MembersInv`, …) names its parts,
each defined and explained above it in the module.

The instances are small, but each holds the participants its hazards need.  A share has one
sender and one receiver at a time, so a third device is the only other kind of requester;
two claims, tasks and plans are enough for one to be stale.  A replaced connection, its
replacement and the other device make three.  For a task the racing goroutines are its
worker, a call and the exit; two attempts are enough for one to be old, two tasks for one to
be the other.  Of two queue items one is cancelled, confirmed or finished while the other
is dispatched.  A transfer needs a file inside a directory and one beside it for the two
ways of publishing; two faults are a crash and a crash in the recovery from it.  The third
clipboard device is what makes an order of copies of others matter.  Two sessions are two
dials that cross, two generations a grant and the one after it; two groups are the one left
and the one joined.  Time limits are 1 to 3 seconds with a clock that reaches past the
longest chain of them, or are left out, and a timer that is set may fire at any time.

The bounds of the instances, not of the code, are `MaxAttempts`, `MaxRevision`, `MaxRestarts`,
`MaxFailures`, `MaxAsks`, `MaxFrames`, `MaxTime`, `LastCreation`, `MaxClaims`, `MayClose`, `MaxNames`,
`MaxCrashes`, `MaxOffers`, `MaxRequests`, `MaxConnections`, `MaxSessions`, `MaxGeneration`, `MaxGroups`, the
scenario sets, and `Calls`, `Routes` and `Plans`, which choose the commands of a run.  Deadlock is
not checked where the cfg says so: once the bounded identifiers are used up, or the process
is closed, nothing more happens.  Symmetry is used only by runs without liveness.

## Where the code and its documents disagree

One run ends in a counterexample to sentences of the repository, quoted in
`PROJECT.json`, "findings":

- `tasks_one_transfer`: cancelling a stopped task gives up its lock before finishing it
  (`tasks.go:1087`); a resume in between leaves a transfer that no task controls, and a second
  may start.

The models contain further behaviours that contradict a document, comment or test, or that a
reader would not expect.  The properties that hold are stated so that they say what the code
does keep; these cases are the exceptions.

- *Intents* (`tasks.go:960`): `handleTaskRunError` reads the state, then the context, and decides
  later, and a verdict refuses only finished tasks and other attempts.  An accepted
  cancellation can be overwritten by `recovering`; the same window lets a pause, or an exit,
  end the task as cancelled (against `docs/adr/0002-task-recovery-and-history-schema.md:11`,
  "Control intent has precedence inside an attempt.").  `IntentsHold` allows those ends.
- *Listener* (`inbox.go:171`): after a call refused because of a pooled receive nobody starts
  the listener again, although `inbox.go:52` says StartInbox keeps the device reachable.  A
  call also stops the listener, and with it the receive that it serves, before it looks for
  another active task, and then is refused as busy (`tasks.go:1172`).
- *Queue* (`workspace.go:299`): a restart sets a running item to `needs_attention` without
  looking at its task; if the task was durably completed, confirming the item queues it again
  (`queue.go:614-633`) and the transfer runs a second time
  (`docs/DESKTOP-SIX-FEATURES-PLAN.md:205` asks that nothing be sent twice).  `Promised`
  counts the confirmation as a request of the user.
- *Resume* (`incoming_plan.go:454`): the digest of the plan is in the task before the first
  checkpoint is written; killed in between, every resume is refused.  A kill while a staged
  file is copied leaves `<token>.new`, which `inbox_staging.go:220` takes for foreign.
  `docs/SPEC.md:164` lists kill and restart among the cases of resuming.
- *Pause* (`clipboard_transport.go:203`): `invalidateClipboardState` reads the pause, lets go of
  the lock and stores what it read; a pause of the user in between is undone in the core.
- *Withdrawn permission* (`clipboard_transport.go:316`): a copy may go out under a permission to send that
  was withdrawn.  A lease has been admitted (`:630`) and is not installed yet; the user copies,
  and the owner's look finds the permission given, at revision 1; the edit takes it back and returns: there is
  no lease, so nothing becomes outdated (`state.go:603`), and no job to cancel; now the lease is
  installed (`:640`) and chosen (`:317`), and the copy is bound and sent with sender revision 1.
  TLC finds this in 16 states when the plain claim ("what passes its last look has the permission there is,
  and it is given") is checked with the scenarios of `crossings`.  Nor is a write waited for that has
  passed its last look (`:370`, `:377`): an edit may return in between, and the reset of the stream that
  its cancellation causes may come too late for up to 64 KiB.  `docs/SPEC.md:13` says that a withdrawal
  discards the old content ("撤权、暂停、新复制和期限会淘汰旧正文") and `docs/ARCHITECTURE.md:53` that it cancels the
  current job and resets its stream.  `WithdrawnLeasesAreQuiet` therefore speaks of the last look, of copies
  bound to a lease that was there before the edit, and of those whose permission was looked at since.
- *Epochs* (`identity.go:420`): a LAN consent recorded for generation 1 before a removal is
  committed at generation 1 after the unblock, against `docs/SECURITY.md:90` (the generation
  must not go back).  `FencesHold` excepts it as `LateConsent`, and counts the generations that
  are spent (`spent`) since the last such consent: the grants after it may reach again those that
  were withdrawn before it, one by one.
- *Consent after forgetting* (`identity.go:640`): forgetting keeps the denial's generation as
  the epoch too, so that every new consent is refused as stale, although `forget.go:6-7`
  promises to allow one.
- *Block of a removed device* (`identity.go:1161`): RevokePeer returns without a local block when the
  group has removed the peer already; a newer incarnation is then trusted again, against
  `identity.go:850`.
- *Crossing dials in a local network* (`direct_pool.go:286`): each device may refuse or close
  the session the other has reserved for a file, against `direct_pool.go:248` and `:88`.
  `ReservedStays` speaks of one's own pool.  A file that takes over a clipboard dial for itself
  (`boot` is cleared) makes that end keep the session which the other end may have turned away:
  then each closes the session the other has kept, and both dials are lost.
  `ClipboardDialsConverge` says that no two do this which nothing has used yet, and `ReservedStays`
  excepts a bootstrap that a lease holds also while a task is looking for a session.
- *Coalesced request* (`server.go:802`): a request coalesced with one whose answer the
  listener's stop has cancelled (`inbox.go:106`) waits until it times out, although
  `server.go:799` says its client pivots.  `DialsMeet` is stated where nothing fails and no dial
  interrupts a listener that is answering.
- Two file tasks started at once in a local network refuse each other's dial (`lan.go:101`);
  a dead session with lease flags keeps its endpoint until the network changes; a pending
  removal whose target another member removed first stays pending; forgetting a LAN-only
  peer does not bar a background snapshot.

## Fairness

Safety runs assume none.

- `ShareGrant!FairSpec`: the clock and the reaper's ticker go on (`time.Ticker` in the server's
  loop); clients owe nothing.
- `SignalFairSpec`: read loops, writers, fired timers and `Close` take the steps open to them,
  as goroutines do.
- `Tasks!FairSpec`: goroutines between two locks go on, a save returns (SQLite with a busy
  timeout), and a transfer whose context is cancelled returns: it closes its stream then.
  Nothing of peers or users: a transfer may stall for ever and a decision may never come.
- `SendQueue!Fairness`: the dispatcher runs a pass at least every three seconds, saves return
  or fail, a cancelled worker ends.  A running transfer owes no end.
- `Transfer`: each side takes the step open to it.  A broken stream is an end of both reads,
  as QUIC reports it.
- `Sessions!Progress` and `Membership!GoesOn` are disjunctions under one weak fairness: every
  step of `Progress` uses something up, and of a refresh and a call that has begun one waits
  for the other, so that fairness to all together is fairness to each.  The refresh comes
  back because the desktop asks for its devices every few seconds (`desktop_entries.go`).
- `Rendezvous`: the server forwards, and each end reads and goes on, whatever arrives.
- `ClipFiles!FilesFairness`: the sender's jobs, the receiver's jobs, each receive and the collector
  go on; the collector runs at the start, every five minutes and when a reference goes.

## Proofs

TLAPS checks these for every value of the constants under the named assumptions.

`ShareGrantProofs`, for all devices, identifiers, times to live and limits (assumed: times to
live and the reaper's limit are positive, `Null` is no identifier, and the set of share
identifiers is finite, which only the quotas use):

- `TypeCorrect`: the type invariant;
- `InvCorrect`: the inductive invariant `Inv`, the type invariant with `Validate` of every
  present row.  `TransitionsStayValid` is not inductive by itself: that a transition's result
  passes `Validate` needs the row it starts from to pass it;
- from it `AcceptedIsValid`, `CompletionsInTime`, `GrantsHold` (`GrantInv`), `RetriesAreAnswered`
  (`RetryIsAnswered`) and the action properties `GenerationsFence`, `ApprovalsAreExclusive`,
  `FinishedStaysFinished`;
- `QuotasHold` (`Quotas`): no sender has more live shares and no receiver more live claims than
  allowed.  A step changes one row, or ends rows only; `OneMore` says that a set grows by at
  most one element then, `NoneRevives` that the passing of time and the reaper add none.  The
  receiver's quota counts claims that have not lapsed at the present time, so the theorem
  assumes that the clock is not set back (`~AllowRollback`): a setback revives claims.

The lemmas go bottom-up: a transition of a valid record yields a valid record; an action
changes a row by a transition, removes it or leaves it; so `Inv` is preserved.

`ShareSignalProofs`, for all devices, connections, owners, sessions and limits, under the same
assumptions and `SignalAssumption`: `HubHolds` proves the inductive invariant `HubInv`, from which
follow `SignalingHolds` (`SignalInv`) and, for each step, `CleanupsAreOwn` (`CleanupIsOwn`).
`RequestsComeFirst` (`RequestComesFirst`) needs a second one, `RequestIInv`.

- Of every owner in the map `HubInv` says that its share is approved or bound for exactly its
  scope (`Granted`), that each of its peers is a handler that has not left, of that device and of
  this owner (`Linked`), and that each peer that is not cancelled was told last, counting what is
  queued, whether both are there (`Told`).  `Balanced` has the wait group count handlers and timers.
- To `SignalInv` it adds the types of shares, negotiations and queued items, that the device and the
  scope of a handler are known, that the handlers and the running timers are finitely many
  (else their number says nothing), and that an owner in the map was created: an owner object
  that is made by `Register` is not one another step may still hold.
- Its parts are operators on values and not on variables.  A request changes a share and then
  retires the owners this made stale, and the last connection to leave takes itself out and then
  retires its owner, each in one action: the proof takes such a step in two, through values that
  are never a state.  `RetireStep` says that retiring any set of owners restores the
  invariant, and needs it only of the owners that stay.
- `RequestComesFirst` speaks of the last frame a connection was written, so the invariant has to
  follow the frames that still wait.  `Prepared` says that a receiver's connection knows the session
  of the present negotiation, or that its request is in the queue *ahead* of every candidate and from
  a connection that is still there, so that the writer will not drop it as stale; and that every
  frame in a queue is of a session the window remembers, so that a request which finds no such entry is
  the first of its session.  `Paired` says that a negotiation is between both parties: it ends
  when either leaves or returns, which is why a device that returns starts with an empty queue and no
  negotiation.  A connection that is not registered has nothing queued (`Fresh`), and while its
  owner stays a share keeps its two parties (from `StepsAreRecordSteps` of the grants).  `RequestStep`
  takes the invariant through one connection at a time: what happens to the others is `Calm`.

`ContentStoreProofs`, for all objects, drafts and numbers of crashes: `ContentInvHolds` proves
the inductive invariant `ContentInv`, and `ContentInUseHolds` concludes `ContentInUseStays`.
The property alone is not inductive, because cleanup decides by the *references* in an
object's metadata and not by the rows.  `ReferencesHold` adds that a needed object's references
name whoever needs it; `RowsAgree` that rows exist only for drafts that have an object;
`OpAgrees` that an object in the making belongs to nobody yet and one being removed has no
references left, at every step at which the process may end.

`ContentStoreProofs`, for every number of offers, room on the disk and scenarios (assumed:
`ClipFilesAssumption`, both are natural numbers): `CacheHolds` proves `CacheSteps`, the four properties of
the cache of copied files.  One inductive invariant, `FilesIInv`, serves all four, receive by receive:

- `ObjectAgrees` relates a receive to its signed row and its object.  That exposed files stay is not inductive,
  because the removals look at the row only: it adds that a row is among those that go (`Going`) only when
  the receive has found that nothing was shown, and that until the receive ends the reference in `active`
  keeps the collector away.  `native` is set before the paths are handed over, which is why a write that reports
  an error and yet took them ends as `protected`.
- `CollectionAgrees`: what the collector has in hand is of a receive that has ended or died, so that the two
  removals never meet in one object; `ForeignStays` then follows from `CanRemove`, whose inventory names
  only what the receive itself made.
- `JobAgrees` gives every job the place in the order that its offer reserved, and says that a receive which
  has entered `native` is what is current: nothing but an end of the process changes the state while it holds the lock.  So at most one
  receive writes, no later offer has a job, and `LateFilesYield` follows.  It also ties a refusal to its reason.
- `AdmissionAgrees`: the event the reader handles has no job yet when it gets one.

`SendQueueProofs`, for all items, tasks, plans of commands and numbers of failures and restarts
(assumed: each is a natural number, an item may be asked for at least once, the batch is among
the items, and `Null` is none of the rows, tasks and sets it stands in for):

- `QueueInvHolds` (`QueueInv`).  The inductive invariant `QueueIInv` adds to it what relates a row
  of the queue to the task it names (`RowsAgree`: a waiting row names none, the task of a running
  row is in memory), the lagging rows of the history (`HistoryAgrees`), what the dispatcher
  carries from one lock to the next (`DispAgrees`), the worker of a batch that is being
  cancelled (`WorkersAgree`) and the number of transfers begun for an item (`AsksAgree`).
- `PromiseKept` (`Promised`): the queue implements `Outbox`.  The initial state maps to the initial
  one, and each action to a step of the outbox or to none.  The step that starts a transfer
  is the hard one: the dispatcher has let go of its lock twice since it chose the item, and
  `AsksAgree` is what says that a request is left for it.

`TransferProofs`, for every manifest, number of names and number of faults: `TransferHolds` proves the
inductive invariant `TransferIInv` and `TransferInv`; `CompletedIsPublished` (`CompletedMeansPublished`) and
`AcknowledgedIsKept` (`AcknowledgedStays`) follow from it.  The proof that a step keeps it has four
parts, named steps of the theorem.

- `TransferTypeStep`: frames, plans and the checkpoint are what the types say.
- `PublicationStep`: `Follows` (the checkpoint is what the receiver holds, or what it is restoring),
  `NamesAreClaimed` (a name we took is the one the saved plan gives the entry, and the checkpoint
  claims it as committed, or as intended with the staged file being the same),
  `ClaimsArePublished` (what is claimed as committed was published) and `NothingTakenTwice`.  That no file gets
  two names is not inductive without them: after a crash between the link and its record the
  intention and the identity of the two files are all that tells the next start.
- `ConversationStep`: while both ends are in an undisturbed stream they are at one of the fifteen
  places `Station` lists, with the frames that are on their way there.
- `AgreementStep`: what is on the disk, or comes, belongs to the selection the sender recorded
  (`Agreement`); an acknowledgement on its way is the first frame, fits the sender's counters
  and its chunk is on the disk (`AcksAreSound`, also after the receiver has ended); a
  completed row, or a receipt that is on its way, comes after a `Completed` checkpoint of published files
  (`Completion`).  The stations are needed exactly here: what a frame says is compared with
  what the reader is waiting for.

`TasksProofs`, for all tasks, callers, attempts and restarts, whatever the store and the listener do
(assumed: `TasksAssumption`, the bounds are natural numbers and the kinds of actors are told apart, and
`NullAssumption`): `TasksHold` proves the inductive invariant `TasksIInv`, from which follow `TasksAgree`
(`TasksInv`), `OneTaskIsLive` (`OneLiveTask`), `ListenerStaysOff` (`ListenerYields`) and, for each step,
`IntentsAreKept` (`IntentsHold`) and `HistoryStays` (`HistoryKept`).

- `HistoryStep` is about records and rows only.  `TaskSteps` reduces every action but a restart to one of
  four: nothing happens to them, a record is made or changed and its row goes on to save (`Written`), a
  record is changed without a save or with its row written under the lock (`Noted`), and `Save`.
  `HistoryAgrees` speaks of all copies of a record, stored or on their way (`Copies`): a copy is of a
  revision the record had, only the present one equals it, a finished one is the present one,
  and none forgets what an earlier one has for the recovery.  That makes the order in which saves
  land irrelevant, which is what `StoppedIsDurable` and `BegunIsResumable` need.
- `WorkersAgree` (in the step `WorkerSteps` of `TasksHold`) says in addition to `WorkerOwnsAttempt` that every task with a cancel
  function has a worker that has not ended, and what that worker has saved at its place.  `OneLiveTask` is
  inductive only with it: an attempt that is over must not leave a live task.
- `CallsAgree`, `SaversAgree`, `InboxAgrees` and `ClosedIsOver` (in `CallSteps`) are the discipline of the
  locks: who holds `signalHandoffMu` and `operationMu` in which phase of a call, who may be writing a
  row, and that only one receive is inside the listener.  `Goes` sums up what a step may do to a worker.

`CrossingsProofs`, for all identities, quotas, requests and connections: `NegotiationsHold`
(`NegotiationsAreCurrent`).  With the types, which say that a message between devices is about a request that was
made, the property is inductive by itself: it counts a device's negotiations, so that the proof bounds a set
that grows by one at most and only below the quota.

`CrossingsProofs`, for every finite set of devices, all copies, pauses, edits and restarts within
`ClipBounds`: `CopiesAreOwn` (`OnlyOwnCopiesTravel`).  The property speaks of events on their way only;
the inductive `CopiesAgree` follows the content back to where it comes from: what the watcher
will report, what the owner has observed, read or bound (`NoticeAgrees`, `OwnerAgrees`), the jobs
and the candidates (`LinkAgrees`).  It holds because the core recognizes a peer's write by the clipboard's generation
until its revision has moved past the observation that could still carry it.  Two theorems of its steps
follow from invariants of their own, beside that one:

- `NewestCopyWins` (`NewestWins`), by `OrderIInv`: while a core holds the generation that is on the
  clipboard, what is there is what it knows of, and that is no later than what it committed (`Ordered`);
  an edit or a pause that has read a generation to store it knows it too.  The order of keys is total on
  `Keys`, and the clock never falls behind what was committed, so that a copy the user makes is the newest.
- `WithdrawnStaysQuiet` (`WithdrawnLeasesAreQuiet`), by `PermitIInv`: while a job could still pass its last look, the
  lease it was bound to, or one that came after, is in the device's leases, and that lease came under the
  permission in force, or it is being edited (`Bound`, for the targets, the copy being queued and the jobs).
  Every lease there is to send under came under the permission in force or under edit (`LeasesCurrent`), and a
  permission that the owner has looked at is the one in force or an earlier one (`Seen`), so that one looked at
  since the edit is the edited one.  So an edit finds a lease to invalidate, and every way in which a
  lease goes either makes something else current, leaves a later one, or takes the lease's time with it
  (`Keeps`).  The field `under` of a lease, the revision of the permission when it was installed, is there for this
  claim only and no step reads it.

The last proof did not go through at first, for two reasons the model was wrong about: it let a lease that was
replaced outlive the newer one, and let a job be written on a session that a peer's restart had ended.
The scenarios of the run were too short for either to show; two longer ones were added.

`ConnectionsProofs`, for all peers, groups and scenarios (assumed: `MembershipAssumption`, there is a group,
this device is not among its peers, and a scenario bounds each kind of act by a natural number):
`MembersHold` (`MembersInv`) and, for each step, `FencesAreKept` (`GrantsAreFenced`).

- The trust file keeps no list of the generations it has given out.  `MembersIInv` says where the
  highest one survives: with the grant, with the denial that replaced it, or in the epoch (`Above`),
  so that what is granted next is above it whichever operation grants it.  A grant of a group that
  a recovery has fenced is raised before it counts again, and is treated as the next one already.
- `OneContext`: all grants of a group are in one incarnation of this device, which was not retired;
  a retired context that comes back is refused by it.
- `Incarnations`: what is known of a device is not newer than the device, a snapshot that was
  fetched is not older than what the file has, and a member that was removed is barred by name or has
  come back as somebody else, on the server and in the snapshot on its way.  This is what keeps
  a removal in force while answers are late.
- Every operation writes a file that `Follows`, row by row; `RowsWritten` and `UnchangedFollows` are the
  two ways in which one does.  `StoreSteps` is what the control store may do meanwhile.

`ConnectionsProofs`, for two devices with any number of sessions, generations and scenarios (assumed:
`SessionsAssumption`): `SessionsHold` (`SessionsInv`) and, for each step, `ReservationsHold` (`ReservedStays`).

- That a live session is pooled is not inductive: between the handshake and the pool a session belongs to
  whoever carries it.  `Established` says from when on an end answers for a session, its dialler after the dial
  and the other after the adoption; `LinkAgrees`, that it is then in the pool, doomed or closed, that what
  is served on it was adopted by both, and that files move only under the grant in force.
- `OpAgrees`: who dials has no live session in the place of the pool it dials for, so that
  publishing replaces nothing that lives.  `EntryAgrees`: a session is pooled under its own generation.
  `UseAgrees` and `InboundAgrees` tie a sender, a lease and the inbound side to the dial they belong to.
- `TurnedAgrees`: the session turned away is over, and the one kept has the smaller number or was adopted
  already.  Two devices that cross compare the same two numbers, so that neither closes what
  the other keeps.

What stays with TLC: all liveness (also `CompletedWins`) and everything with `ENABLED`, which this
prover cannot do, and with it the fairness part of each specification; and what recursive definitions
compute.

## Not modelled

- Share grants: the replay window of request nonces, the schema migration, texts of errors,
  rate limits.  Digests and keys are model values; counters do not overflow (2^63).
- Hub: a crash of the server ends every connection and starts an empty hub, which adds
  nothing to the initial state; the contents of envelopes.
- Tasks: authorization is assumed to stay valid; byte counters, phases, plan previews, tombstones
  and quarantined rows are abstracted; closing the store is one step at the end of `Closed`.
- Queue: positions, row revisions (a stale command changes nothing), projections for the window.
- Transfer: chunk sizes, hashes as functions, pacing, windows, selections by name.
- Content store: capacity, hashing, body formats.
- Rendezvous: signatures, expiry, rate limits, heartbeats, the count of candidates (an `end` stands
  for them), a full recipient queue; messages left on a parked connection or a third device's
  request may end a dial (`direct.go:365-410`), which is a failed dial here.
- Sessions: peers without session reuse, the registry of device connections, failures while a
  control stream is detached, lifetimes in time.
- Membership: receipts of recoveries, request ids, schema backups, names and addresses, the
  expiry of codes, `JoinTestCode`, the first bootstrap, and the closing of sessions by a change
  (which `Sessions` has as `Withdraw`).
- Clipboard: formats, sizes, retry delays; more than one kind of content.  With several, a lease
  without the kind of a copy may replace the one it was bound to, and an edit of that kind then finds
  nothing to invalidate (`state.go:586`): `WithdrawnLeasesAreQuiet` speaks of one kind.  Files: contents and the 24 hours that end any job.
- Whole parts: the file body budget is a weighted semaphore whose waiters the runtime orders;
  connectivity, the native clipboard, the desktop shell, its store and the command line tools
  are I/O around the modelled services (no current publisher reaches the native broker of
  `clipboard_cache_native*.go`); the temporary share client is left for later.  Multicast
  discovery and the exchange of the two consents are libraries and I/O.

## Plan

1. `ShareClient`: the ledgers of both devices of a temporary share, composed with `ShareGrant`
   through an abstract share (open, taken by one receiver, used once, over).
2. `Clipboard` with two kinds of content.
3. `LanPair`: both ends of a pairing with the exchange of the two consents.
4. The order of the queue, and the removal of finished receives against late saves.
