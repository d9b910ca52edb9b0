-------------------------------- MODULE Tasks --------------------------------
(***************************************************************************)
(* The task manager of a desktop or CLI profile (internal/app): transfer   *)
(* tasks with their attempts, the calls that start, pause, cancel and      *)
(* resume them, the revision-guarded history they are saved in, the        *)
(* listener that receives (inbox.go), and shutdown and restart.            *)
(*                                                                         *)
(* The grain follows the locks.  A step that holds taskRecord.mu is one    *)
(* action.  A save runs after that lock is released, so the row is put in  *)
(* saving[x] and Save commits it later; the goroutine x cannot go on until *)
(* then.  handleTaskRunError reads a snapshot, then the context, then      *)
(* applies a verdict: three actions.  Byte counters, phases, evidence and  *)
(* error texts are left out; authorization is assumed to stay valid.       *)
(***************************************************************************)
EXTENDS Naturals, FiniteSets

CONSTANTS
    Tasks,          \* task identifiers
    Callers,        \* goroutines that serve calls of the user interface
    Exit,           \* the goroutine of shutdownOwners
    Null,
    MaxAttempts,    \* bound: attempts ever started
    MaxRevision,    \* bound: revision up to which a receive's directory is lost
    MaxRestarts,    \* bound: ends of the process, by exit or by a crash
    Calls,          \* bound: the calls the user makes, of CallNames
    Routes,         \* bound: how peers deliver, of "inbox" and "pool"
    StoreMayFail,   \* whether a write of the history may fail
    InboxMayHang    \* whether the listener may take more than 5 s to stop

Attempts == 1 .. MaxAttempts
Actors == Attempts \cup Callers \cup {Exit}

TaskCalls == {"send", "receive", "resume", "pause", "cancel"}
CallNames == TaskCalls \cup {"listen", "exit"}

ASSUME TasksAssumption ==
    /\ Calls \subseteq CallNames /\ Routes \subseteq {"inbox", "pool"}
    /\ MaxAttempts \in Nat /\ MaxRevision \in Nat /\ MaxRestarts \in Nat
    /\ StoreMayFail \in BOOLEAN /\ InboxMayHang \in BOOLEAN
    /\ Null \notin Tasks \cup Actors
    /\ Attempts \cap (Callers \cup {Exit}) = {} /\ Exit \notin Callers

VARIABLES
    mem,        \* taskManager.tasks: the record of each task, or Null
    disk,       \* table tasks: the row of each task, or Null
    saving,     \* the row each goroutine is writing, or Null
    worker,     \* the goroutine and the context of each attempt, or Null
    caller,     \* the call each caller is in
    exit,       \* how far ShutdownContext has come
    opMu,       \* holder of Service.operationMu across more than one step
    handoff,    \* holder of Service.signalHandoffMu
    inbox,      \* the listener of runInbox
    historyErr, \* taskManager.historyErr is set
    restarts

vars == <<mem, disk, saving, worker, caller, exit, opMu, handoff, inbox,
          historyErr, restarts>>

-----------------------------------------------------------------------------
\* Records.

Terminal == {"completed", "rejected", "failed", "cancelled"}  \* no_content: completed
Intents == {"pause_requested", "cancel_requested", "shutdown_requested"}
States == Terminal \cup Intents \cup
          {"preparing", "awaiting_acceptance", "transferring", "verifying",
           "recovering", "paused"}

Row == [dir : {"send", "receive"}, state : States, attempt : Attempts,
        rev : Nat, usable : BOOLEAN]
Task == [dir : {"send", "receive"}, state : States, attempt : Attempts,
         rev : Nat, usable : BOOLEAN, live : BOOLEAN, persisted : BOOLEAN]

Stored(r) == [dir |-> r.dir, state |-> r.state, attempt |-> r.attempt,
              rev |-> r.rev, usable |-> r.usable]

Running == {"connecting", "prepared", "offered", "sending", "verifying"}
Ending == {"failed", "confirmed", "pause", "recover", "shutdown", "finish"}
Worker == [task : Tasks, pc : Running \cup Ending \cup {"held", "opening", "rearm", "done"},
           cancelled : BOOLEAN, seen : States \cup {Null},
           cause : {"none", "rejected", "attention", "connection", "other",
                    "cancelled", "failed", "completed"},
           decision : {"none", "yes", "no"}, via : {"call", "inbox", "pool"}]

NewWorker(t, pc, via) ==
    [task |-> t, pc |-> pc, cancelled |-> FALSE, seen |-> Null, cause |-> "none",
     decision |-> "none", via |-> via]

Call == [op : {"none"} \cup TaskCalls, task : Tasks \cup {Null},
         attempt : Attempts \cup {Null},
         pc : {"idle", "stop", "waiting", "ready", "created", "starting",
               "begun", "marked", "unlocked", "returning"}]

SavedRow == [task : Tasks, row : Row]

ASSUME NullAssumption == Null \notin Task \cup Row \cup Worker \cup SavedRow \cup States

Idle == [op |-> "none", task |-> Null, attempt |-> Null, pc |-> "idle"]

\* Whether some task has a cancel function: taskManager.hasActive.
Live(t) == mem[t] # Null /\ mem[t].live
hasActive == \E t \in Tasks : Live(t)
isClosing == exit # "open"

\* CanResume and CanPause are functions of the rest of the record.
CanResume(t) == /\ mem[t].usable /\ ~mem[t].live
                /\ mem[t].state \in {"paused", "recovering"}
CanPause(t) == /\ mem[t].live
               /\ \/ mem[t].state = "transferring"
                  \/ mem[t].state = "awaiting_acceptance" /\ mem[t].dir = "send"

Fresh(a) == worker[a] = Null /\ \A b \in Attempts : b < a => worker[b] # Null

TypeOK ==
    /\ mem \in [Tasks -> Task \cup {Null}]
    /\ disk \in [Tasks -> Row \cup {Null}]
    /\ saving \in [Actors -> SavedRow \cup {Null}]
    /\ worker \in [Attempts -> Worker \cup {Null}]
    /\ caller \in [Callers -> Call]
    /\ exit \in {"open", "closing", "saving", "stopping", "draining", "closed"}
    /\ opMu \in Actors \cup {Null}
    /\ handoff \in Callers \cup {Null}
    /\ inbox \in [enabled : BOOLEAN, pc : {"off", "idle", "receiving"}, stop : BOOLEAN]
    /\ historyErr \in BOOLEAN
    /\ restarts \in 0 .. MaxRestarts

Init ==
    /\ mem = [t \in Tasks |-> Null]
    /\ disk = [t \in Tasks |-> Null]
    /\ saving = [x \in Actors |-> Null]
    /\ worker = [a \in Attempts |-> Null]
    /\ caller = [c \in Callers |-> Idle]
    /\ exit = "open"
    /\ opMu = Null
    /\ handoff = Null
    /\ inbox = [enabled |-> TRUE, pc |-> "idle", stop |-> FALSE]
    /\ historyErr = FALSE
    /\ restarts = 0

-----------------------------------------------------------------------------
\* The record under its lock, and its row in the history.

\* An update of attempt a is accepted only while a owns an unfinished task.
Accepts(t, a) == mem[t].state \notin Terminal /\ mem[t].attempt = a

\* Mutant: an update that forgets the intent.
UpdatedOverIntent(r, s) == [r EXCEPT !.state = s, !.rev = @ + 1]

\* updateRecordAttemptMode: an intent keeps its state whatever the update says.
Updated(r, s) ==
    [r EXCEPT !.state = IF r.state \in Intents THEN r.state ELSE s, !.rev = @ + 1]
\* Mutant: the recovery data is never bound to the task.
UsableNever(r) == r
Usable(r) == [r EXCEPT !.usable = TRUE]

PausedRecord(r) == [r EXCEPT !.state = "paused", !.rev = @ + 1, !.live = FALSE]
RecoveringRecord(r) == [r EXCEPT !.state = "recovering", !.rev = @ + 1, !.live = FALSE]
FinishedRecord(r, s) ==
    [r EXCEPT !.state = IF s = "completed" /\ r.state = "cancel_requested"
                        THEN "cancelled" ELSE s,
              !.rev = @ + 1, !.live = FALSE]

\* Mutant: the last writer wins.
UpsertAnyRevision(t, row) == [disk EXCEPT ![t] = row]

\* upsertTask: a row replaces an older revision only.
Upsert(t, row) ==
    IF disk[t] = Null \/ row.rev > disk[t].rev THEN [disk EXCEPT ![t] = row] ELSE disk

\* Change the record of t and hand its row to goroutine x to be saved.
Put(x, t, r) ==
    /\ mem' = [mem EXCEPT ![t] = r]
    /\ saving' = [saving EXCEPT ![x] = [task |-> t, row |-> Stored(r)]]

\* The save of x reaches the store, or fails and marks the task; all saves
\* fail once one has (historyErr).  create's own save does not set historyErr.
Save(x) ==
    /\ saving[x] # Null
    /\ saving' = [saving EXCEPT ![x] = Null]
    /\ LET t == saving[x].task
           row == saving[x].row
       IN \/ /\ ~historyErr
             /\ disk' = Upsert(t, row)
             /\ UNCHANGED <<mem, historyErr>>
          \/ /\ StoreMayFail \/ historyErr
             /\ historyErr' = (historyErr \/ row.rev > 1)
             /\ mem' = [mem EXCEPT ![t].persisted = FALSE]
             /\ UNCHANGED disk
    /\ UNCHANGED <<worker, caller, exit, opMu, handoff, inbox, restarts>>

\* ensureInboxLocked: start the listener unless a task is active.
Ensured ==
    IF ~hasActive /\ inbox.enabled /\ ~isClosing /\ inbox.pc = "off"
    THEN [inbox EXCEPT !.pc = "idle", !.stop = FALSE] ELSE inbox

\* Cancelling the listener cancels the receive whose context derives from it.
CancelledWithInbox ==
    [a \in Attempts |->
        IF worker[a] # Null /\ worker[a].via = "inbox" /\ worker[a].pc # "done"
        THEN [worker[a] EXCEPT !.cancelled = TRUE] ELSE worker[a]]

\* Mutant: a task without its first attempt.
NewTaskUnassigned(dir, a) ==
    [dir |-> dir, state |-> "preparing", attempt |-> Null, rev |-> 1, usable |-> FALSE,
     live |-> TRUE, persisted |-> ~historyErr]

NewTask(dir, a) ==
    [dir |-> dir, state |-> "preparing", attempt |-> a, rev |-> 1, usable |-> FALSE,
     live |-> TRUE, persisted |-> ~historyErr]

-----------------------------------------------------------------------------
\* StartSend, StartReceive and ResumeTask.

Move(c, pc) == caller' = [caller EXCEPT ![c].pc = pc]

\* Leave the call, releasing what it holds.
Leave(c) ==
    /\ caller' = [caller EXCEPT ![c] = Idle]
    /\ handoff' = IF handoff = c THEN Null ELSE handoff
    /\ opMu' = IF opMu = c THEN Null ELSE opMu

SendCall(c, dir) ==
    /\ caller[c].pc = "idle" /\ handoff = Null
    /\ ~isClosing /\ ~hasActive
    /\ caller' = [caller EXCEPT ![c] = [Idle EXCEPT !.op = dir, !.pc = "stop"]]
    /\ handoff' = c
    /\ UNCHANGED <<mem, disk, saving, worker, exit, opMu, inbox, historyErr, restarts>>

ResumeCall(c, t) ==
    /\ caller[c].pc = "idle" /\ handoff = Null
    /\ ~isClosing /\ mem[t] # Null
    /\ caller' = [caller EXCEPT ![c] = [Idle EXCEPT !.op = "resume", !.task = t, !.pc = "stop"]]
    /\ handoff' = c
    /\ UNCHANGED <<mem, disk, saving, worker, exit, opMu, inbox, historyErr, restarts>>

\* stopInbox(false): cancel the listener and wait for it.
StopInbox(c) ==
    /\ caller[c].pc = "stop"
    /\ IF inbox.pc = "off"
       THEN Move(c, "ready") /\ UNCHANGED <<inbox, worker>>
       ELSE /\ Move(c, "waiting")
            /\ inbox' = [inbox EXCEPT !.stop = TRUE]
            /\ worker' = CancelledWithInbox
    /\ UNCHANGED <<mem, disk, saving, exit, opMu, handoff, historyErr, restarts>>

InboxStopped(c) ==
    /\ caller[c].pc = "waiting" /\ inbox.pc = "off"
    /\ Move(c, "ready")
    /\ UNCHANGED <<mem, disk, saving, worker, exit, opMu, handoff, inbox, historyErr, restarts>>

\* INBOX_STOP_TIMEOUT: the call returns without asking for the listener again.
InboxStopTimeout(c) ==
    /\ InboxMayHang /\ caller[c].pc = "waiting" /\ inbox.pc # "off"
    /\ Leave(c)
    /\ UNCHANGED <<mem, disk, saving, worker, exit, inbox, historyErr, restarts>>

\* Mutant: a task is created without looking for an active one again.
MayCreateAnyTime == ~isClosing

\* The checks of a new task, made under operationMu.
MayCreate == ~isClosing /\ ~hasActive

\* The rest of StartSend and StartReceive runs under operationMu.
SendRefused(c) ==
    /\ caller[c].pc = "ready" /\ caller[c].op \in {"send", "receive"} /\ opMu = Null
    /\ ~MayCreate
    /\ inbox' = Ensured
    /\ Leave(c)
    /\ UNCHANGED <<mem, disk, saving, worker, exit, historyErr, restarts>>

SendCreate(c, t, a) ==
    /\ caller[c].pc = "ready" /\ caller[c].op \in {"send", "receive"} /\ opMu = Null
    /\ MayCreate
    /\ mem[t] = Null /\ Fresh(a)
    /\ Put(c, t, NewTask(caller[c].op, a))
    /\ worker' = [worker EXCEPT ![a] = NewWorker(t, "held", "call")]
    /\ caller' = [caller EXCEPT ![c].task = t, ![c].attempt = a,
                                ![c].pc = IF caller[c].op = "send" THEN "created" ELSE "starting"]
    /\ opMu' = c
    /\ UNCHANGED <<disk, exit, handoff, inbox, historyErr, restarts>>

\* StartSend binds the source paths to the recovery data.
SendRecord(c) ==
    /\ caller[c].pc = "created" /\ saving[c] = Null
    /\ LET t == caller[c].task
       IN IF Accepts(t, caller[c].attempt)
          THEN Put(c, t, Updated(mem[t], mem[t].state))
          ELSE UNCHANGED <<mem, saving>>
    /\ Move(c, "starting")
    /\ UNCHANGED <<disk, worker, exit, opMu, handoff, inbox, historyErr, restarts>>

\* The worker goroutine starts and the call returns.
Spawn(c) ==
    /\ caller[c].pc = "starting" /\ saving[c] = Null
    /\ worker' = [worker EXCEPT ![caller[c].attempt].pc = "connecting"]
    /\ Leave(c)
    /\ UNCHANGED <<mem, disk, saving, exit, inbox, historyErr, restarts>>

ResumeAllowed(t) ==
    /\ \A u \in Tasks \ {t} : ~Live(u)
    /\ CanResume(t)

ResumeRefused(c) ==
    /\ caller[c].pc = "ready" /\ caller[c].op = "resume" /\ opMu = Null
    /\ isClosing \/ ~ResumeAllowed(caller[c].task)
    /\ inbox' = Ensured
    /\ Leave(c)
    /\ UNCHANGED <<mem, disk, saving, worker, exit, historyErr, restarts>>

\* The directory of a receive is gone: the task is marked recovering again.
ResumeNoDirectory(c) ==
    /\ caller[c].pc = "ready" /\ caller[c].op = "resume" /\ opMu = Null
    /\ LET t == caller[c].task
       IN /\ ~isClosing /\ ResumeAllowed(t) /\ mem[t].dir = "receive"
          /\ mem[t].rev < MaxRevision
          /\ Put(c, t, RecoveringRecord(mem[t]))
    /\ opMu' = c
    /\ Move(c, "returning")
    /\ UNCHANGED <<disk, worker, exit, handoff, inbox, historyErr, restarts>>

ResumeStart(c, a) ==
    /\ caller[c].pc = "ready" /\ caller[c].op = "resume" /\ opMu = Null
    /\ LET t == caller[c].task
       IN /\ ~isClosing /\ ResumeAllowed(t) /\ Fresh(a)
          /\ Put(c, t, [mem[t] EXCEPT !.state = "recovering", !.attempt = a,
                                      !.rev = @ + 1, !.live = TRUE])
          /\ worker' = [worker EXCEPT ![a] = NewWorker(t, "held", "call")]
    /\ caller' = [caller EXCEPT ![c].attempt = a, ![c].pc = "starting"]
    /\ opMu' = c
    /\ UNCHANGED <<disk, exit, handoff, inbox, historyErr, restarts>>

\* A call whose last step was a save returns when the save does.
CallReturns(c) ==
    /\ caller[c].pc = "returning" /\ saving[c] = Null
    /\ inbox' = IF caller[c].op = "resume" THEN Ensured ELSE inbox
    /\ Leave(c)
    /\ UNCHANGED <<mem, disk, saving, worker, exit, historyErr, restarts>>

-----------------------------------------------------------------------------
\* PauseTask, CancelTask and the decision on an offer.

\* beginProfileWork counts the call as work that shutdown waits for.
ControlCall(c, op, t) ==
    /\ caller[c].pc = "idle" /\ opMu = Null /\ ~isClosing /\ mem[t] # Null
    /\ caller' = [caller EXCEPT ![c] = [Idle EXCEPT !.op = op, !.task = t, !.pc = "begun"]]
    /\ UNCHANGED <<mem, disk, saving, worker, exit, opMu, handoff, inbox, historyErr, restarts>>

\* Mutant: the task is given free before its worker has stopped.
IntendAtOnce(c, s) ==
    LET t == caller[c].task
    IN /\ Put(c, t, PausedRecord(mem[t]))
       /\ caller' = [caller EXCEPT ![c].attempt = mem[t].attempt, ![c].pc = "marked"]

\* Record the intent; its save comes before the context is cancelled.
Intend(c, s) ==
    LET t == caller[c].task
    IN /\ Put(c, t, [mem[t] EXCEPT !.state = s, !.rev = @ + 1])
       /\ caller' = [caller EXCEPT ![c].attempt = mem[t].attempt, ![c].pc = "marked"]

PauseMark(c) ==
    /\ caller[c].pc = "begun" /\ caller[c].op = "pause"
    /\ IF CanPause(caller[c].task)
       THEN Intend(c, "pause_requested")
       ELSE caller' = [caller EXCEPT ![c] = Idle] /\ UNCHANGED <<mem, saving>>
    /\ UNCHANGED <<disk, worker, exit, opMu, handoff, inbox, historyErr, restarts>>

\* A stopped task is cancelled after the lock has been released once.
CancelMark(c) ==
    /\ caller[c].pc = "begun" /\ caller[c].op = "cancel"
    /\ LET t == caller[c].task
       IN IF mem[t].state \in Terminal \cup {"cancel_requested"}
          THEN caller' = [caller EXCEPT ![c] = Idle] /\ UNCHANGED <<mem, saving>>
          ELSE IF mem[t].live
               THEN Intend(c, "cancel_requested")
               ELSE Move(c, "unlocked") /\ UNCHANGED <<mem, saving>>
    /\ UNCHANGED <<disk, worker, exit, opMu, handoff, inbox, historyErr, restarts>>

\* Mutant: the intent is saved but the context is not cancelled.
FireNothing(c) ==
    /\ caller[c].pc = "marked" /\ saving[c] = Null
    /\ Leave(c)
    /\ UNCHANGED <<mem, disk, saving, worker, exit, inbox, historyErr, restarts>>

Fire(c) ==
    /\ caller[c].pc = "marked" /\ saving[c] = Null
    /\ worker' = [worker EXCEPT ![caller[c].attempt].cancelled = TRUE]
    /\ Leave(c)
    /\ UNCHANGED <<mem, disk, saving, exit, inbox, historyErr, restarts>>

\* finish("", cancelled): any attempt, unless the task is finished already.
CancelStopped(c) ==
    /\ caller[c].pc = "unlocked"
    /\ LET t == caller[c].task
       IN IF mem[t].state \in Terminal
          THEN UNCHANGED <<mem, saving>>
          ELSE Put(c, t, FinishedRecord(mem[t], "cancelled"))
    /\ Move(c, "returning")
    /\ UNCHANGED <<disk, worker, exit, opMu, handoff, inbox, historyErr, restarts>>

\* AcceptTask stores the receive plan under the task's lock, then decides.
Decide(t, a, d) ==
    /\ ~isClosing /\ opMu = Null
    /\ mem[t] # Null /\ mem[t].dir = "receive" /\ mem[t].state = "awaiting_acceptance"
    /\ mem[t].attempt = a /\ worker[a].pc = "offered" /\ worker[a].decision = "none"
    /\ IF d = "yes"
       THEN /\ ~historyErr
            /\ mem' = [mem EXCEPT ![t].rev = @ + 1]
            /\ disk' = Upsert(t, Stored([mem[t] EXCEPT !.rev = @ + 1]))
       ELSE UNCHANGED <<mem, disk>>
    /\ worker' = [worker EXCEPT ![a].decision = d]
    /\ UNCHANGED <<saving, caller, exit, opMu, handoff, inbox, historyErr, restarts>>

-----------------------------------------------------------------------------
\* The worker of an attempt.

\* Worker a is at pc and not inside a save.
At(a, pc) == worker[a] # Null /\ worker[a].pc = pc /\ saving[a] = Null
Goto(a, pc) == worker' = [worker EXCEPT ![a].pc = pc]

\* A change of memory only, and one that is saved; refused updates do nothing.
Transient(a, s) ==
    LET t == worker[a].task
    IN /\ mem' = IF Accepts(t, a) THEN [mem EXCEPT ![t] = Updated(mem[t], s)] ELSE mem
       /\ UNCHANGED saving
Persistent(a, s, usable) ==
    LET t == worker[a].task
        r == Updated(mem[t], s)
    IN IF Accepts(t, a)
       THEN Put(a, t, IF usable THEN Usable(r) ELSE r)
       ELSE UNCHANGED <<mem, saving>>

\* The manifest is ready and connected: a send becomes resumable.
Prepare(a) ==
    /\ At(a, "connecting") /\ mem[worker[a].task].dir = "send"
    /\ Persistent(a, mem[worker[a].task].state, TRUE)
    /\ Goto(a, "prepared")
    /\ UNCHANGED <<disk, caller, exit, opMu, handoff, inbox, historyErr, restarts>>

OfferSent(a) ==
    /\ At(a, "prepared")
    /\ Transient(a, "awaiting_acceptance")
    /\ Goto(a, "offered")
    /\ UNCHANGED <<disk, caller, exit, opMu, handoff, inbox, historyErr, restarts>>

\* An offer arrives.  The offer of a resumed receive needs no new decision.
OfferReceived(a) ==
    /\ At(a, "connecting")
    /\ LET t == worker[a].task
           resumed == mem[t].usable
       IN /\ mem[t].dir = "receive" /\ Accepts(t, a)
          /\ Persistent(a, IF resumed THEN "recovering" ELSE "awaiting_acceptance", TRUE)
          /\ worker' = [worker EXCEPT ![a].pc = "offered",
                                      ![a].decision = IF resumed THEN "yes" ELSE "none"]
    /\ UNCHANGED <<disk, caller, exit, opMu, handoff, inbox, historyErr, restarts>>

\* The selection is bound durably, under the task's lock, before any content
\* moves; recordSelectionAccepted and PlanChanged refuse it after an intent.
Begin(a) ==
    /\ At(a, "offered")
    /\ LET t == worker[a].task
           bound == [mem[t] EXCEPT !.rev = @ + 1]
       IN /\ mem[t].dir = "receive" => worker[a].decision = "yes"
          /\ Accepts(t, a) /\ mem[t].state \notin Intents /\ ~historyErr
          /\ disk' = Upsert(t, Stored(bound))
          /\ mem' = [mem EXCEPT ![t] = Updated(bound, "transferring")]
    /\ Goto(a, "sending")
    /\ UNCHANGED <<saving, caller, exit, opMu, handoff, inbox, historyErr, restarts>>

\* recordChunkSent and recordReceived: a durable checkpoint.
Checkpoint(a) ==
    /\ At(a, "sending")
    /\ LET t == worker[a].task
       IN /\ Accepts(t, a) /\ ~historyErr
          /\ disk[t] # Null => disk[t].rev < mem[t].rev    \* bound: one until others save
          /\ Persistent(a, mem[t].state, FALSE)
    /\ UNCHANGED <<disk, worker, caller, exit, opMu, handoff, inbox, historyErr, restarts>>

Verify(a) ==
    /\ At(a, "sending")
    /\ Transient(a, "verifying")
    /\ Goto(a, "verifying")
    /\ UNCHANGED <<disk, caller, exit, opMu, handoff, inbox, historyErr, restarts>>

\* completeTransfer: both sides confirmed; the counters are saved first.
Confirm(a) ==
    /\ At(a, "verifying")
    /\ Persistent(a, mem[worker[a].task].state, FALSE)
    /\ Goto(a, "confirmed")
    /\ UNCHANGED <<disk, caller, exit, opMu, handoff, inbox, historyErr, restarts>>

\* finishAttempt("completed"): a pause or shutdown intent is honoured after the
\* lock is released and taken again.
FinishCompleted(a) ==
    /\ At(a, "confirmed")
    /\ LET t == worker[a].task
       IN IF Accepts(t, a) /\ mem[t].state \in {"pause_requested", "shutdown_requested"}
          THEN /\ Goto(a, IF mem[t].state = "pause_requested" THEN "pause" ELSE "shutdown")
               /\ UNCHANGED <<mem, saving>>
          ELSE /\ Goto(a, "rearm")
               /\ IF Accepts(t, a) THEN Put(a, t, FinishedRecord(mem[t], "completed"))
                                   ELSE UNCHANGED <<mem, saving>>
    /\ UNCHANGED <<disk, caller, exit, opMu, handoff, inbox, historyErr, restarts>>

\* The transfer returned an error: handleTaskRunError reads the state first.
Fail(a, cause) ==
    /\ worker[a] # Null /\ worker[a].pc \in Running /\ saving[a] = Null
    /\ cause = "rejected" => /\ worker[a].pc = "offered"
                             /\ mem[worker[a].task].dir = "receive" => worker[a].decision = "no"
    /\ worker[a].cancelled => cause = "other"    \* the context decides, not the error
    /\ worker' = [worker EXCEPT ![a].pc = "failed", ![a].cause = cause,
                                ![a].seen = mem[worker[a].task].state]
    /\ UNCHANGED <<mem, disk, saving, caller, exit, opMu, handoff, inbox, historyErr, restarts>>

\* Then it reads the context and picks what to do from the state it has seen.
Verdict(a) ==
    /\ At(a, "failed")
    /\ LET w == worker[a]
           usable == mem[w.task].usable
           pc == IF w.cancelled
                 THEN CASE w.seen = "shutdown_requested" -> "shutdown"
                        [] w.seen = "pause_requested" -> "pause"
                        [] OTHER -> "finish"
                 ELSE IF usable /\ \/ w.cause = "attention"
                                   \/ /\ w.cause = "connection"
                                      /\ w.seen \in {"awaiting_acceptance", "transferring"}
                      THEN "recover" ELSE "finish"
           verdict == IF w.cancelled THEN "cancelled"
                      ELSE IF w.cause = "rejected" THEN "rejected" ELSE "failed"
       IN worker' = [worker EXCEPT ![a].pc = pc, ![a].seen = Null, ![a].decision = "none",
                                   ![a].cause = IF pc = "finish" THEN verdict ELSE "none"]
    /\ UNCHANGED <<mem, disk, saving, caller, exit, opMu, handoff, inbox, historyErr, restarts>>

\* pauseAttempt, recoverWithCode, shutdownTask or finishAttempt.
Conclude(a) ==
    /\ worker[a] # Null /\ worker[a].pc \in {"pause", "recover", "shutdown", "finish"}
    /\ LET w == worker[a]
           r == mem[w.task]
           concluded == CASE w.pc = "pause" -> PausedRecord(r)
                          [] w.pc = "recover" -> RecoveringRecord(r)
                          [] w.pc = "finish" -> FinishedRecord(r, w.cause)
                          [] w.pc = "shutdown" ->
                                IF r.usable THEN RecoveringRecord(r) ELSE FinishedRecord(r, "failed")
       IN IF Accepts(w.task, a) THEN Put(a, w.task, concluded) ELSE UNCHANGED <<mem, saving>>
    /\ Goto(a, "rearm")
    /\ UNCHANGED <<disk, caller, exit, opMu, handoff, inbox, historyErr, restarts>>

\* Mutant: the worker restarts the listener without waiting for a call.
MayRearmAnyTime(a) == TRUE

\* ensureInbox takes signalHandoffMu.
MayRearm(a) == worker[a].via = "call" => handoff = Null

\* The worker returns.  One that a call started restarts the listener; a
\* receive inside the listener gives the listener back to accepting.
Return(a) ==
    /\ At(a, "rearm")
    /\ MayRearm(a)
    /\ inbox' = CASE worker[a].via = "call" -> Ensured
                  [] worker[a].via = "inbox" -> [inbox EXCEPT !.pc = "idle"]
                  [] OTHER -> inbox
    /\ worker' = [worker EXCEPT ![a] = NewWorker(worker[a].task, "done", worker[a].via)]
    /\ UNCHANGED <<mem, disk, saving, caller, exit, opMu, handoff, historyErr, restarts>>

-----------------------------------------------------------------------------
\* The listener.

\* receiveIncomingStream: a peer without session reuse is served by the
\* listener itself, with a context derived from the listener's; a pooled
\* session is served by a goroutine of its own.
Incoming(via, t, a) ==
    /\ IF via = "inbox" THEN inbox.pc = "idle" /\ ~inbox.stop ELSE inbox.enabled
    /\ opMu = Null /\ MayCreate
    /\ mem[t] = Null /\ Fresh(a)
    /\ Put(a, t, NewTask("receive", a))
    /\ worker' = [worker EXCEPT ![a] = NewWorker(t, "opening", via)]
    /\ inbox' = IF via = "inbox" THEN [inbox EXCEPT !.pc = "receiving"] ELSE inbox
    /\ opMu' = a
    /\ UNCHANGED <<disk, caller, exit, handoff, historyErr, restarts>>

\* create has saved the task; operationMu is released and the session recorded.
Opened(a) ==
    /\ At(a, "opening")
    /\ opMu' = Null
    /\ Persistent(a, "preparing", FALSE)
    /\ Goto(a, "connecting")
    /\ UNCHANGED <<disk, caller, exit, handoff, inbox, historyErr, restarts>>

InboxExit ==
    /\ inbox.pc = "idle" /\ inbox.stop
    /\ inbox' = [inbox EXCEPT !.pc = "off", !.stop = FALSE]
    /\ UNCHANGED <<mem, disk, saving, worker, caller, exit, opMu, handoff, historyErr, restarts>>

\* StartInbox: enables the listener; an idle accept only is interrupted.
StartInbox ==
    /\ ~isClosing /\ handoff = Null /\ opMu = Null
    /\ inbox' = [Ensured EXCEPT !.enabled = TRUE]
    /\ inbox' # inbox
    /\ UNCHANGED <<mem, disk, saving, worker, caller, exit, opMu, handoff, historyErr, restarts>>

-----------------------------------------------------------------------------
\* Shutdown and restart.

\* ShutdownContext: the barrier, set under operationMu.
ExitCall ==
    /\ exit = "open" /\ opMu = Null
    /\ exit' = "closing"
    /\ UNCHANGED <<mem, disk, saving, worker, caller, opMu, handoff, inbox, historyErr, restarts>>

\* The intent and the cancellation of the active task are one step here.
ExitMark ==
    /\ exit = "closing"
    /\ IF hasActive
       THEN \E t \in Tasks :
              /\ Live(t)
              /\ LET r == IF mem[t].state \in {"cancel_requested", "pause_requested"} THEN mem[t]
                          ELSE [mem[t] EXCEPT !.state = "shutdown_requested", !.rev = @ + 1]
                 IN Put(Exit, t, r)
              /\ worker' = [worker EXCEPT ![mem[t].attempt].cancelled = TRUE]
       ELSE UNCHANGED <<mem, saving, worker>>
    /\ exit' = "saving"
    /\ UNCHANGED <<disk, caller, opMu, handoff, inbox, historyErr, restarts>>

ExitSaved ==
    /\ exit = "saving" /\ saving[Exit] = Null
    /\ exit' = "stopping"
    /\ UNCHANGED <<mem, disk, saving, worker, caller, opMu, handoff, inbox, historyErr, restarts>>

\* Mutant: the listener is disabled and not stopped.
ExitInboxDisabled ==
    /\ exit = "stopping"
    /\ inbox' = [inbox EXCEPT !.enabled = FALSE]
    /\ exit' = "draining"
    /\ UNCHANGED <<mem, disk, saving, worker, caller, opMu, handoff, historyErr, restarts>>

\* stopInbox(true).
ExitInbox ==
    /\ exit = "stopping"
    /\ inbox' = [inbox EXCEPT !.enabled = FALSE, !.stop = (inbox.pc # "off")]
    /\ worker' = CancelledWithInbox
    /\ exit' = "draining"
    /\ UNCHANGED <<mem, disk, saving, caller, opMu, handoff, historyErr, restarts>>

\* Mutant: the history is closed without joining the workers.
ClosedUnjoined ==
    /\ exit = "draining" /\ inbox.pc = "off"
    /\ exit' = "closed"
    /\ UNCHANGED <<mem, disk, saving, worker, caller, opMu, handoff, inbox, historyErr, restarts>>

\* The listener, the workers and the counted calls are joined, and the history
\* is closed.  A StartSend or ResumeTask that has not passed the barrier is not
\* counted and returns APP_CLOSING later.
Closed ==
    /\ exit = "draining" /\ inbox.pc = "off"
    /\ \A a \in Attempts : worker[a] # Null => worker[a].pc = "done"
    /\ \A c \in Callers : caller[c].pc \in {"idle", "stop", "waiting", "ready"}
    /\ exit' = "closed"
    /\ UNCHANGED <<mem, disk, saving, worker, caller, opMu, handoff, inbox, historyErr, restarts>>

\* Mutants: every row is reopened; an unfinished row is left as it is.
RestoredRowAll(row) ==
    [row EXCEPT !.state = IF row.usable THEN "recovering" ELSE "failed", !.rev = @ + 1]
RestoredRowAsIs(row) == row

\* configureHistory: an unfinished task is recoverable or failed, never live.
RestoredRow(row) ==
    IF row.state \in Terminal THEN row
    ELSE [row EXCEPT !.state = IF row.usable THEN "recovering" ELSE "failed", !.rev = @ + 1]
Restored(row) ==
    [dir |-> row.dir, state |-> row.state, attempt |-> row.attempt, rev |-> row.rev,
     usable |-> row.usable, live |-> FALSE, persisted |-> TRUE]

\* The process ends, at any moment, and starts again on the same profile.
Restart ==
    /\ restarts < MaxRestarts
    /\ restarts' = restarts + 1
    /\ disk' = [t \in Tasks |-> IF disk[t] = Null THEN Null ELSE RestoredRow(disk[t])]
    /\ mem' = [t \in Tasks |-> IF disk[t] = Null THEN Null ELSE Restored(RestoredRow(disk[t]))]
    /\ saving' = [x \in Actors |-> Null]
    /\ worker' = [a \in Attempts |->
                    IF worker[a] = Null THEN Null
                    ELSE NewWorker(worker[a].task, "done", worker[a].via)]
    /\ caller' = [c \in Callers |-> Idle]
    /\ exit' = "open"
    /\ opMu' = Null
    /\ handoff' = Null
    /\ inbox' = [enabled |-> TRUE, pc |-> "idle", stop |-> FALSE]
    /\ historyErr' = FALSE

-----------------------------------------------------------------------------
StartStep(c) ==
    \/ StopInbox(c) \/ InboxStopped(c) \/ InboxStopTimeout(c)
    \/ SendRefused(c) \/ SendRecord(c) \/ Spawn(c)
    \/ \E t \in Tasks, a \in Attempts : SendCreate(c, t, a)
    \/ ResumeRefused(c) \/ ResumeNoDirectory(c) \/ \E a \in Attempts : ResumeStart(c, a)

ControlStep(c) == PauseMark(c) \/ CancelMark(c) \/ Fire(c) \/ CancelStopped(c) \/ CallReturns(c)

Causes == {"rejected", "attention", "connection", "other"}

Progress(a) ==
    \/ Prepare(a) \/ OfferSent(a) \/ OfferReceived(a) \/ Begin(a) \/ Checkpoint(a)
    \/ Verify(a) \/ Confirm(a) \/ \E cause \in Causes : Fail(a, cause)

EndStep(a) == FinishCompleted(a) \/ Verdict(a) \/ Conclude(a) \/ Return(a)

ExitStep == ExitMark \/ ExitSaved \/ ExitInbox \/ Closed

Next ==
    \/ \E c \in Callers :
          \/ \E dir \in Calls \cap {"send", "receive"} : SendCall(c, dir)
          \/ "resume" \in Calls /\ \E t \in Tasks : ResumeCall(c, t)
          \/ \E t \in Tasks, op \in Calls \cap {"pause", "cancel"} : ControlCall(c, op, t)
          \/ StartStep(c) \/ ControlStep(c)
    \/ \E t \in Tasks, a \in Attempts, d \in {"yes", "no"} : Decide(t, a, d)
    \/ \E a \in Attempts : Progress(a) \/ Opened(a) \/ EndStep(a)
    \/ \E t \in Tasks, a \in Attempts, via \in Routes : Incoming(via, t, a)
    \/ \E x \in Actors : Save(x)
    \/ InboxExit
    \/ "listen" \in Calls /\ StartInbox
    \/ "exit" \in Calls /\ ExitCall
    \/ ExitStep \/ Restart

Spec == Init /\ [][Next]_vars

-----------------------------------------------------------------------------
\* What a step may not do, and what holds between steps.

\* Only one task has a cancel function at any time: create and ResumeTask check
\* for another one under operationMu, the listener checks again after the wait.
OneLiveTask ==
    \A t, u \in Tasks : Live(t) /\ Live(u) => t = u

\* A worker that can still change its task owns the task's current attempt, so
\* no callback of an older attempt can reach a newer one.
WorkerOwnsAttempt ==
    \A a \in Attempts :
        worker[a] # Null /\ worker[a].pc \notin {"rearm", "done"} =>
            LET t == worker[a].task
            IN mem[t].state \in Terminal \/ (mem[t].live /\ mem[t].attempt = a)

\* The goroutines that are writing a row of t.
Writers(t) == {x \in Actors : saving[x] # Null /\ saving[x].task = t}

\* A task that has stopped is in the history as it is in memory once its saves
\* are done, in whatever order the saves of the worker and of the calls landed,
\* unless the store failed.
StoppedIsDurable ==
    \A t \in Tasks :
        mem[t] # Null /\ ~mem[t].live /\ mem[t].persisted /\ Writers(t) = {} =>
            disk[t] = Stored(mem[t])

\* Once shutdown has closed the history the listener is off, no task is active
\* or waits for an intent, none is still being saved, and every task whose
\* save did not fail is stored as it ended; calls that come late change nothing.
ExitIsClean ==
    exit = "closed" =>
        /\ inbox.pc = "off"
        /\ \A t \in Tasks : mem[t] # Null =>
              /\ ~mem[t].live /\ mem[t].state \notin Intents
              /\ Writers(t) = {}
              /\ mem[t].persisted => disk[t] = Stored(mem[t])

\* From the moment a call has stopped the listener until its worker starts,
\* nobody starts the listener again: signalHandoffMu covers StartInbox, the
\* calls and the last step of the worker of an earlier attempt.
ListenerYields ==
    \A c \in Callers :
        caller[c].pc \in {"ready", "created", "starting"} => inbox.pc = "off"

\* A finished task stays as it finished, in memory and in the history, through
\* late callbacks, repeated calls and restarts.
FinishedStays ==
    [][\A t \in Tasks :
        /\ mem[t] # Null /\ mem[t].state \in Terminal /\ restarts' = restarts =>
              mem'[t].state = mem[t].state
        /\ disk[t] # Null /\ disk[t].state \in Terminal => disk'[t] = disk[t]]_vars

\* A transfer whose content has begun to move is resumable after the process
\* dies: what recovery needs was saved before the peer was asked to accept.
BegunIsResumable ==
    [][\A t \in Tasks :
        restarts' # restarts /\ mem[t] # Null =>
            (mem[t].persisted /\ mem[t].state \in {"transferring", "verifying"} =>
                mem'[t] # Null /\ mem'[t].state = "recovering")]_vars

\* After a pause, cancel or shutdown intent no progress of the attempt shows a
\* running or a completed transfer again.
IntentsHold ==
    [][\A t \in Tasks : mem[t] # Null /\ mem[t].state \in Intents /\ restarts' = restarts =>
        mem'[t].state \in Intents \cup {"paused", "recovering", "rejected", "failed", "cancelled"}]_vars

\* A task that was not active in the old process is not active in the new one,
\* and one that was is recoverable, failed or finished: nothing starts by itself.
NothingStartsAlone ==
    [][\A t \in Tasks : restarts' # restarts /\ mem'[t] # Null =>
        /\ ~mem'[t].live /\ mem'[t].state \in Terminal \cup {"recovering"}
        /\ mem'[t].state = "recovering" => mem'[t].usable]_vars

-----------------------------------------------------------------------------
\* Progress.  Goroutines of the program go on, a save returns, and a transfer
\* whose context is cancelled returns; the peer and the user owe nothing.
Aborts(a) == worker[a] # Null /\ worker[a].cancelled /\ Fail(a, "other")

Fairness ==
    /\ \A c \in Callers : WF_vars(StartStep(c)) /\ WF_vars(ControlStep(c))
    /\ \A a \in Attempts : WF_vars(Aborts(a)) /\ WF_vars(Opened(a) \/ EndStep(a))
    /\ \A x \in Actors : WF_vars(Save(x))
    /\ WF_vars(InboxExit) /\ WF_vars(ExitStep)

FairSpec == Spec /\ Fairness

\* Every accepted pause, cancellation or shutdown of a task is concluded.
IntentsEnd ==
    \A t \in Tasks :
        (mem[t] # Null /\ mem[t].state \in Intents)
            ~> (mem[t] = Null \/ mem[t].state \notin Intents)

\* Shutdown ends once it has been asked for.
ExitEnds == isClosing ~> (exit \in {"closed", "open"})

\* Memory, history, workers and the exit agree between any two steps.
TasksInv == TypeOK /\ StoppedIsDurable /\ WorkerOwnsAttempt /\ ExitIsClean

\* What the history says of a task survives: an end is final, what has begun
\* can be resumed, and only the user starts anything again.
HistoryKept == FinishedStays /\ BegunIsResumable /\ NothingStartsAlone

-----------------------------------------------------------------------------
\* What the tests say and the code does not keep: only one transfer goes on at
\* a time.
OneTransfer ==
    \A a, b \in Attempts :
        worker[a] # Null /\ worker[b] # Null
            /\ worker[a].pc \in Running /\ worker[b].pc \in Running => a = b
=============================================================================
