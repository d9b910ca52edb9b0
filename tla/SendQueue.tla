------------------------------ MODULE SendQueue ------------------------------
(***************************************************************************)
(* The persisted send queue (internal/app/queue.go), the device batches    *)
(* built on it (batch.go), the history actions that touch it               *)
(* (inbox_actions.go) and the restart of the workspace (workspace.go).     *)
(*                                                                         *)
(* Every change of a queue row is made under queue.mu, so each command is  *)
(* one action; the two operations that hold the lock across steps of other *)
(* goroutines are split: the dispatcher (disp), which lets go of the lock  *)
(* while it asks for the devices' presence, and CancelBatch (cancelling).  *)
(* A task is reduced to what the queue reads of it; module Tasks has the   *)
(* rest.  Its saves commit the latest record, and commit it late.          *)
(* Row revisions are left out: a command that carries an old revision is   *)
(* refused and changes nothing.  Positions are left out too: the           *)
(* dispatcher may take any online item.  "queued" stands for waiting_peer  *)
(* as well: the two differ only in what the user is told.                  *)
(***************************************************************************)
EXTENDS Naturals, FiniteSets

CONSTANTS
    Items,          \* queue items
    Batch,          \* the items that one device batch would queue
    Tasks,          \* task identifiers, taken in order
    Lapsing,        \* bound: items whose expiry or grant may lapse
    Plans,          \* bound: which commands and faults, of PlanNames, are explored together
    Null,
    MaxAsks,        \* bound: times the user asks for one item
    MaxRestarts,    \* bound: ends of the process
    MaxFailures     \* bound: failing writes of the queue table and of the history

PlanNames == {"plain", "batch", "pause", "cancel_task", "cancel_item", "resume_task", "forget",
              "resend", "other", "cancel_batch", "lapse", "fail", "restart"}

ASSUME SendQueueAssumption ==
    /\ Plans \subseteq SUBSET PlanNames
    /\ Batch \subseteq Items /\ Lapsing \subseteq Items /\ Tasks \subseteq Nat
    /\ MaxAsks \in Nat \ {0} /\ MaxRestarts \in Nat /\ MaxFailures \in Nat
    /\ Null \notin Items \cup Tasks

VARIABLES
    item,       \* table send_queue: the row of each item, or Null
    asks,       \* how often the user asked for each item
    batch,      \* table send_batches: "none", "open" or "cancelled"
    mem,        \* taskManager.tasks, or Null
    row,        \* table tasks, or Null
    origin,     \* the item each task was started for, or Null
    disp,       \* where dispatchQueue is
    cancelling, \* tasks CancelBatch still has to cancel, or Null
    paused,     \* queue.paused, in memory and in the metadata table
    lapsed,     \* items whose expiry passed or whose peer was granted anew
    busy,       \* a transfer that is not the queue's is active
    historyErr, \* taskManager.historyErr: no row of the history is written any more
    failures, restarts,
    plan        \* the member of Plans that is explored

vars == <<item, asks, batch, mem, row, origin, disp, cancelling, paused, lapsed,
          busy, historyErr, failures, restarts, plan>>

queueVars == <<item, asks, batch>>
taskVars == <<mem, row, origin>>
boundVars == <<historyErr, failures, restarts, plan>>

-----------------------------------------------------------------------------
\* Records.

terminalQueue == {"completed", "cancelled", "expired"}
QueueStates == terminalQueue \cup {"queued", "running", "needs_attention"}
QueueItem == [state : QueueStates, task : Tasks \cup {Null}]

isTerminal == {"completed", "cancelled", "failed"}
Active == {"preparing", "live", "cancel_requested"}
TaskStates == isTerminal \cup Active \cup {"paused"}
\* "paused" stands for paused and for recovering without a worker; usable is
\* recoveryUsable, which the prepared manifest completes.
TaskRow == [state : TaskStates, usable : BOOLEAN]
TaskSnapshot == [state : TaskStates, usable : BOOLEAN, persisted : BOOLEAN]

\* Null is no row, no record and no list of tasks.
ASSUME NullAssumption ==
    /\ Null \notin QueueItem \cup TaskSnapshot \cup TaskRow \cup TaskStates
    /\ \A S \in SUBSET Tasks : S # Null

Known(t) == mem[t] # Null
Unused(t) == mem[t] = Null /\ row[t] = Null /\ origin[t] = Null
Fresh(t) == Unused(t) /\ \A u \in Tasks : u < t => ~Unused(u)
IsActive(t) == Known(t) /\ mem[t].state \in Active
hasActive == busy \/ \E t \in Tasks : IsActive(t)
CanResume(t) == Known(t) /\ mem[t].state = "paused" /\ mem[t].usable
Ended(t) == mem[t].state \in isTerminal \/ CanResume(t)
Stored(r) == [state |-> r.state, usable |-> r.usable]
historyAvailable == ~historyErr

In(i, S) == item[i] # Null /\ item[i].state \in S
Cancelled(i) == i \in Batch /\ batch = "cancelled"

Idle == [pc |-> "idle", todo |-> {}, item |-> Null, task |-> Null, seen |-> Null]
At(pc) == disp.pc = pc
\* queue.mu is free.
Unlocked == disp.pc \in {"idle", "lookup"} /\ cancelling = Null

TypeOK ==
    /\ item \in [Items -> QueueItem \cup {Null}]
    /\ asks \in [Items -> 0 .. MaxAsks]
    /\ batch \in {"none", "open", "cancelled"}
    /\ mem \in [Tasks -> TaskSnapshot \cup {Null}]
    /\ row \in [Tasks -> TaskRow \cup {Null}]
    /\ origin \in [Tasks -> Items \cup {Null}]
    /\ disp \in [pc : {"idle", "receipts", "settle", "lookup", "create", "begin", "spawn"},
                 todo : SUBSET Items, item : Items \cup {Null},
                 task : Tasks \cup {Null}, seen : TaskStates \cup {Null}]
    /\ cancelling \in (SUBSET Tasks) \cup {Null}
    /\ paused \in [mem : BOOLEAN, row : BOOLEAN]
    /\ lapsed \in [Items -> SUBSET {"expiry", "grant"}]
    /\ busy \in BOOLEAN /\ historyErr \in BOOLEAN
    /\ failures \in 0 .. MaxFailures /\ restarts \in 0 .. MaxRestarts /\ plan \in Plans

Init ==
    /\ item = [i \in Items |-> Null]
    /\ asks = [i \in Items |-> 0]
    /\ batch = "none"
    /\ mem = [t \in Tasks |-> Null]
    /\ row = [t \in Tasks |-> Null]
    /\ origin = [t \in Tasks |-> Null]
    /\ disp = Idle
    /\ cancelling = Null
    /\ paused = [mem |-> FALSE, row |-> FALSE]
    /\ lapsed = [i \in Items |-> {}]
    /\ busy = FALSE /\ historyErr = FALSE
    /\ failures = 0 /\ restarts = 0 /\ plan \in Plans

-----------------------------------------------------------------------------
\* Rows of the queue.

\* setQueueState: the task of the row stays.
SetState(q, i, s) == [q EXCEPT ![i].state = s]
SetStates(q, S, s) == [i \in Items |-> IF i \in S THEN [q[i] EXCEPT !.state = s] ELSE q[i]]

\* A failing write pauses the queue in memory.
WriteFails ==
    /\ "fail" \in plan /\ failures < MaxFailures /\ failures' = failures + 1
    /\ paused' = [paused EXCEPT !.mem = TRUE]

NewItem == [state |-> "queued", task |-> Null]

\* Mutant: the receipt of a cancelled batch stays cancelled.
NotReconciled(q) == q

\* reconcileCancelledBatchReceipts: a durable completed task wins over a late
\* cancellation and its queue receipt.
Reconciled(q) ==
    [i \in Items |->
        IF /\ q[i] # Null /\ Cancelled(i) /\ q[i].task # Null
           /\ row[q[i].task] # Null /\ row[q[i].task].state = "completed"
        THEN [q[i] EXCEPT !.state = "completed"] ELSE q[i]]

\* Enqueue and ResendInbox insert a row once; asking again for the same request
\* returns it.
Enqueue(i) ==
    /\ Unlocked /\ item[i] = Null /\ i \notin Batch
    /\ item' = [item EXCEPT ![i] = NewItem]
    /\ asks' = [asks EXCEPT ![i] = 1]
    /\ UNCHANGED <<batch, disp, cancelling, paused, lapsed, busy>>
    /\ UNCHANGED taskVars /\ UNCHANGED boundVars

\* A finished task is sent again, as a new item.
ResendInbox(t, i) ==
    /\ Known(t) /\ row[t] # Null /\ row[t].state \in isTerminal /\ row[t].usable
    /\ Enqueue(i)

\* EnqueueBatch: the parent and every child in one transaction.
EnqueueBatch ==
    /\ Unlocked /\ batch = "none" /\ Batch # {}
    /\ batch' = "open"
    /\ item' = [i \in Items |-> IF i \in Batch THEN NewItem ELSE item[i]]
    /\ asks' = [i \in Items |-> IF i \in Batch THEN 1 ELSE asks[i]]
    /\ UNCHANGED <<disp, cancelling, paused, lapsed, busy>>
    /\ UNCHANGED taskVars /\ UNCHANGED boundVars

SetQueuePaused(p) ==
    /\ Unlocked /\ paused # [mem |-> p, row |-> p]
    /\ paused' = [mem |-> p, row |-> p]
    /\ UNCHANGED <<disp, cancelling, lapsed, busy>>
    /\ UNCHANGED queueVars /\ UNCHANGED taskVars /\ UNCHANGED boundVars

-----------------------------------------------------------------------------
\* The dispatcher, under queue.mu but for the lookup.

\* A pass begins: receipts of cancelled batches, then the running items.
DispatchBegin ==
    /\ Unlocked /\ At("idle")
    /\ item' = Reconciled(item)
    /\ disp' = [Idle EXCEPT !.pc = "receipts", !.todo = {i \in Items : In(i, {"running"})
                                                         /\ item'[i].state = "running"}]
    /\ UNCHANGED <<asks, batch, cancelling, paused, lapsed, busy>>
    /\ UNCHANGED taskVars /\ UNCHANGED boundVars

\* The snapshot of a running item's task: still active, not durable, or ended.
DispatchLook(i) ==
    /\ At("receipts") /\ i \in disp.todo
    /\ LET t == item[i].task
           unsaved == Ended(t) /\ ~mem[t].persisted
       IN /\ item' = IF unsaved THEN SetState(item, i, "needs_attention") ELSE item
          /\ disp' = IF Ended(t) /\ ~unsaved
                     THEN [disp EXCEPT !.pc = "settle", !.item = i, !.task = t,
                                       !.seen = mem[t].state]
                     ELSE [disp EXCEPT !.todo = @ \ {i}]
    /\ UNCHANGED <<asks, batch, cancelling, paused, lapsed, busy>>
    /\ UNCHANGED taskVars /\ UNCHANGED boundVars

\* Mutant: the receipt is written from memory.
DurableNoMatter == TRUE

\* The history row must have caught up with the snapshot that was read.
Durable == row[disp.task] # Null /\ row[disp.task].state = disp.seen

\* Mutant: a transfer that failed or was paused keeps its item.
ReceiptOfSuccess(seen) ==
    IF seen \in {"completed", "cancelled"} THEN seen ELSE "running"

Receipt(seen) ==
    IF seen \in {"completed", "cancelled"} THEN seen ELSE "needs_attention"

\* The receipt: skipped until the row is durable; its write may fail.
DispatchSettle ==
    /\ At("settle")
    /\ disp' = [disp EXCEPT !.pc = "receipts", !.todo = @ \ {disp.item},
                            !.item = Null, !.task = Null, !.seen = Null]
    /\ \/ /\ Durable
          /\ item' = SetState(item, disp.item, Receipt(disp.seen))
          /\ UNCHANGED <<paused, failures>>
       \/ /\ Durable /\ WriteFails /\ UNCHANGED item
       \/ ~Durable /\ UNCHANGED <<item, paused, failures>>
    /\ UNCHANGED <<asks, batch, cancelling, lapsed, busy, historyErr, restarts, plan>>
    /\ UNCHANGED taskVars

\* Expired items end, items of an older grant are set aside.
Filtered(q) ==
    [i \in Items |->
        IF q[i] = Null \/ q[i].state # "queued" THEN q[i]
        ELSE IF "expiry" \in lapsed[i] THEN [q[i] EXCEPT !.state = "expired"]
        ELSE IF "grant" \in lapsed[i] THEN [q[i] EXCEPT !.state = "needs_attention"]
        ELSE q[i]]

\* The first pass also ends what belongs to a cancelled batch.
WithoutBatch(q) ==
    SetStates(q, {i \in Items : q[i] # Null /\ q[i].state = "queued" /\ Cancelled(i)}, "cancelled")

Runnable(q) == {i \in Items : q[i] # Null /\ q[i].state = "queued"}

\* The lock is released while the devices are looked up.
DispatchFilter ==
    /\ At("receipts") /\ disp.todo = {}
    /\ IF paused.mem \/ hasActive
       THEN disp' = Idle /\ UNCHANGED item
       ELSE /\ item' = Filtered(WithoutBatch(item))
            /\ disp' = IF Runnable(item') = {} THEN Idle ELSE [Idle EXCEPT !.pc = "lookup"]
    /\ UNCHANGED <<asks, batch, cancelling, paused, lapsed, busy>>
    /\ UNCHANGED taskVars /\ UNCHANGED boundVars

\* Rechecked after the lookup, with the rows.
MayDispatch == ~paused.mem /\ ~hasActive

\* The first online item is taken, if there is one.
DispatchRelock ==
    /\ Unlocked /\ At("lookup")
    /\ IF ~MayDispatch
       THEN disp' = Idle /\ UNCHANGED item
       ELSE LET q == Filtered(item)
            IN /\ item' = q
               /\ \/ disp' = Idle
                  \/ \E i \in Runnable(q) :
                        disp' = [Idle EXCEPT !.pc = "create", !.item = i]
    /\ UNCHANGED <<asks, batch, cancelling, paused, lapsed, busy>>
    /\ UNCHANGED taskVars /\ UNCHANGED boundVars

\* StartSend fails before it has a task: content, grant, listener.
DispatchRefused ==
    /\ At("create")
    /\ item' = SetState(item, disp.item, "needs_attention") /\ disp' = Idle
    /\ UNCHANGED <<asks, batch, cancelling, paused, lapsed, busy>>
    /\ UNCHANGED taskVars /\ UNCHANGED boundVars

\* BUSY: the item stays as it is.
DispatchBusy ==
    /\ At("create") /\ hasActive /\ disp' = Idle
    /\ UNCHANGED <<item, asks, batch, cancelling, paused, lapsed, busy>>
    /\ UNCHANGED taskVars /\ UNCHANGED boundVars

\* The task is created and its first row saved.
DispatchCreate(t) ==
    /\ At("create") /\ ~hasActive
    /\ "grant" \notin lapsed[disp.item] /\ ~Cancelled(disp.item)
    /\ Fresh(t)
    /\ mem' = [mem EXCEPT ![t] = [state |-> "preparing", usable |-> FALSE,
                                  persisted |-> historyAvailable]]
    /\ row' = IF historyAvailable
              THEN [row EXCEPT ![t] = [state |-> "preparing", usable |-> FALSE]] ELSE row
    /\ disp' = [disp EXCEPT !.pc = "begin", !.task = t]
    /\ UNCHANGED <<origin, cancelling, paused, lapsed, busy>>
    /\ UNCHANGED queueVars /\ UNCHANGED boundVars

\* beforeDispatch: a durable task takes the item if it still waits.
MayBegin == mem[disp.task].persisted /\ In(disp.item, {"queued"})

\* Either the item runs, or the task has failed and the item is set aside.
DispatchTake ==
    /\ At("begin")
    /\ IF MayBegin
       THEN /\ item' = [item EXCEPT ![disp.item] = [state |-> "running", task |-> disp.task]]
            /\ origin' = [origin EXCEPT ![disp.task] = disp.item]
            /\ disp' = [disp EXCEPT !.pc = "spawn"]
            /\ UNCHANGED mem
       ELSE /\ item' = SetState(item, disp.item, "needs_attention")
            /\ mem' = [mem EXCEPT ![disp.task].state = "failed"]
            /\ disp' = Idle
            /\ UNCHANGED origin
    /\ UNCHANGED <<asks, batch, row, cancelling, paused, lapsed, busy>>
    /\ UNCHANGED boundVars

\* The worker starts and the pass ends.
DispatchSpawn ==
    /\ At("spawn")
    /\ mem' = IF mem[disp.task].state = "preparing"
              THEN [mem EXCEPT ![disp.task].state = "live"] ELSE mem
    /\ disp' = Idle
    /\ UNCHANGED <<row, origin, cancelling, paused, lapsed, busy>>
    /\ UNCHANGED queueVars /\ UNCHANGED boundVars

-----------------------------------------------------------------------------
\* Commands of the user interface.

\* CancelTask on the record of t.
CancelledTask(r) ==
    IF r.state = "paused" THEN [r EXCEPT !.state = "cancelled"]
    ELSE [r EXCEPT !.state = "cancel_requested"]
CanCancel(t) == Known(t) /\ mem[t].state \in {"preparing", "live", "paused"}

CancelTask(t) ==
    /\ CanCancel(t)
    /\ mem' = [mem EXCEPT ![t] = CancelledTask(mem[t])]
    /\ UNCHANGED <<row, origin, disp, cancelling, paused, lapsed, busy>>
    /\ UNCHANGED queueVars /\ UNCHANGED boundVars

\* CancelQueue: the task of a running item must accept the cancellation first.
CancelQueue(i) ==
    /\ Unlocked /\ item[i] # Null /\ item[i].state \notin terminalQueue
    /\ IF item[i].state = "running"
       THEN /\ CanCancel(item[i].task)
            /\ mem' = [mem EXCEPT ![item[i].task] = CancelledTask(mem[item[i].task])]
       ELSE UNCHANGED mem
    /\ item' = SetState(item, i, "cancelled")
    /\ UNCHANGED <<asks, batch, row, origin, disp, cancelling, paused, lapsed, busy>>
    /\ UNCHANGED boundVars

MayConfirm(i) == In(i, {"needs_attention"}) /\ "grant" \notin lapsed[i] /\ ~Cancelled(i)

\* A resumed task has a worker again; its row is saved before the worker starts.
ResumedTask(r) == [r EXCEPT !.state = "live"]
SavedResumed(t) == IF historyErr THEN row ELSE [row EXCEPT ![t] = Stored(ResumedTask(mem[t]))]

\* ConfirmQueue goes on with a task that can be resumed.
ConfirmResume(i) ==
    /\ Unlocked /\ MayConfirm(i) /\ item[i].task # Null /\ CanResume(item[i].task)
    /\ ~hasActive
    /\ mem' = [mem EXCEPT ![item[i].task] = ResumedTask(@)]
    /\ row' = SavedResumed(item[i].task)
    /\ item' = SetState(item, i, "running")
    /\ UNCHANGED <<asks, batch, origin, disp, cancelling, paused, lapsed, busy>>
    /\ UNCHANGED boundVars

\* ConfirmQueue starts the item over.
ConfirmRequeue(i) ==
    /\ Unlocked /\ MayConfirm(i)
    /\ item[i].task # Null => ~CanResume(item[i].task)
    /\ asks[i] < MaxAsks
    /\ item' = [item EXCEPT ![i] = NewItem]
    /\ asks' = [asks EXCEPT ![i] = @ + 1]
    /\ UNCHANGED <<batch, disp, cancelling, paused, lapsed, busy>>
    /\ UNCHANGED taskVars /\ UNCHANGED boundVars

\* The children of the batch that have not ended are cancelled with it.
ChildrenCancelled(q) == SetStates(q, {i \in Batch : q[i].state \notin terminalQueue}, "cancelled")

\* Mutant: the running children are taken for done.
BatchTasksWaiting == {t \in Tasks : \E i \in Batch :
                        item[i].state \notin {"completed", "running"} /\ item[i].task = t}

\* The tasks of the children that have not completed.
BatchTasks == {t \in Tasks : \E i \in Batch : item[i].state # "completed" /\ item[i].task = t}

\* CancelBatch commits the decision, then cancels the tasks it had listed.
CancelBatch ==
    /\ Unlocked /\ batch = "open"
    /\ batch' = "cancelled"
    /\ item' = ChildrenCancelled(item)
    /\ cancelling' = BatchTasks
    /\ UNCHANGED <<asks, disp, paused, lapsed, busy>>
    /\ UNCHANGED taskVars /\ UNCHANGED boundVars

\* A task that ended or is being cancelled already is passed over.
CancelBatchTask(t) ==
    /\ cancelling # Null /\ t \in cancelling
    /\ mem' = IF CanCancel(t) THEN [mem EXCEPT ![t] = CancelledTask(mem[t])] ELSE mem
    /\ cancelling' = cancelling \ {t}
    /\ UNCHANGED <<row, origin, disp, paused, lapsed, busy>>
    /\ UNCHANGED queueVars /\ UNCHANGED boundVars

CancelBatchEnd ==
    /\ cancelling = {}
    /\ item' = Reconciled(item) /\ cancelling' = Null
    /\ UNCHANGED <<asks, batch, disp, paused, lapsed, busy>>
    /\ UNCHANGED taskVars /\ UNCHANGED boundVars

\* taskBatchID: a task knows its batch from its recovery data.
OfBatch(t) == origin[t] # Null /\ origin[t] \in Batch

\* ResumeTask from the task list: a batch's task needs the queue's confirmation.
ResumeTask(t) ==
    /\ CanResume(t) /\ ~hasActive /\ ~OfBatch(t)
    /\ mem' = [mem EXCEPT ![t] = ResumedTask(@)]
    /\ row' = SavedResumed(t)
    /\ UNCHANGED <<origin, disp, cancelling, paused, lapsed, busy>>
    /\ UNCHANGED queueVars /\ UNCHANGED boundVars

\* A record that may still run or be resumed, or failed with its recovery data.
inboxTaskProtected(r) == r.state \notin isTerminal \/ (r.state = "failed" /\ r.usable)

\* ForgetInboxRecords: refused while the record or the queue needs the task.
Referenced(t) ==
    \/ inboxTaskProtected(row[t])
    \/ Known(t) /\ inboxTaskProtected(mem[t])
    \/ \E i \in Items : item[i] # Null /\ item[i].task = t /\ item[i].state \notin terminalQueue
ForgetInboxRecords(t) ==
    /\ Unlocked /\ row[t] # Null /\ ~Referenced(t) /\ origin[t] # Null
    /\ row' = [row EXCEPT ![t] = Null] /\ mem' = [mem EXCEPT ![t] = Null]
    /\ item' = [i \in Items |-> IF item[i] # Null /\ item[i].task = t
                                THEN [item[i] EXCEPT !.task = Null] ELSE item[i]]
    /\ UNCHANGED <<asks, batch, origin, disp, cancelling, paused, lapsed, busy>>
    /\ UNCHANGED boundVars

-----------------------------------------------------------------------------
\* Tasks, the world and the end of the process.

\* The source is prepared: the recovery data is complete.
Prepare(t) ==
    /\ Known(t) /\ mem[t].state = "live" /\ ~mem[t].usable
    /\ mem' = [mem EXCEPT ![t].usable = TRUE]
    /\ UNCHANGED <<row, origin, disp, cancelling, paused, lapsed, busy>>
    /\ UNCHANGED queueVars /\ UNCHANGED boundVars

\* The worker ends.  A cancelled transfer that completes counts as cancelled; an
\* error that races the cancellation may still fail or interrupt it.
WorkerEnds(t, s) ==
    /\ Known(t) /\ mem[t].state \in {"live", "cancel_requested"}
    /\ ~(disp.pc = "spawn" /\ disp.task = t)
    /\ s \in {"failed", "paused"} \cup
             (IF mem[t].state = "live" THEN {"completed"} ELSE {"cancelled"})
    /\ s \in {"paused", "completed"} => mem[t].usable
    /\ mem' = [mem EXCEPT ![t].state = s]
    /\ UNCHANGED <<row, origin, disp, cancelling, paused, lapsed, busy>>
    /\ UNCHANGED queueVars /\ UNCHANGED boundVars

\* The latest record is saved.
Save(t) ==
    /\ ~historyErr /\ Known(t) /\ mem[t].persisted /\ row[t] # Stored(mem[t])
    /\ row' = [row EXCEPT ![t] = Stored(mem[t])]
    /\ UNCHANGED <<mem, origin, disp, cancelling, paused, lapsed, busy>>
    /\ UNCHANGED queueVars /\ UNCHANGED boundVars

\* A save fails and the record says so; after one failure all fail.
SaveFails(t) ==
    /\ Known(t) /\ mem[t].persisted /\ row[t] # Stored(mem[t])
    /\ \/ historyErr /\ UNCHANGED <<historyErr, failures>>
       \/ /\ ~historyErr /\ "fail" \in plan /\ failures < MaxFailures
          /\ historyErr' = TRUE /\ failures' = failures + 1
    /\ mem' = [mem EXCEPT ![t].persisted = FALSE]
    /\ UNCHANGED <<row, origin, disp, cancelling, paused, lapsed, busy, restarts, plan>>
    /\ UNCHANGED queueVars

\* Time passes, or the peer is revoked and granted anew.
Lapse(i, what) ==
    /\ i \in Lapsing /\ what \in {"expiry", "grant"} \ lapsed[i]
    /\ lapsed' = [lapsed EXCEPT ![i] = @ \cup {what}]
    /\ UNCHANGED <<disp, cancelling, paused, busy>>
    /\ UNCHANGED queueVars /\ UNCHANGED taskVars /\ UNCHANGED boundVars

\* A receive, or a transfer the user starts directly, comes and goes.
OtherTransfer ==
    /\ busy \/ ~hasActive
    /\ busy' = ~busy
    /\ UNCHANGED <<disp, cancelling, paused, lapsed>>
    /\ UNCHANGED queueVars /\ UNCHANGED taskVars /\ UNCHANGED boundVars

\* configureHistory: an interrupted task can be resumed or has failed.
Loaded(r) ==
    [state |-> IF r.state \in isTerminal THEN r.state
               ELSE IF r.usable THEN "paused" ELSE "failed",
     usable |-> r.usable]

\* restoreCancelledBatches: tasks of a cancelled batch end.
Restored(t) ==
    LET r == Loaded(row[t])
    IN IF /\ \E i \in Items : /\ item[i] # Null /\ item[i].task = t /\ Cancelled(i)
                              /\ Reconciled(item)[i].state # "completed"
          /\ r.state \notin isTerminal
       THEN [r EXCEPT !.state = "cancelled"] ELSE r

\* Mutant: a restart queues what was running.
Requeued(q) ==
    [i \in Items |-> IF q[i] # Null /\ q[i].state = "running"
                     THEN [q[i] EXCEPT !.state = "queued"] ELSE q[i]]

\* initializeWorkspace: open items wait for a confirmation.
Reopened(q) ==
    [i \in Items |->
        IF q[i] = Null \/ q[i].state \in terminalQueue THEN q[i]
        ELSE IF Cancelled(i) THEN [q[i] EXCEPT !.state = "cancelled"]
        ELSE [q[i] EXCEPT !.state = "needs_attention"]]

\* The process ends at any point and the profile is opened again.
Restart ==
    /\ "restart" \in plan /\ restarts < MaxRestarts /\ restarts' = restarts + 1
    /\ row' = [t \in Tasks |-> IF row[t] = Null THEN Null ELSE Restored(t)]
    /\ mem' = [t \in Tasks |->
                 IF row[t] = Null THEN Null
                 ELSE [state |-> row'[t].state, usable |-> row'[t].usable, persisted |-> TRUE]]
    /\ item' = Reopened(Reconciled(item))
    /\ disp' = Idle /\ cancelling' = Null /\ busy' = FALSE /\ historyErr' = FALSE
    /\ paused' = [paused EXCEPT !.mem = paused.row]
    /\ UNCHANGED <<asks, batch, origin, lapsed, failures, plan>>

-----------------------------------------------------------------------------
DispatchStep ==
    \/ \E i \in Items : DispatchLook(i)
    \/ DispatchSettle \/ DispatchFilter \/ DispatchRelock
    \/ DispatchRefused \/ DispatchBusy \/ DispatchTake \/ DispatchSpawn
    \/ \E t \in Tasks : DispatchCreate(t)

Command ==
    \/ "plain" \in plan /\ \E i \in Items : Enqueue(i)
    \/ "batch" \in plan /\ EnqueueBatch
    \/ \E i \in Items : ConfirmResume(i) \/ ConfirmRequeue(i)
    \/ "cancel_batch" \in plan /\ CancelBatch
    \/ "cancel_item" \in plan /\ \E i \in Items : CancelQueue(i)
    \/ "cancel_task" \in plan /\ \E t \in Tasks : CancelTask(t)
    \/ "resume_task" \in plan /\ \E t \in Tasks : ResumeTask(t)
    \/ "forget" \in plan /\ \E t \in Tasks : ForgetInboxRecords(t)
    \/ "resend" \in plan /\ \E t \in Tasks, i \in Items : ResendInbox(t, i)
    \/ "pause" \in plan /\ \E p \in BOOLEAN : SetQueuePaused(p)

BatchStep == (\E t \in Tasks : CancelBatchTask(t)) \/ CancelBatchEnd

TaskStep(t) == Prepare(t) \/ SaveFails(t) \/ \E s \in TaskStates : WorkerEnds(t, s)

World == \/ "other" \in plan /\ OtherTransfer
         \/ "lapse" \in plan /\ \E i \in Items, what \in {"expiry", "grant"} : Lapse(i, what)

Next ==
    \/ DispatchBegin \/ DispatchStep \/ Command \/ BatchStep \/ World \/ Restart
    \/ \E t \in Tasks : TaskStep(t) \/ Save(t)

\* The dispatcher runs a pass at least every three seconds; saves return and a
\* cancelled worker ends.
Fairness ==
    /\ WF_vars(DispatchBegin) /\ WF_vars(DispatchStep) /\ WF_vars(BatchStep)
    /\ \A t \in Tasks : /\ WF_vars(Save(t) \/ SaveFails(t))
                        /\ WF_vars(/\ Known(t) /\ mem[t].state = "cancel_requested"
                                   /\ \E s \in TaskStates : WorkerEnds(t, s))

Spec == Init /\ [][Next]_vars /\ Fairness

-----------------------------------------------------------------------------
\* The promise of the queue.

Phase(i) ==
    IF item[i] = Null THEN "none"
    ELSE IF item[i].state = "queued" THEN "waiting"
    ELSE IF item[i].state = "running" THEN "sending"
    ELSE IF item[i].state = "needs_attention" THEN "held" ELSE "done"

Promise == INSTANCE Outbox WITH
    phase <- [i \in Items |-> Phase(i)],
    asked <- asks,
    sent <- [i \in Items |-> Cardinality({t \in Tasks : origin[t] = i})]

\* Every transfer the queue starts was asked for: once when it was queued and
\* once per confirmation, whatever the dispatcher, the user's other commands,
\* failing writes and restarts do in between.
Promised == Promise!OutboxSpec

\* A completed item is backed by a durable completed task (until the user
\* forgets that task): no crash can take back what the queue has reported.
ReceiptIsDurable ==
    \A i \in Items :
        In(i, {"completed"}) /\ item[i].task # Null =>
            row[item[i].task] # Null /\ row[item[i].task].state = "completed"

\* Once the cancellation of a batch has been carried out, no worker of the batch
\* goes on uncancelled, and none is ever started again.
CancelledBatchIsQuiet ==
    batch = "cancelled" /\ cancelling = Null =>
        \A t \in Tasks : OfBatch(t) /\ Known(t) => mem[t].state \notin {"preparing", "live"}

\* Mutant: a task that was asked to stop counts as stopped.
RowActiveUntilAsked(i) ==
    /\ item[i].task # Null /\ row[item[i].task] # Null
    /\ row[item[i].task].state \in {"preparing", "live"}

\* scanBatch: what the user is told of a batch, from the rows alone.
RowActive(i) ==
    /\ item[i].task # Null /\ row[item[i].task] # Null
    /\ row[item[i].task].state \notin isTerminal \cup {"paused"}
BatchState ==
    LET some(S) == \E i \in Batch : In(i, S)
        running == some({"running"}) \/ (batch = "cancelled" /\ \E i \in Batch : RowActive(i))
    IN IF \A i \in Batch : In(i, {"completed"}) THEN "completed"
       ELSE IF batch = "cancelled" THEN IF running THEN "cancelling" ELSE "cancelled"
       ELSE IF running THEN "running"
       ELSE IF some({"needs_attention"}) THEN "needs_attention"
       ELSE IF some({"queued"}) THEN "waiting" ELSE "stopped"

\* A batch is reported cancelled only when no worker of its tasks is left, as
\* long as the history can be written.
CancelledMeansStopped ==
    batch # "none" /\ BatchState = "cancelled" /\ ~historyErr =>
        \A t \in Tasks : OfBatch(t) => ~IsActive(t)

\* A running item whose task ended is released: its receipt is written, or it is
\* put before the user.
ReceiptsArrive ==
    \A i \in Items, t \in Tasks :
        (In(i, {"running"}) /\ item[i].task = t /\ Known(t) /\ Ended(t)) ~>
            (~In(i, {"running"}) \/ IsActive(t))

\* A task of a cancelled batch that is durably completed makes its item
\* completed, even if the cancellation came first.
CompletedWins ==
    \A i \in Batch, t \in Tasks :
        (/\ batch = "cancelled" /\ item[i].task = t
         /\ row[t] # Null /\ row[t].state = "completed") ~>
            (In(i, {"completed"}) \/ (item[i] # Null /\ item[i].task = Null))

\* The queue's rows, the tasks' rows and the tasks in memory agree between any
\* two steps of the dispatcher, the workers and the user.
QueueInv == TypeOK /\ ReceiptIsDurable /\ CancelledBatchIsQuiet /\ CancelledMeansStopped
=============================================================================
