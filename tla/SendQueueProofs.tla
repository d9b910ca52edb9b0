-------------------------- MODULE SendQueueProofs --------------------------
(***************************************************************************)
(* The send queue keeps its rows, the tasks' rows and the tasks in memory  *)
(* in agreement, and starts no transfer the user has not asked for, for    *)
(* every number of items, tasks, failures and ends of the process.         *)
(***************************************************************************)
EXTENDS SendQueue, FiniteSetTheorems, TLAPS

(***************************************************************************)
(* The inductive invariant                                                 *)
(***************************************************************************)
\* A row names only a task that was started for it; a waiting row names none,
\* and the task of a running one is in memory.  A batch queues all of its rows.
RowsAgree ==
    \A i \in Items :
        /\ item[i] # Null /\ item[i].task # Null => origin[item[i].task] = i
        /\ In(i, {"queued"}) => item[i].task = Null
        /\ In(i, {"running"}) => item[i].task # Null /\ Known(item[i].task)
        /\ i \in Batch => (item[i] = Null <=> batch = "none")

\* What the dispatcher holds, while it keeps the lock and across its steps.
DispAgrees ==
    /\ disp.pc \notin {"idle", "lookup"} => cancelling = Null
    /\ disp.pc \in {"receipts", "settle"} => \A i \in disp.todo : In(i, {"running"})
    /\ disp.pc = "settle" =>
         /\ disp.item \in disp.todo /\ disp.task = item[disp.item].task
         /\ disp.seen \in TaskStates
         /\ OfBatch(disp.task) => ~IsActive(disp.task)
    /\ disp.pc \in {"create", "begin"} => disp.item \in Items /\ In(disp.item, {"queued"})
    /\ disp.pc = "begin" =>
         /\ disp.task \in Tasks /\ Known(disp.task) /\ origin[disp.task] = Null
         /\ ~Cancelled(disp.item)
         /\ mem[disp.task].state \notin {"live", "completed"} /\ ~mem[disp.task].usable
    /\ disp.pc = "spawn" => disp.task \in Tasks /\ Known(disp.task)

\* The history row of a task may lag, but never past its end: it is completed
\* only if the task is, and active while the task is and rows can be written.
HistoryAgrees ==
    \A t \in Tasks :
        /\ row[t] # Null /\ row[t].state = "completed" => Known(t) /\ mem[t].state = "completed"
        /\ IsActive(t) /\ ~historyErr => row[t] # Null /\ row[t].state \in Active

\* An active task of a batch is the task its item names, on a row that runs or
\* was cancelled; one that was not cancelled itself runs in an open batch, or
\* CancelBatch still has it before it.
WorkersAgree ==
    \A t \in Tasks : OfBatch(t) /\ IsActive(t) =>
        /\ In(origin[t], {"running", "cancelled"}) /\ item[origin[t]].task = t
        /\ mem[t].state \in {"preparing", "live"} =>
             \/ batch # "cancelled" /\ item[origin[t]].state = "running"
             \/ cancelling # Null /\ t \in cancelling

\* The transfers that were started for an item; a waiting item has one to come.
StartedFor(i) == {t \in Tasks : origin[t] = i}
AsksAgree ==
    \A i \in Items :
        /\ IsFiniteSet(StartedFor(i)) /\ Cardinality(StartedFor(i)) <= asks[i]
        /\ In(i, {"queued"}) => Cardinality(StartedFor(i)) < asks[i]
        /\ item[i] = Null => asks[i] = 0

Agreement == RowsAgree /\ HistoryAgrees /\ WorkersAgree /\ AsksAgree /\ ReceiptIsDurable

QueueIInv == TypeOK /\ DispAgrees /\ Agreement

\* The queue's rows, the tasks' rows and the tasks in memory agree between any
\* two steps, and what the user is told of them is true: no receipt of a task
\* that is not durably completed, no worker of a cancelled batch that goes on.
THEOREM QueueInvHolds == Spec => [](QueueIInv /\ QueueInv)
  \* Every step keeps the types.
  <1>QueueTypeStep. ASSUME TypeOK, RowsAgree, DispAgrees, [Next]_vars PROVE TypeOK'
    <2> USE <1>QueueTypeStep
    <2> USE SendQueueAssumption, NullAssumption
    <2>1. ASSUME NEW i \in Items, item[i] # Null, NEW s \in QueueStates
          PROVE  [item EXCEPT ![i].state = s] \in [Items -> QueueItem \cup {Null}]
      <3>1. item[i] \in QueueItem
        BY <2>1 DEF TypeOK
      <3>2. [item[i] EXCEPT !.state = s] \in QueueItem
        BY <3>1 DEF QueueItem
      <3> QED BY <3>2 DEF TypeOK
    <2>5. /\ {"preparing", "live", "cancel_requested", "cancelled", "failed", "completed", "paused"} \subseteq TaskStates
          /\ {"queued", "running", "needs_attention", "cancelled", "completed", "expired"} \subseteq QueueStates
      BY DEF TaskStates, isTerminal, Active, QueueStates, terminalQueue
    <2>2. ASSUME NEW t \in Tasks, Known(t)
          PROVE  /\ \A s \in TaskStates :
                      [mem EXCEPT ![t].state = s] \in [Tasks -> TaskSnapshot \cup {Null}]
                 /\ [mem EXCEPT ![t].usable = TRUE] \in [Tasks -> TaskSnapshot \cup {Null}]
                 /\ [mem EXCEPT ![t].persisted = FALSE] \in [Tasks -> TaskSnapshot \cup {Null}]
      <3>1. ASSUME NEW r \in TaskSnapshot, NEW s \in TaskStates, NEW b \in BOOLEAN
            PROVE  /\ [r EXCEPT !.state = s] \in TaskSnapshot /\ [r EXCEPT !.usable = b] \in TaskSnapshot
                   /\ [r EXCEPT !.persisted = b] \in TaskSnapshot
        BY DEF TaskSnapshot
      <3>2. mem[t] \in TaskSnapshot /\ mem \in [Tasks -> TaskSnapshot \cup {Null}]
        BY <2>2 DEF TypeOK, Known
      <3>3. ASSUME NEW s \in TaskStates
            PROVE  [mem EXCEPT ![t].state = s] \in [Tasks -> TaskSnapshot \cup {Null}]
        BY <3>1, <3>2
      <3>4. /\ [mem EXCEPT ![t].usable = TRUE] \in [Tasks -> TaskSnapshot \cup {Null}]
            /\ [mem EXCEPT ![t].persisted = FALSE] \in [Tasks -> TaskSnapshot \cup {Null}]
        <4>1. [mem[t] EXCEPT !.usable = TRUE] \in TaskSnapshot /\ [mem[t] EXCEPT !.persisted = FALSE] \in TaskSnapshot
          BY <3>1, <3>2, <2>5
        <4> QED BY <3>2, <4>1
      <3> QED BY <3>3, <3>4
    <2>3. /\ NewItem \in QueueItem
          /\ \A q \in [Items -> QueueItem \cup {Null}] :
               Reconciled(q) \in [Items -> QueueItem \cup {Null}]
          /\ \A q \in [Items -> QueueItem \cup {Null}] :
               Filtered(q) \in [Items -> QueueItem \cup {Null}]
          /\ \A q \in [Items -> QueueItem \cup {Null}], s \in QueueStates, S \in SUBSET Items :
               (\A i \in S : q[i] # Null) => SetStates(q, S, s) \in [Items -> QueueItem \cup {Null}]
          /\ \A q \in [Items -> QueueItem \cup {Null}] :
               Reopened(q) \in [Items -> QueueItem \cup {Null}]
      <3>1. ASSUME NEW r \in QueueItem, NEW s \in QueueStates PROVE [r EXCEPT !.state = s] \in QueueItem
        BY DEF QueueItem
      <3>2. {"completed", "expired", "needs_attention", "cancelled", "queued"} \subseteq QueueStates
        BY DEF QueueStates, terminalQueue
      <3>3. NewItem \in QueueItem
        BY <3>2 DEF NewItem, QueueItem
      <3> HIDE DEF QueueItem
      <3>4. ASSUME NEW q \in [Items -> QueueItem \cup {Null}]
            PROVE  /\ Reconciled(q) \in [Items -> QueueItem \cup {Null}]
                   /\ Filtered(q) \in [Items -> QueueItem \cup {Null}]
                   /\ Reopened(q) \in [Items -> QueueItem \cup {Null}]
        BY <3>1, <3>2 DEF Reconciled, Filtered, Reopened
      <3>5. ASSUME NEW q \in [Items -> QueueItem \cup {Null}], NEW s \in QueueStates, NEW S \in SUBSET Items,
                   \A i \in S : q[i] # Null
            PROVE  SetStates(q, S, s) \in [Items -> QueueItem \cup {Null}]
        BY <3>1, <3>5 DEF SetStates
      <3> QED BY <3>3, <3>4, <3>5
    <2>4. \A t \in Tasks : Known(t) => mem[t].state \in TaskStates /\ mem[t].usable \in BOOLEAN
                                       /\ mem[t] \in TaskSnapshot
      BY DEF TypeOK, Known, TaskSnapshot
    <2>6. ASSUME NEW t \in Tasks, Known(t) PROVE /\ SavedResumed(t) \in [Tasks -> TaskRow \cup {Null}]
                                                 /\ Stored(mem[t]) \in TaskRow
      <3>1. ResumedTask(mem[t]) \in TaskSnapshot
        BY <2>4, <2>5, <2>6 DEF TaskSnapshot, ResumedTask
      <3>2. \A r \in TaskSnapshot : Stored(r) \in TaskRow
        BY DEF TaskSnapshot, TaskRow, Stored
      <3> QED BY <2>4, <2>6, <3>1, <3>2 DEF TypeOK, SavedResumed
    <2>7. ASSUME NEW t \in Tasks, CanCancel(t)
          PROVE  [mem EXCEPT ![t] = CancelledTask(mem[t])] \in [Tasks -> TaskSnapshot \cup {Null}]
      <3>1. CancelledTask(mem[t]) \in TaskSnapshot
        BY <2>4, <2>5, <2>7 DEF CanCancel, CancelledTask, TaskSnapshot
      <3> QED BY <3>1 DEF TypeOK
    <2>8. CASE DispatchBegin
      BY <2>3, <2>8 DEF DispatchBegin, TypeOK, Idle, taskVars, boundVars
    <2>9. ASSUME NEW i \in Items, DispatchLook(i) PROVE TypeOK'
      <3>1. item[i] # Null /\ item[i].task \in Tasks /\ Known(item[i].task)
        BY <2>9 DEF DispatchLook, DispAgrees, RowsAgree, In, TypeOK, QueueItem, At
      <3> QED BY <2>1, <2>4, <2>5, <2>9, <3>1 DEF DispatchLook, SetState, TypeOK, taskVars, boundVars
    <2>10. CASE DispatchSettle
      <3>1. disp.item \in Items /\ item[disp.item] # Null
        BY <2>10 DEF DispatchSettle, DispAgrees, At, In, TypeOK
      <3>2. Receipt(disp.seen) \in QueueStates
        BY <2>5 DEF Receipt
      <3>3. item' \in [Items -> QueueItem \cup {Null}]
        BY <2>1, <2>10, <3>1, <3>2 DEF DispatchSettle, SetState, TypeOK
      <3>4. failures' \in 0 .. MaxFailures /\ paused' \in [mem : BOOLEAN, row : BOOLEAN]
        <4>1. CASE UNCHANGED <<paused, failures>>
          BY <4>1 DEF TypeOK
        <4>2. CASE WriteFails
          <5>1. failures' \in 0 .. MaxFailures
            BY <4>2 DEF WriteFails, TypeOK
          <5>2. paused' \in [mem : BOOLEAN, row : BOOLEAN]
            BY <4>2 DEF WriteFails, TypeOK
          <5> QED BY <5>1, <5>2
        <4> QED BY <2>10, <4>1, <4>2 DEF DispatchSettle
      <3> QED BY <2>10, <3>3, <3>4 DEF DispatchSettle, TypeOK, taskVars
    <2>11. CASE DispatchFilter
      <3>1. WithoutBatch(item) \in [Items -> QueueItem \cup {Null}]
        BY <2>3, <2>5 DEF WithoutBatch, TypeOK
      <3> QED BY <2>3, <2>11, <3>1 DEF DispatchFilter, TypeOK, taskVars, boundVars, Idle
    <2>12. CASE DispatchRelock
      <3>1. item' \in [Items -> QueueItem \cup {Null}]
        <4>1. Filtered(item) \in [Items -> QueueItem \cup {Null}]
          BY <2>3 DEF TypeOK
        <4> QED BY <2>12, <4>1 DEF DispatchRelock, TypeOK
      <3>2. disp' = Idle \/ \E i \in Items : disp' = [Idle EXCEPT !.pc = "create", !.item = i]
        BY <2>12 DEF DispatchRelock, Runnable
      <3>3. CASE disp' = Idle
        BY <2>12, <3>1, <3>3 DEF DispatchRelock, TypeOK, taskVars, boundVars, Idle
      <3>4. ASSUME NEW i \in Items, disp' = [Idle EXCEPT !.pc = "create", !.item = i] PROVE TypeOK'
        <4>1. disp' = [pc |-> "create", todo |-> {}, item |-> i, task |-> Null, seen |-> Null]
          BY <3>4 DEF Idle
        <4> QED BY <2>12, <3>1, <4>1 DEF DispatchRelock, TypeOK, taskVars, boundVars
      <3> QED BY <3>2, <3>3, <3>4
    <2>13. CASE DispatchRefused \/ DispatchBusy
      BY <2>1, <2>5, <2>13 DEF DispatchRefused, DispatchBusy, SetState, DispAgrees, In, At, Idle, TypeOK, taskVars, boundVars
    <2>14. ASSUME NEW t \in Tasks, DispatchCreate(t) PROVE TypeOK'
      <3>1. /\ [state |-> "preparing", usable |-> FALSE, persisted |-> historyAvailable] \in TaskSnapshot
            /\ [state |-> "preparing", usable |-> FALSE] \in TaskRow
        BY <2>5 DEF TaskSnapshot, TaskRow, historyAvailable
      <3> QED BY <2>14, <3>1 DEF DispatchCreate, TypeOK, queueVars, boundVars
    <2>15. CASE DispatchTake
      <3>1. disp.item \in Items /\ item[disp.item] # Null /\ disp.task \in Tasks /\ Known(disp.task)
        BY <2>15 DEF DispatchTake, DispAgrees, At, In
      <3>2. [state |-> "running", task |-> disp.task] \in QueueItem
        BY <2>5, <3>1 DEF QueueItem
      <3>3. mem' \in [Tasks -> TaskSnapshot \cup {Null}]
        <4>1. "failed" \in TaskStates
          BY <2>5
        <4>2. PICK t \in Tasks : t = disp.task
          BY <3>1
        <4>3. [mem EXCEPT ![t].state = "failed"] \in [Tasks -> TaskSnapshot \cup {Null}]
          BY <2>2, <3>1, <4>1, <4>2
        <4>4. mem' = mem \/ mem' = [mem EXCEPT ![t].state = "failed"]
          BY <2>15, <4>2 DEF DispatchTake
        <4> QED BY <4>3, <4>4 DEF TypeOK
      <3>4. item' \in [Items -> QueueItem \cup {Null}]
        BY <2>1, <2>5, <2>15, <3>1, <3>2 DEF DispatchTake, SetState, TypeOK
      <3> QED BY <2>15, <3>1, <3>3, <3>4 DEF DispatchTake, Idle, TypeOK, boundVars
    <2>16. CASE DispatchSpawn
      BY <2>2, <2>5, <2>16 DEF DispatchSpawn, DispAgrees, At, Idle, TypeOK, queueVars, boundVars
    <2>17. ASSUME NEW i \in Items, Enqueue(i) PROVE TypeOK'
      BY <2>3, <2>17 DEF Enqueue, TypeOK, taskVars, boundVars
    <2>18. CASE EnqueueBatch
      BY <2>3, <2>18 DEF EnqueueBatch, TypeOK, taskVars, boundVars
    <2>19. ASSUME NEW i \in Items, ConfirmResume(i) PROVE TypeOK'
      <3>1. item[i] # Null /\ item[i].task \in Tasks /\ Known(item[i].task)
        BY <2>19 DEF ConfirmResume, MayConfirm, In, CanResume, TypeOK, QueueItem
      <3>2. [mem EXCEPT ![item[i].task] = ResumedTask(@)] = [mem EXCEPT ![item[i].task].state = "live"]
        BY DEF ResumedTask
      <3>3. mem' \in [Tasks -> TaskSnapshot \cup {Null}]
        BY <2>2, <2>5, <2>19, <3>1, <3>2 DEF ConfirmResume
      <3> QED BY <2>1, <2>5, <2>6, <2>19, <3>1, <3>3 DEF ConfirmResume, SetState, TypeOK, boundVars
    <2>20. ASSUME NEW i \in Items, ConfirmRequeue(i) PROVE TypeOK'
      BY <2>3, <2>20 DEF ConfirmRequeue, TypeOK, taskVars, boundVars
    <2>21. CASE CancelBatch
      <3>1. \A i \in Batch : item[i] # Null
        BY <2>21 DEF CancelBatch, RowsAgree
      <3>2. ChildrenCancelled(item) \in [Items -> QueueItem \cup {Null}]
        BY <2>3, <2>5, <3>1 DEF ChildrenCancelled, TypeOK
      <3> QED BY <2>21, <3>2 DEF CancelBatch, BatchTasks, TypeOK, taskVars, boundVars
    <2>22. ASSUME NEW i \in Items, CancelQueue(i) PROVE TypeOK'
      <3>1. item[i].state = "running" => item[i].task \in Tasks
        BY <2>22 DEF CancelQueue, RowsAgree, In, TypeOK, QueueItem
      <3> QED BY <2>1, <2>5, <2>7, <2>22, <3>1 DEF CancelQueue, SetState, TypeOK, boundVars
    <2>23. ASSUME NEW t \in Tasks, CancelTask(t) PROVE TypeOK'
      BY <2>7, <2>23 DEF CancelTask, TypeOK, queueVars, boundVars
    <2>24. ASSUME NEW t \in Tasks, ResumeTask(t) PROVE TypeOK'
      <3>1. [mem EXCEPT ![t] = ResumedTask(@)] = [mem EXCEPT ![t].state = "live"]
        BY DEF ResumedTask
      <3>2. mem' \in [Tasks -> TaskSnapshot \cup {Null}]
        BY <2>2, <2>5, <2>24, <3>1 DEF ResumeTask, CanResume
      <3> QED BY <2>6, <2>24, <3>2 DEF ResumeTask, CanResume, TypeOK, queueVars, boundVars
    <2>25. ASSUME NEW t \in Tasks, ForgetInboxRecords(t) PROVE TypeOK'
      <3>1. ASSUME NEW r \in QueueItem PROVE [r EXCEPT !.task = Null] \in QueueItem
        BY DEF QueueItem
      <3> QED BY <2>25, <3>1 DEF ForgetInboxRecords, TypeOK, boundVars
    <2>26. ASSUME NEW p \in BOOLEAN, SetQueuePaused(p) PROVE TypeOK'
      BY <2>26 DEF SetQueuePaused, TypeOK, queueVars, taskVars, boundVars
    <2>27. ASSUME NEW t \in Tasks, CancelBatchTask(t) PROVE TypeOK'
      BY <2>7, <2>27 DEF CancelBatchTask, TypeOK, queueVars, boundVars
    <2>28. CASE CancelBatchEnd
      BY <2>3, <2>28 DEF CancelBatchEnd, TypeOK, taskVars, boundVars
    <2>29. ASSUME NEW t \in Tasks, Prepare(t) \/ SaveFails(t) PROVE TypeOK'
      <3>1. mem' \in [Tasks -> TaskSnapshot \cup {Null}]
        BY <2>2, <2>29 DEF Prepare, SaveFails
      <3>2. historyErr' \in BOOLEAN /\ failures' \in 0 .. MaxFailures
        <4>1. CASE UNCHANGED <<historyErr, failures>>
          BY <4>1 DEF TypeOK
        <4>2. CASE failures < MaxFailures /\ historyErr' = TRUE /\ failures' = failures + 1
          BY <4>2 DEF TypeOK
        <4> QED BY <2>29, <4>1, <4>2 DEF Prepare, SaveFails, boundVars
      <3> QED BY <2>29, <3>1, <3>2 DEF Prepare, SaveFails, TypeOK, queueVars, boundVars
    <2>30. ASSUME NEW t \in Tasks, NEW s \in TaskStates, WorkerEnds(t, s) PROVE TypeOK'
      <3>1. mem' \in [Tasks -> TaskSnapshot \cup {Null}]
        BY <2>2, <2>30 DEF WorkerEnds
      <3> QED BY <2>30, <3>1 DEF WorkerEnds, TypeOK, queueVars, boundVars
    <2>31. ASSUME NEW t \in Tasks, Save(t) PROVE TypeOK'
      BY <2>6, <2>31 DEF Save, TypeOK, queueVars, boundVars
    <2>32. CASE World
      <3>1. CASE OtherTransfer
        BY <3>1 DEF OtherTransfer, TypeOK, queueVars, taskVars, boundVars
      <3>2. ASSUME NEW i \in Items, NEW what \in {"expiry", "grant"}, Lapse(i, what) PROVE TypeOK'
        BY <3>2 DEF Lapse, TypeOK, queueVars, taskVars, boundVars
      <3> QED BY <2>32, <3>1, <3>2 DEF World
    <2>33. CASE Restart
      <3>1. item' \in [Items -> QueueItem \cup {Null}]
        BY <2>3, <2>33 DEF Restart, TypeOK
      <3>2. ASSUME NEW t \in Tasks, row[t] # Null PROVE Restored(t) \in TaskRow
        <4>1. row[t] \in TaskRow
          BY <3>2 DEF TypeOK
        <4>2. Loaded(row[t]) \in TaskRow
          BY <2>5, <4>1 DEF Loaded, TaskRow
        <4> QED BY <2>5, <4>2 DEF Restored, TaskRow
      <3>3. row' \in [Tasks -> TaskRow \cup {Null}]
        BY <2>33, <3>2 DEF Restart
      <3>4. \A t \in Tasks : row[t] # Null => row'[t] \in TaskRow
        BY <2>33, <3>2 DEF Restart
      <3>5. mem' \in [Tasks -> TaskSnapshot \cup {Null}]
        BY <2>33, <3>4 DEF Restart, TaskSnapshot, TaskRow
      <3>6. disp' = Idle /\ Idle \in [pc : {"idle"}, todo : SUBSET Items, item : {Null}, task : {Null}, seen : {Null}]
        BY <2>33 DEF Restart, Idle
      <3>7. restarts' \in 0 .. MaxRestarts
        BY <2>33 DEF Restart, TypeOK
      <3>8. paused' \in [mem : BOOLEAN, row : BOOLEAN]
        BY <2>33 DEF Restart, TypeOK
      <3>9. UNCHANGED <<asks, batch, origin, lapsed, failures, plan>> /\ busy' = FALSE /\ historyErr' = FALSE
            /\ cancelling' = Null
        BY <2>33 DEF Restart
      <3> QED BY <3>1, <3>3, <3>5, <3>6, <3>7, <3>8, <3>9 DEF TypeOK
    <2>34. CASE UNCHANGED vars
      BY <2>34 DEF vars, TypeOK
    <2>35. CASE DispatchStep
      BY <2>9, <2>10, <2>11, <2>12, <2>13, <2>14, <2>15, <2>16, <2>35 DEF DispatchStep
    <2>36. CASE Command
      <3>1. ASSUME NEW t \in Tasks, NEW i \in Items, ResendInbox(t, i) PROVE TypeOK'
        BY <2>17, <3>1 DEF ResendInbox
      <3> QED BY <2>17, <2>18, <2>19, <2>20, <2>21, <2>22, <2>23, <2>24, <2>25, <2>26, <2>36, <3>1 DEF Command
    <2> QED BY <2>8, <2>27, <2>28, <2>29, <2>30, <2>31, <2>32, <2>33, <2>34, <2>35, <2>36
            DEF Next, BatchStep, TaskStep
  \* Every step keeps the agreement.
  <1>QueueStep. ASSUME QueueIInv, TypeOK', [Next]_vars
                PROVE  DispAgrees' /\ Agreement'
    <2> USE <1>QueueStep
    <2> USE SendQueueAssumption, NullAssumption
    <2> DEFINE Ending == {"completed", "cancelled", "expired", "needs_attention"}
    <2>1. /\ TypeOK /\ DispAgrees /\ RowsAgree /\ HistoryAgrees /\ WorkersAgree /\ AsksAgree /\ ReceiptIsDurable
          /\ \A i \in Items : item[i] # Null => item[i].task \in Tasks \cup {Null} /\ item[i] \in QueueItem
          /\ \A t \in Tasks : Known(t) => mem[t] \in TaskSnapshot
          /\ \A t \in Tasks : origin[t] \in Items \cup {Null}
      BY DEF QueueIInv, Agreement, TypeOK, QueueItem, Known
    <2>2. ASSUME NEW r \in QueueItem, NEW x \in QueueStates
          PROVE  /\ [r EXCEPT !.state = x].state = x /\ [r EXCEPT !.state = x].task = r.task
                 /\ [r EXCEPT !.state = x] # Null
      <3>1. [r EXCEPT !.state = x] \in QueueItem
        BY DEF QueueItem
      <3> QED BY <3>1 DEF QueueItem
    <2>3. Ending \subseteq QueueStates
      BY DEF QueueStates, terminalQueue
    \* Rows that are settled, whoever settles them: the task stays, and no row that
    \* has a worker of the batch is settled but by a cancellation.
    <2>4. ASSUME UNCHANGED <<asks, batch, mem, row, origin, historyErr>>,
                 cancelling' = cancelling \/ cancelling = {},
                 \A i \in Items : item'[i] # item[i] =>
                    /\ item[i] # Null /\ item'[i] # Null
                    /\ item'[i].task = item[i].task /\ item'[i].state \in Ending
                    /\ item'[i].state = "completed" /\ item[i].task # Null =>
                         row[item[i].task] # Null /\ row[item[i].task].state = "completed"
                    /\ item[i].task # Null /\ item[i].state \in {"running", "cancelled"} /\ OfBatch(item[i].task)
                         => ~IsActive(item[i].task)
          PROVE  Agreement'
      <3>1. RowsAgree'
        BY <2>1, <2>4 DEF RowsAgree, In, Known
      <3>2. HistoryAgrees'
        BY <2>1, <2>4 DEF HistoryAgrees, IsActive, Known
      <3>3. WorkersAgree'
        BY <2>1, <2>4 DEF WorkersAgree, In, Known, IsActive, OfBatch
      <3>4. AsksAgree'
        BY <2>1, <2>4 DEF AsksAgree, StartedFor, In
      <3>5. ReceiptIsDurable'
        BY <2>1, <2>4 DEF ReceiptIsDurable, In
      <3> QED BY <3>1, <3>2, <3>3, <3>4, <3>5 DEF Agreement
    \* Tasks that go on, end or are saved, whoever makes them: the rows stay.
    <2>5. ASSUME UNCHANGED <<item, asks, batch, origin>>, HistoryAgrees',
                 \A t \in Tasks :
                    /\ Known(t) => Known(t)'
                    /\ row[t] # Null /\ row[t].state = "completed" => row'[t] # Null /\ row'[t].state = "completed"
                    /\ OfBatch(t) /\ IsActive(t)' => IsActive(t)
                    /\ OfBatch(t) /\ Known(t)' /\ mem'[t].state \in {"preparing", "live"} =>
                         /\ mem[t].state \in {"preparing", "live"}
                         /\ cancelling # Null /\ t \in cancelling => cancelling' # Null /\ t \in cancelling'
          PROVE  Agreement'
      <3>1. RowsAgree'
        BY <2>1, <2>5 DEF RowsAgree, In
      <3>3. WorkersAgree'
        BY <2>1, <2>5 DEF WorkersAgree, In, IsActive, OfBatch, Active
      <3>4. AsksAgree'
        BY <2>1, <2>5 DEF AsksAgree, StartedFor, In
      <3>5. ReceiptIsDurable'
        BY <2>1, <2>5 DEF ReceiptIsDurable, In
      <3> QED BY <2>5, <3>1, <3>3, <3>4, <3>5 DEF Agreement
    <2> DEFINE Settled(i) ==
          /\ item[i] # Null /\ item'[i] # Null
          /\ item'[i].task = item[i].task /\ item'[i].state \in Ending
          /\ item'[i].state = "completed" /\ item[i].task # Null =>
               /\ row[item[i].task] # Null /\ row[item[i].task].state = "completed"
          /\ item[i].task # Null /\ item[i].state \in {"running", "cancelled"} /\ OfBatch(item[i].task)
               => ~IsActive(item[i].task)
    <2>6. ASSUME item' = Reconciled(item), NEW i \in Items, item'[i] # item[i]
          PROVE  Settled(i) /\ item'[i].state = "completed" /\ Cancelled(i)
      <3>1. /\ item[i] # Null /\ Cancelled(i) /\ item[i].task # Null
            /\ row[item[i].task] # Null /\ row[item[i].task].state = "completed"
            /\ item'[i] = [item[i] EXCEPT !.state = "completed"]
        BY <2>6 DEF Reconciled
      <3>2. ~IsActive(item[i].task)
        BY <2>1, <3>1 DEF HistoryAgrees, IsActive, Active
      <3> QED BY <2>1, <2>2, <2>3, <3>1, <3>2
    <2>7. ASSUME NEW j \in Items, item[j] # Null, NEW x \in Ending, item' = SetState(item, j, x),
                 x = "completed" /\ item[j].task # Null =>
                    /\ row[item[j].task] # Null /\ row[item[j].task].state = "completed",
                 item[j].state = "queued" \/ (item[j].task # Null /\ (OfBatch(item[j].task) => ~IsActive(item[j].task))),
                 NEW i \in Items, item'[i] # item[i]
          PROVE  Settled(i) /\ i = j
      <3>1. i = j /\ item'[i] = [item[i] EXCEPT !.state = x]
        BY <2>1, <2>7 DEF SetState, TypeOK
      <3> QED BY <2>1, <2>2, <2>3, <2>7, <3>1
    <2>8. CASE DispatchBegin
      <3>1. \A i \in Items : item'[i] # item[i] => Settled(i)
        BY <2>6, <2>8 DEF DispatchBegin
      <3>2. Agreement'
        BY <2>4, <2>8, <3>1 DEF DispatchBegin, taskVars, boundVars
      <3>3. disp'.pc = "receipts" /\ \A i \in disp'.todo : i \in Items /\ In(i, {"running"}) /\ item'[i].state = "running"
        BY <2>8 DEF DispatchBegin, Idle
      <3>4. \A i \in disp'.todo : item'[i] # Null
        BY <3>1, <3>3 DEF In
      <3>5. cancelling' = Null
        BY <2>8 DEF DispatchBegin, Unlocked
      <3>6. DispAgrees'
        BY <3>3, <3>4, <3>5 DEF DispAgrees, In
      <3> QED BY <3>2, <3>6
    <2>9. ASSUME NEW j \in Items, DispatchLook(j) PROVE DispAgrees' /\ Agreement'
      <3> DEFINE t == item[j].task
      <3> DEFINE unsaved == Ended(t) /\ ~mem[t].persisted
      <3>1. At("receipts") /\ j \in disp.todo /\ In(j, {"running"}) /\ t \in Tasks /\ Known(t) /\ cancelling = Null
        BY <2>1, <2>9 DEF DispatchLook, At, DispAgrees, RowsAgree, In
      <3>2. CASE unsaved
        <4>1. ~IsActive(t) /\ t # Null
          BY <3>1, <3>2 DEF Ended, IsActive, CanResume, isTerminal, Active
        <4>2. item' = SetState(item, j, "needs_attention")
          BY <2>9, <3>2 DEF DispatchLook
        <4>3. \A i \in Items : item'[i] # item[i] => Settled(i) /\ i = j
          BY <2>7, <3>1, <4>1, <4>2 DEF In
        <4>4. Agreement'
          BY <2>4, <2>9, <4>3 DEF DispatchLook, taskVars, boundVars
        <4>5. disp' = [disp EXCEPT !.todo = @ \ {j}] /\ cancelling' = cancelling
          BY <2>9, <3>2 DEF DispatchLook
        <4>6. disp'.pc = "receipts" /\ disp'.todo = disp.todo \ {j}
          BY <2>1, <3>1, <4>5 DEF TypeOK, At
        <4>7. DispAgrees'
          BY <2>1, <3>1, <4>3, <4>5, <4>6 DEF DispAgrees, In, At, TypeOK
        <4> QED BY <4>4, <4>7
      <3>3. CASE ~unsaved
        <4>1. item' = item
          BY <2>9, <3>3 DEF DispatchLook
        <4>2. Agreement'
          BY <2>4, <2>9, <4>1 DEF DispatchLook, taskVars, boundVars
        <4>3. CASE Ended(t)
          <5>1. disp' = [disp EXCEPT !.pc = "settle", !.item = j, !.task = t, !.seen = mem[t].state]
            BY <2>9, <3>3, <4>3 DEF DispatchLook
          <5>2. /\ disp'.pc = "settle" /\ disp'.item = j /\ disp'.task = t /\ disp'.seen = mem[t].state
                /\ disp'.todo = disp.todo
            BY <2>1, <5>1 DEF TypeOK
          <5>3. ~IsActive(t) /\ mem[t].state \in TaskStates
            BY <2>1, <3>1, <4>3 DEF Ended, IsActive, CanResume, isTerminal, Active, TaskSnapshot
          <5> QED BY <2>1, <2>9, <3>1, <4>1, <4>2, <5>2, <5>3 DEF DispatchLook, DispAgrees, In, At, IsActive, Known, OfBatch, taskVars
        <4>4. CASE ~Ended(t)
          <5>1. disp' = [disp EXCEPT !.todo = @ \ {j}]
            BY <2>9, <4>4 DEF DispatchLook
          <5>2. disp'.pc = "receipts" /\ disp'.todo = disp.todo \ {j}
            BY <2>1, <3>1, <5>1 DEF TypeOK, At
          <5> QED BY <2>1, <2>9, <3>1, <4>1, <4>2, <5>2 DEF DispatchLook, DispAgrees, In, At
        <4> QED BY <4>3, <4>4
      <3> QED BY <3>2, <3>3
    <2>10. CASE DispatchSettle
      <3>1. /\ At("settle") /\ disp.item \in Items /\ In(disp.item, {"running"}) /\ disp.task = item[disp.item].task
            /\ disp.item \in disp.todo /\ disp.task \in Tasks /\ cancelling = Null
            /\ (OfBatch(disp.task) => ~IsActive(disp.task))
        BY <2>1, <2>10 DEF DispatchSettle, At, DispAgrees, RowsAgree, In, TypeOK
      <3>2. \A i \in Items : item'[i] # item[i] => Settled(i) /\ i = disp.item
        <4>1. CASE item' = item
          BY <4>1
        <4>2. CASE Durable /\ item' = SetState(item, disp.item, Receipt(disp.seen))
          <5>1. Receipt(disp.seen) \in Ending /\ (Receipt(disp.seen) = "completed" => disp.seen = "completed")
            BY DEF Receipt
          <5> QED BY <2>7, <3>1, <4>2, <5>1 DEF Durable, In
        <4> QED BY <2>10, <4>1, <4>2 DEF DispatchSettle
      <3>3. Agreement'
        BY <2>4, <2>10, <3>2 DEF DispatchSettle, taskVars
      <3>4. disp'.pc = "receipts" /\ disp'.todo = disp.todo \ {disp.item}
        BY <2>1, <2>10 DEF DispatchSettle, TypeOK
      <3>5. DispAgrees'
        BY <2>1, <2>10, <3>1, <3>2, <3>4 DEF DispatchSettle, DispAgrees, In, At, TypeOK
      <3> QED BY <3>3, <3>5
    \* Waiting rows that end before they start.
    <2>11. /\ \A i \in Items : Filtered(item)[i] # item[i] =>
                /\ In(i, {"queued"})
                /\ \E x \in Ending \ {"completed"} : Filtered(item)[i] = [item[i] EXCEPT !.state = x]
           /\ \A i \in Items : Filtered(WithoutBatch(item))[i] # item[i] =>
                /\ In(i, {"queued"})
                /\ \E x \in Ending \ {"completed"} : Filtered(WithoutBatch(item))[i] = [item[i] EXCEPT !.state = x]
      <3>1. \A i \in Items : Filtered(item)[i] # item[i] =>
                /\ In(i, {"queued"})
                /\ \E x \in Ending \ {"completed"} : Filtered(item)[i] = [item[i] EXCEPT !.state = x]
        BY DEF Filtered, In
      <3>2. ASSUME NEW i \in Items
            PROVE  \/ WithoutBatch(item)[i] = item[i]
                   \/ In(i, {"queued"}) /\ WithoutBatch(item)[i] = [item[i] EXCEPT !.state = "cancelled"]
        BY DEF WithoutBatch, SetStates, In
      <3>3. ASSUME NEW i \in Items, Filtered(WithoutBatch(item))[i] # item[i]
            PROVE  /\ In(i, {"queued"})
                   /\ \E x \in Ending \ {"completed"} : Filtered(WithoutBatch(item))[i] = [item[i] EXCEPT !.state = x]
        <4>1. CASE WithoutBatch(item)[i] = item[i]
          BY <3>3, <4>1 DEF Filtered, In
        <4>2. CASE In(i, {"queued"}) /\ WithoutBatch(item)[i] = [item[i] EXCEPT !.state = "cancelled"]
          <5>1. WithoutBatch(item)[i].state = "cancelled"
            BY <2>1, <2>2, <2>3, <4>2 DEF In
          <5> QED BY <3>3, <4>2, <5>1 DEF Filtered
        <4> QED BY <3>2, <4>1, <4>2
      <3> QED BY <3>1, <3>3
    <2>12. ASSUME item' \in {Filtered(item), Filtered(WithoutBatch(item))}, NEW i \in Items, item'[i] # item[i]
           PROVE  Settled(i) /\ item'[i].state # "completed"
      <3>1. PICK x \in Ending \ {"completed"} : In(i, {"queued"}) /\ item'[i] = [item[i] EXCEPT !.state = x]
        BY <2>11, <2>12
      <3>2. item[i] \in QueueItem /\ item[i].task = Null /\ item[i].state = "queued" /\ item[i] # Null
        BY <2>1, <3>1 DEF In, RowsAgree
      <3> QED BY <2>2, <2>3, <3>1, <3>2
    <2>13. CASE DispatchFilter
      <3>1. \A i \in Items : item'[i] # item[i] => Settled(i)
        BY <2>12, <2>13 DEF DispatchFilter
      <3>2. Agreement'
        BY <2>4, <2>13, <3>1 DEF DispatchFilter, taskVars, boundVars
      <3>3. disp'.pc \in {"idle", "lookup"}
        BY <2>13 DEF DispatchFilter, Idle
      <3> QED BY <3>2, <3>3 DEF DispAgrees
    <2>14. CASE DispatchRelock
      <3>1. \A i \in Items : item'[i] # item[i] => Settled(i)
        BY <2>12, <2>14 DEF DispatchRelock
      <3>2. Agreement'
        BY <2>4, <2>14, <3>1 DEF DispatchRelock, taskVars, boundVars
      <3>3. cancelling' = Null
        BY <2>14 DEF DispatchRelock, Unlocked
      <3>4. CASE disp' = Idle
        BY <3>2, <3>4 DEF DispAgrees, Idle
      <3>5. ASSUME NEW i \in Runnable(item'), disp' = [Idle EXCEPT !.pc = "create", !.item = i]
            PROVE  DispAgrees'
        <4>1. disp'.pc = "create" /\ disp'.item = i
          BY <3>5 DEF Idle
        <4> QED BY <3>3, <3>5, <4>1 DEF DispAgrees, Runnable, In
      <3> QED BY <2>14, <3>2, <3>4, <3>5 DEF DispatchRelock
    <2>15. CASE DispatchRefused
      <3>1. disp.item \in Items /\ item[disp.item] # Null /\ item[disp.item].state = "queued"
        BY <2>1, <2>15 DEF DispatchRefused, At, DispAgrees, In
      <3>2. \A i \in Items : item'[i] # item[i] => Settled(i)
        BY <2>7, <2>15, <3>1 DEF DispatchRefused
      <3>3. Agreement'
        BY <2>4, <2>15, <3>2 DEF DispatchRefused, taskVars, boundVars
      <3> QED BY <2>15, <3>3 DEF DispatchRefused, DispAgrees, Idle
    <2>16. CASE DispatchBusy
      <3>1. Agreement'
        BY <2>4, <2>16 DEF DispatchBusy, taskVars, boundVars
      <3> QED BY <2>16, <3>1 DEF DispatchBusy, DispAgrees, Idle
    <2>17. ASSUME NEW t \in Tasks, DispatchCreate(t) PROVE DispAgrees' /\ Agreement'
      <3>1. /\ mem'[t] = [state |-> "preparing", usable |-> FALSE, persisted |-> historyAvailable]
            /\ \A u \in Tasks : u # t => mem'[u] = mem[u] /\ row'[u] = row[u]
            /\ mem[t] = Null /\ row[t] = Null /\ origin[t] = Null
            /\ row'[t] = IF historyErr THEN row[t] ELSE [state |-> "preparing", usable |-> FALSE]
            /\ UNCHANGED <<item, asks, batch, origin, historyErr, cancelling>>
        BY <2>1, <2>17 DEF DispatchCreate, Fresh, Unused, TypeOK, queueVars, boundVars, historyAvailable
      <3>2. mem'[t] # Null /\ (~historyErr => row'[t] # Null /\ row'[t].state = "preparing")
        <4>1. /\ [state |-> "preparing", usable |-> FALSE, persisted |-> historyAvailable] \in TaskSnapshot
              /\ [state |-> "preparing", usable |-> FALSE] \in TaskRow
          BY DEF TaskSnapshot, TaskRow, TaskStates, Active, historyAvailable
        <4>2. mem'[t] \in TaskSnapshot
          BY <3>1, <4>1
        <4>3. ~historyErr => row'[t] \in TaskRow /\ row'[t].state = "preparing"
          BY <3>1, <4>1
        <4> QED BY <4>2, <4>3
      <3>3. HistoryAgrees'
        BY <2>1, <3>1, <3>2 DEF HistoryAgrees, IsActive, Known, Active
      <3>4. Agreement'
        BY <2>5, <3>1, <3>2, <3>3 DEF OfBatch, IsActive, Known
      <3>5. disp'.pc = "begin" /\ disp'.task = t /\ disp'.item = disp.item /\ At("create") /\ ~Cancelled(disp.item)
        BY <2>1, <2>17 DEF DispatchCreate, TypeOK
      <3>6. DispAgrees'
        BY <2>1, <3>1, <3>2, <3>5 DEF DispAgrees, At, In, Known, Cancelled
      <3> QED BY <3>4, <3>6
    <2>18. CASE DispatchSpawn
      <3>1. \A t \in Tasks : Known(t) => /\ Known(t)' /\ (IsActive(t)' <=> IsActive(t))
                                         /\ mem'[t].state = mem[t].state \/ (mem[t].state = "preparing" /\ mem'[t].state = "live")
        <4>1. disp.task \in Tasks /\ Known(disp.task)
          BY <2>1, <2>18 DEF DispatchSpawn, DispAgrees, At
        <4>2. CASE mem' = mem
          BY <4>2 DEF Known, IsActive
        <4>3. CASE mem[disp.task].state = "preparing" /\ mem' = [mem EXCEPT ![disp.task].state = "live"]
          <5>1. /\ mem'[disp.task].state = "live" /\ mem'[disp.task] # Null
                /\ \A t \in Tasks : t # disp.task => mem'[t] = mem[t]
            BY <2>1, <4>1, <4>3 DEF TypeOK, TaskSnapshot, TaskStates, Active
          <5> QED BY <4>1, <4>3, <5>1 DEF Known, IsActive, Active
        <4> QED BY <2>18, <4>2, <4>3 DEF DispatchSpawn
      <3>2. \A t \in Tasks : ~Known(t) => ~Known(t)'
        <4>1. mem' = mem \/ mem' = [mem EXCEPT ![disp.task].state = "live"]
          BY <2>18 DEF DispatchSpawn
        <4>2. Known(disp.task) /\ disp.task \in Tasks
          BY <2>1, <2>18 DEF DispatchSpawn, DispAgrees, At
        <4> QED BY <2>1, <4>1, <4>2 DEF Known, TypeOK
      <3>3. HistoryAgrees'
        BY <2>1, <2>18, <3>1, <3>2 DEF DispatchSpawn, HistoryAgrees, IsActive, Known, Active, boundVars
      <3>4. Agreement'
        BY <2>5, <2>18, <3>1, <3>2, <3>3 DEF DispatchSpawn, queueVars, boundVars, IsActive
      <3> QED BY <2>18, <3>4 DEF DispatchSpawn, DispAgrees, Idle
    <2>19. CASE DispatchTake
      <3>0. PICK i \in Items, t \in Tasks : i = disp.item /\ t = disp.task
        BY <2>1, <2>19 DEF DispatchTake, At, DispAgrees
      <3>1. /\ At("begin") /\ In(i, {"queued"}) /\ cancelling = Null /\ ~Cancelled(i)
            /\ Known(t) /\ origin[t] = Null
            /\ mem[t].state \notin {"live", "completed"} /\ ~mem[t].usable
        BY <2>1, <2>19, <3>0 DEF DispatchTake, At, DispAgrees
      <3>2. CASE MayBegin
        <4>1. /\ item' = [item EXCEPT ![i] = [state |-> "running", task |-> t]]
              /\ origin' = [origin EXCEPT ![t] = i]
              /\ disp' = [disp EXCEPT !.pc = "spawn"]
              /\ UNCHANGED <<mem, asks, batch, row, cancelling, historyErr>>
          BY <2>19, <3>0, <3>2 DEF DispatchTake, boundVars
        <4>2. /\ item'[i].state = "running" /\ item'[i].task = t /\ item'[i] # Null
              /\ \A j \in Items : j # i => item'[j] = item[j]
              /\ origin'[t] = i /\ \A u \in Tasks : u # t => origin'[u] = origin[u]
          <5>1. [state |-> "running", task |-> t] \in QueueItem
            BY <3>1 DEF QueueItem, QueueStates
          <5> QED BY <2>1, <3>1, <4>1, <5>1 DEF TypeOK
        <4>3. t # Null /\ i # Null
          BY <3>1
        <4>4. RowsAgree'
          BY <2>1, <3>1, <4>1, <4>2, <4>3 DEF RowsAgree, In, Known
        <4>5. HistoryAgrees'
          BY <2>1, <4>1 DEF HistoryAgrees, IsActive, Known
        <4>6. WorkersAgree'
          <5>1. ASSUME NEW u \in Tasks, u # t, OfBatch(u)', IsActive(u)'
                PROVE  /\ In(origin[u], {"running", "cancelled"})' /\ item'[origin'[u]].task = u
                       /\ mem'[u].state \in {"preparing", "live"} =>
                            \/ batch' # "cancelled" /\ item'[origin'[u]].state = "running"
                            \/ cancelling' # Null /\ u \in cancelling'
            BY <2>1, <3>1, <4>1, <4>2, <5>1 DEF WorkersAgree, OfBatch, IsActive, Known, In
          <5>2. OfBatch(t)' => batch' # "cancelled"
            BY <3>1, <4>1, <4>2 DEF OfBatch, Cancelled
          <5> QED BY <3>1, <4>1, <4>2, <5>1, <5>2 DEF WorkersAgree, OfBatch, In
        <4>7. AsksAgree'
          <5>1. StartedFor(i)' = StartedFor(i) \cup {t} /\ t \notin StartedFor(i)
            BY <3>1, <4>2, <4>3 DEF StartedFor
          <5>2. \A j \in Items : j # i => StartedFor(j)' = StartedFor(j)
            BY <3>1, <4>2, <4>3 DEF StartedFor
          <5>3. /\ IsFiniteSet(StartedFor(i)) /\ Cardinality(StartedFor(i)) < asks[i]
                /\ asks[i] \in Nat
            BY <2>1, <3>1 DEF AsksAgree, TypeOK
          <5>4. IsFiniteSet(StartedFor(i)') /\ Cardinality(StartedFor(i)') = Cardinality(StartedFor(i)) + 1
            BY <5>1, <5>3, FS_AddElement
          <5>5. Cardinality(StartedFor(i)) \in Nat
            BY <5>3, FS_CardinalityType
          <5>6. Cardinality(StartedFor(i)') <= asks[i]
            BY <5>3, <5>4, <5>5
          <5>7. ASSUME NEW j \in Items
                PROVE  /\ IsFiniteSet(StartedFor(j)') /\ Cardinality(StartedFor(j)') <= asks[j]
                       /\ In(j, {"queued"})' => Cardinality(StartedFor(j)') < asks[j]
                       /\ item'[j] = Null => asks[j] = 0
            <6>1. CASE j = i
              BY <4>2, <5>4, <5>6, <6>1 DEF In
            <6>2. CASE j # i
              BY <2>1, <4>2, <5>2, <6>2 DEF AsksAgree, In
            <6> QED BY <6>1, <6>2
          <5> QED BY <4>1, <5>7 DEF AsksAgree
        <4>8. ReceiptIsDurable'
          BY <2>1, <4>1, <4>2 DEF ReceiptIsDurable, In
        <4>9. disp'.pc = "spawn" /\ disp'.task = t
          BY <2>1, <3>0, <4>1 DEF TypeOK
        <4>10. DispAgrees'
          BY <3>1, <4>1, <4>9 DEF DispAgrees, Known
        <4> QED BY <4>4, <4>5, <4>6, <4>7, <4>8, <4>10 DEF Agreement
      <3>3. CASE ~MayBegin
        <4>1. /\ item' = SetState(item, i, "needs_attention")
              /\ mem' = [mem EXCEPT ![t].state = "failed"]
              /\ disp' = Idle
              /\ UNCHANGED <<asks, batch, row, origin, cancelling, historyErr>>
          BY <2>19, <3>0, <3>3 DEF DispatchTake, boundVars
        <4>2. \A j \in Items : item'[j] # item[j] => Settled(j) /\ j = i
          BY <2>7, <3>1, <4>1 DEF In
        <4>3. /\ mem'[t].state = "failed" /\ mem'[t] # Null
              /\ \A u \in Tasks : u # t => mem'[u] = mem[u]
          <5>1. mem[t] \in TaskSnapshot /\ mem'[t] = [mem[t] EXCEPT !.state = "failed"]
            BY <2>1, <3>1, <4>1 DEF TypeOK
          <5>2. [mem[t] EXCEPT !.state = "failed"] \in TaskSnapshot /\ [mem[t] EXCEPT !.state = "failed"].state = "failed"
            BY <5>1 DEF TaskSnapshot, TaskStates, isTerminal
          <5> QED BY <2>1, <3>1, <4>1, <5>1, <5>2 DEF TypeOK
        <4>4. ~OfBatch(t)
          BY <3>1 DEF OfBatch
        <4>5. HistoryAgrees'
          BY <2>1, <3>1, <4>1, <4>3 DEF HistoryAgrees, IsActive, Known, Active
        <4>6. RowsAgree'
          BY <2>1, <4>1, <4>2, <4>3 DEF RowsAgree, In, Known
        <4>7. WorkersAgree'
          BY <2>1, <4>1, <4>2, <4>3, <4>4 DEF WorkersAgree, In, IsActive, Known, OfBatch
        <4>8. AsksAgree'
          BY <2>1, <4>1, <4>2 DEF AsksAgree, StartedFor, In
        <4>9. ReceiptIsDurable'
          BY <2>1, <4>1, <4>2 DEF ReceiptIsDurable, In
        <4>10. DispAgrees'
          BY <4>1 DEF DispAgrees, Idle
        <4> QED BY <4>5, <4>6, <4>7, <4>8, <4>9, <4>10 DEF Agreement
      <3> QED BY <3>2, <3>3
    <2>20. CASE DispatchStep
      BY <2>9, <2>10, <2>13, <2>14, <2>15, <2>16, <2>17, <2>18, <2>19, <2>20 DEF DispatchStep
    \* Steps of a task alone, while the dispatcher stands where it is.
    <2>21. ASSUME NEW t \in Tasks, Known(t), NEW r \in TaskSnapshot, mem' = [mem EXCEPT ![t] = r]
           PROVE  mem'[t] = r /\ mem'[t] # Null /\ \A u \in Tasks : u # t => mem'[u] = mem[u]
      BY <2>1, <2>21 DEF TypeOK
    <2>22. ASSUME NEW t \in Tasks, CanCancel(t), mem' = [mem EXCEPT ![t] = CancelledTask(mem[t])]
           PROVE  /\ mem'[t] # Null /\ mem'[t].state \in {"cancelled", "cancel_requested"}
                  /\ mem'[t].usable = mem[t].usable /\ mem[t].state # "completed"
                  /\ mem'[t].state = "cancel_requested" => mem[t].state \in {"preparing", "live"}
                  /\ \A u \in Tasks : u # t => mem'[u] = mem[u]
      <3>1. /\ Known(t) /\ mem[t].state \in {"preparing", "live", "paused"} /\ mem[t] \in TaskSnapshot
        BY <2>1, <2>22 DEF CanCancel
      <3>2. /\ CancelledTask(mem[t]) \in TaskSnapshot
            /\ CancelledTask(mem[t]).usable = mem[t].usable
            /\ CancelledTask(mem[t]).state = IF mem[t].state = "paused" THEN "cancelled" ELSE "cancel_requested"
        BY <3>1 DEF CancelledTask, TaskSnapshot, TaskStates, Active, isTerminal
      <3> QED BY <2>21, <2>22, <3>1, <3>2
    <2>23. ASSUME NEW t \in Tasks, CanResume(t), mem' = [mem EXCEPT ![t] = ResumedTask(@)]
           PROVE  /\ mem'[t] # Null /\ mem'[t].state = "live" /\ mem[t].state = "paused" /\ mem[t].usable
                  /\ \A u \in Tasks : u # t => mem'[u] = mem[u]
      <3>1. Known(t) /\ mem[t].state = "paused" /\ mem[t].usable /\ mem[t] \in TaskSnapshot
        BY <2>1, <2>23 DEF CanResume
      <3>2. ResumedTask(mem[t]) \in TaskSnapshot /\ ResumedTask(mem[t]).state = "live"
        BY <3>1 DEF ResumedTask, TaskSnapshot, TaskStates, Active
      <3>3. mem' = [mem EXCEPT ![t] = ResumedTask(mem[t])]
        BY <2>23
      <3> QED BY <2>21, <3>1, <3>2, <3>3
    <2>24. ASSUME NEW t \in Tasks, CanResume(t), row' = SavedResumed(t)
           PROVE  /\ historyErr => row' = row
                  /\ ~historyErr => row'[t] # Null /\ row'[t].state = "live"
                  /\ \A u \in Tasks : u # t => row'[u] = row[u]
      <3>1. mem[t] \in TaskSnapshot
        BY <2>1, <2>24 DEF CanResume
      <3>2. Stored(ResumedTask(mem[t])) \in TaskRow /\ Stored(ResumedTask(mem[t])).state = "live"
        BY <3>1 DEF Stored, ResumedTask, TaskSnapshot, TaskRow, TaskStates, Active
      <3> QED BY <2>1, <2>24, <3>2 DEF SavedResumed, TypeOK
    <2>25. ASSUME UNCHANGED <<item, asks, batch, origin, disp, cancelling>>, HistoryAgrees',
                  \A t \in Tasks :
                    /\ Known(t) => Known(t)'
                    /\ row[t] # Null /\ row[t].state = "completed" => row'[t] # Null /\ row'[t].state = "completed"
                    /\ OfBatch(t) /\ IsActive(t)' => IsActive(t)
                    /\ OfBatch(t) /\ Known(t)' /\ mem'[t].state \in {"preparing", "live"} =>
                         mem[t].state \in {"preparing", "live"}
                    /\ Known(t) /\ mem[t].state \notin {"live", "completed"} /\ ~mem[t].usable =>
                         mem'[t].state \notin {"live", "completed"} /\ ~mem'[t].usable
           PROVE  DispAgrees' /\ Agreement'
      <3>1. Agreement'
        BY <2>5, <2>25
      <3>2. \A t \in Tasks : OfBatch(t)' = OfBatch(t)
        BY <2>25 DEF OfBatch
      <3>3. At("settle") => disp.task \in Tasks
        BY <2>1 DEF At, DispAgrees, TypeOK, RowsAgree, In
      <3>4. DispAgrees'
        BY <2>1, <2>25, <3>2, <3>3 DEF DispAgrees, In, Cancelled, At, OfBatch
      <3> QED BY <3>1, <3>4
    <2>26. ASSUME NEW t \in Tasks, CancelTask(t) PROVE DispAgrees' /\ Agreement'
      <3>1. /\ CanCancel(t) /\ mem' = [mem EXCEPT ![t] = CancelledTask(mem[t])]
            /\ UNCHANGED <<item, asks, batch, row, origin, disp, cancelling, historyErr>>
        BY <2>26 DEF CancelTask, queueVars, boundVars
      <3>2. HistoryAgrees'
        BY <2>1, <2>22, <3>1 DEF HistoryAgrees, IsActive, Known, Active, CanCancel
      <3> QED BY <2>22, <2>25, <3>1, <3>2 DEF IsActive, Known, Active, CanCancel
    <2>27. ASSUME NEW t \in Tasks, ResumeTask(t) PROVE DispAgrees' /\ Agreement'
      <3>1. /\ CanResume(t) /\ ~OfBatch(t) /\ mem' = [mem EXCEPT ![t] = ResumedTask(@)] /\ row' = SavedResumed(t)
            /\ UNCHANGED <<item, asks, batch, origin, disp, cancelling, historyErr>>
        BY <2>27 DEF ResumeTask, queueVars, boundVars
      <3>2. ~(row[t] # Null /\ row[t].state = "completed")
        BY <2>1, <3>1 DEF HistoryAgrees, CanResume
      <3>3. HistoryAgrees'
        <4>1. /\ row'[t] # Null /\ row'[t].state = "completed" => FALSE
              /\ ~historyErr => row'[t] # Null /\ row'[t].state \in Active
          BY <2>24, <3>1, <3>2 DEF Active
        <4>2. \A u \in Tasks : u # t => mem'[u] = mem[u] /\ row'[u] = row[u]
          BY <2>23, <2>24, <3>1, <3>2
        <4> QED BY <2>1, <3>1, <4>1, <4>2 DEF HistoryAgrees, IsActive, Known
      <3> QED BY <2>23, <2>24, <2>25, <3>1, <3>2, <3>3 DEF IsActive, Known, Active
    <2>28. ASSUME NEW t \in Tasks, Prepare(t) PROVE DispAgrees' /\ Agreement'
      <3>1. /\ Known(t) /\ mem[t].state = "live" /\ mem' = [mem EXCEPT ![t].usable = TRUE]
            /\ UNCHANGED <<item, asks, batch, row, origin, disp, cancelling, historyErr>>
        BY <2>28 DEF Prepare, queueVars, boundVars
      <3>2. mem'[t] # Null /\ mem'[t].state = "live" /\ \A u \in Tasks : u # t => mem'[u] = mem[u]
        <4>1. mem[t] \in TaskSnapshot /\ mem' = [mem EXCEPT ![t] = [mem[t] EXCEPT !.usable = TRUE]]
          BY <2>1, <3>1
        <4>2. [mem[t] EXCEPT !.usable = TRUE] \in TaskSnapshot /\ [mem[t] EXCEPT !.usable = TRUE].state = "live"
          BY <3>1, <4>1 DEF TaskSnapshot
        <4> QED BY <2>21, <3>1, <4>1, <4>2
      <3>3. HistoryAgrees'
        BY <2>1, <3>1, <3>2 DEF HistoryAgrees, IsActive, Known, Active
      <3> QED BY <2>25, <3>1, <3>2, <3>3 DEF IsActive, Known, Active
    <2>29. ASSUME NEW t \in Tasks, SaveFails(t) PROVE DispAgrees' /\ Agreement'
      <3>1. /\ Known(t) /\ mem' = [mem EXCEPT ![t].persisted = FALSE] /\ (historyErr => historyErr')
            /\ UNCHANGED <<item, asks, batch, row, origin, disp, cancelling>>
        BY <2>29 DEF SaveFails, queueVars
      <3>2. /\ mem'[t] # Null /\ mem'[t].state = mem[t].state /\ mem'[t].usable = mem[t].usable
            /\ \A u \in Tasks : u # t => mem'[u] = mem[u]
        <4>1. mem[t] \in TaskSnapshot /\ mem' = [mem EXCEPT ![t] = [mem[t] EXCEPT !.persisted = FALSE]]
          BY <2>1, <3>1
        <4>2. /\ [mem[t] EXCEPT !.persisted = FALSE] \in TaskSnapshot
              /\ [mem[t] EXCEPT !.persisted = FALSE].state = mem[t].state
              /\ [mem[t] EXCEPT !.persisted = FALSE].usable = mem[t].usable
          BY <4>1 DEF TaskSnapshot
        <4> QED BY <2>21, <3>1, <4>1, <4>2
      <3>3. HistoryAgrees'
        BY <2>1, <3>1, <3>2 DEF HistoryAgrees, IsActive, Known, Active
      <3> QED BY <2>25, <3>1, <3>2, <3>3 DEF IsActive, Known, Active
    <2>30. ASSUME NEW t \in Tasks, NEW x \in TaskStates, WorkerEnds(t, x) PROVE DispAgrees' /\ Agreement'
      <3>1. /\ Known(t) /\ mem[t].state \in {"live", "cancel_requested"}
            /\ x \in {"failed", "paused", "completed", "cancelled"}
            /\ x \in {"paused", "completed"} => mem[t].usable
            /\ mem' = [mem EXCEPT ![t].state = x]
            /\ UNCHANGED <<item, asks, batch, row, origin, disp, cancelling, historyErr>>
        BY <2>30 DEF WorkerEnds, queueVars, boundVars
      <3>2. /\ mem'[t] # Null /\ mem'[t].state = x /\ mem'[t].usable = mem[t].usable
            /\ \A u \in Tasks : u # t => mem'[u] = mem[u]
        <4>1. mem[t] \in TaskSnapshot /\ mem' = [mem EXCEPT ![t] = [mem[t] EXCEPT !.state = x]]
          BY <2>1, <3>1
        <4>2. /\ [mem[t] EXCEPT !.state = x] \in TaskSnapshot
              /\ [mem[t] EXCEPT !.state = x].state = x
              /\ [mem[t] EXCEPT !.state = x].usable = mem[t].usable
          BY <4>1 DEF TaskSnapshot
        <4> QED BY <2>21, <3>1, <4>1, <4>2
      <3>3. ~(row[t] # Null /\ row[t].state = "completed")
        BY <2>1, <3>1 DEF HistoryAgrees
      <3>4. HistoryAgrees'
        BY <2>1, <3>1, <3>2, <3>3 DEF HistoryAgrees, IsActive, Known, Active
      <3> QED BY <2>25, <3>1, <3>2, <3>4 DEF IsActive, Known, Active
    <2>31. ASSUME NEW t \in Tasks, Save(t) PROVE DispAgrees' /\ Agreement'
      <3>1. /\ Known(t) /\ row' = [row EXCEPT ![t] = Stored(mem[t])]
            /\ UNCHANGED <<item, asks, batch, mem, origin, disp, cancelling, historyErr>>
        BY <2>31 DEF Save, queueVars, boundVars
      <3>2. /\ row'[t] # Null /\ row'[t].state = mem[t].state
            /\ \A u \in Tasks : u # t => row'[u] = row[u]
        <4>1. mem[t] \in TaskSnapshot
          BY <2>1, <3>1
        <4>2. Stored(mem[t]) \in TaskRow /\ Stored(mem[t]).state = mem[t].state
          BY <4>1 DEF TaskSnapshot, TaskRow, Stored
        <4> QED BY <2>1, <3>1, <4>2 DEF TypeOK
      <3>3. HistoryAgrees'
        BY <2>1, <3>1, <3>2 DEF HistoryAgrees, IsActive, Known, Active
      <3>4. row[t] # Null /\ row[t].state = "completed" => mem[t].state = "completed"
        BY <2>1 DEF HistoryAgrees
      <3> QED BY <2>25, <3>1, <3>2, <3>3, <3>4 DEF IsActive, Known, Active
    <2>32. ASSUME NEW t \in Tasks, CancelBatchTask(t) PROVE DispAgrees' /\ Agreement'
      <3>1. /\ cancelling # Null /\ t \in cancelling /\ cancelling' = cancelling \ {t}
            /\ mem' = IF CanCancel(t) THEN [mem EXCEPT ![t] = CancelledTask(mem[t])] ELSE mem
            /\ UNCHANGED <<item, asks, batch, row, origin, disp, historyErr>>
        BY <2>32 DEF CancelBatchTask, queueVars, boundVars
      <3>2. disp.pc \in {"idle", "lookup"}
        BY <2>1, <3>1 DEF DispAgrees
      <3>3. cancelling' # Null /\ \A u \in Tasks : u # t /\ u \in cancelling => u \in cancelling'
        <4>1. cancelling \ {t} \in SUBSET Tasks
          BY <2>1, <3>1 DEF TypeOK
        <4> QED BY <3>1, <4>1
      <3>4. HistoryAgrees'
        BY <2>1, <2>22, <3>1 DEF HistoryAgrees, IsActive, Known, Active, CanCancel
      <3>5. /\ Known(t) => Known(t)' /\ (IsActive(t)' => IsActive(t))
            /\ Known(t)' => mem'[t].state \notin {"preparing", "live"}
        BY <2>22, <3>1 DEF IsActive, Known, Active, CanCancel
      <3>6. /\ ~Known(t) => mem' = mem
            /\ \A u \in Tasks : u # t => mem'[u] = mem[u]
        BY <2>22, <3>1 DEF Known, CanCancel
      <3>7. Agreement'
        BY <2>5, <3>1, <3>3, <3>4, <3>5, <3>6 DEF IsActive, Known
      <3> QED BY <3>1, <3>2, <3>7 DEF DispAgrees
    \* Commands of the user, all under the lock: the dispatcher holds no row.
    <2>33. \A i \in Items : asks[i] \in 0 .. MaxAsks /\ (item[i] = Null => asks[i] = 0)
      BY <2>1 DEF TypeOK, AsksAgree
    <2>34. NewItem.state = "queued" /\ NewItem.task = Null /\ NewItem # Null
      BY DEF NewItem, QueueItem, QueueStates
    <2>35. ASSUME NEW S \in SUBSET Items, \A i \in Items : (i \in S) => item[i] = Null \/ In(i, {"needs_attention"}),
                  \A i \in Items : item'[i] = (IF i \in S THEN NewItem ELSE item[i]),
                  \A i \in Items : asks'[i] = (IF i \in S THEN asks[i] + 1 ELSE asks[i]),
                  \A i \in Batch : (item'[i] = Null <=> batch' = "none"), batch' = "cancelled" => batch = "cancelled",
                  UNCHANGED <<mem, row, origin, cancelling, historyErr>>
           PROVE  Agreement'
      <3>1. RowsAgree'
        BY <2>1, <2>34, <2>35 DEF RowsAgree, In, Known
      <3>2. HistoryAgrees'
        BY <2>1, <2>35 DEF HistoryAgrees, IsActive, Known
      <3>3. WorkersAgree'
        BY <2>1, <2>35 DEF WorkersAgree, In, Known, IsActive, OfBatch
      <3>4. AsksAgree'
        <4>1. ASSUME NEW i \in Items
              PROVE  /\ StartedFor(i)' = StartedFor(i) /\ IsFiniteSet(StartedFor(i))
                     /\ Cardinality(StartedFor(i)) <= asks[i] /\ Cardinality(StartedFor(i)) \in Nat /\ asks[i] \in Nat
          BY <2>1, <2>33, <2>35, FS_CardinalityType DEF AsksAgree, StartedFor
        <4> QED BY <2>1, <2>34, <2>35, <4>1 DEF AsksAgree, In
      <3>5. ReceiptIsDurable'
        BY <2>1, <2>34, <2>35 DEF ReceiptIsDurable, In
      <3> QED BY <3>1, <3>2, <3>3, <3>4, <3>5 DEF Agreement
    <2>36. ASSUME NEW i \in Items, Enqueue(i) PROVE DispAgrees' /\ Agreement'
      <3>1. /\ item[i] = Null /\ i \notin Batch /\ item' = [item EXCEPT ![i] = NewItem] /\ asks' = [asks EXCEPT ![i] = 1]
            /\ UNCHANGED <<mem, row, origin, cancelling, historyErr, batch, disp>> /\ Unlocked
        BY <2>36 DEF Enqueue, taskVars, boundVars
      <3>2. \A j \in Items : asks'[j] = (IF j \in {i} THEN asks[j] + 1 ELSE asks[j])
        BY <2>1, <2>33, <3>1 DEF TypeOK
      <3>3. \A j \in Items : item'[j] = (IF j \in {i} THEN NewItem ELSE item[j])
        BY <2>1, <3>1 DEF TypeOK
      <3>4. \A j \in Batch : (item'[j] = Null <=> batch' = "none")
        BY <2>1, <3>1, <3>3 DEF RowsAgree
      <3>5. PICK S \in SUBSET Items : S = {i}
        OBVIOUS
      <3>6. Agreement'
        BY <2>35, <3>1, <3>2, <3>3, <3>4, <3>5
      <3> QED BY <3>1, <3>6 DEF DispAgrees, Unlocked
    <2>37. CASE EnqueueBatch
      <3>1. /\ batch = "none" /\ batch' = "open" /\ Unlocked
            /\ UNCHANGED <<mem, row, origin, cancelling, historyErr, disp>>
            /\ item' = [i \in Items |-> IF i \in Batch THEN NewItem ELSE item[i]]
            /\ asks' = [i \in Items |-> IF i \in Batch THEN 1 ELSE asks[i]]
        BY <2>37 DEF EnqueueBatch, taskVars, boundVars
      <3>2. \A i \in Batch : item[i] = Null
        BY <2>1, <3>1 DEF RowsAgree
      <3>3. \A j \in Items : asks'[j] = (IF j \in Batch THEN asks[j] + 1 ELSE asks[j])
        BY <2>33, <3>1, <3>2
      <3>4. Agreement'
        BY <2>34, <2>35, <3>1, <3>2, <3>3
      <3> QED BY <3>1, <3>4 DEF DispAgrees, Unlocked
    <2>38. ASSUME NEW i \in Items, ConfirmRequeue(i) PROVE DispAgrees' /\ Agreement'
      <3>1. /\ In(i, {"needs_attention"}) /\ item' = [item EXCEPT ![i] = NewItem] /\ asks' = [asks EXCEPT ![i] = @ + 1]
            /\ UNCHANGED <<mem, row, origin, cancelling, historyErr, batch, disp>> /\ Unlocked
        BY <2>38 DEF ConfirmRequeue, MayConfirm, taskVars, boundVars
      <3>2. \A j \in Items : asks'[j] = (IF j \in {i} THEN asks[j] + 1 ELSE asks[j])
        BY <2>1, <3>1 DEF TypeOK
      <3>3. \A j \in Items : item'[j] = (IF j \in {i} THEN NewItem ELSE item[j])
        BY <2>1, <3>1 DEF TypeOK
      <3>4. \A j \in Batch : (item'[j] = Null <=> batch' = "none")
        BY <2>1, <2>34, <3>1, <3>3 DEF RowsAgree, In
      <3>5. PICK S \in SUBSET Items : S = {i}
        OBVIOUS
      <3>6. \A j \in Items : j \in S => item[j] = Null \/ In(j, {"needs_attention"})
        BY <3>1, <3>5
      <3>7. \A j \in Items : /\ item'[j] = (IF j \in S THEN NewItem ELSE item[j])
                            /\ asks'[j] = (IF j \in S THEN asks[j] + 1 ELSE asks[j])
        BY <3>2, <3>3, <3>5
      <3>8. Agreement'
        BY <2>35, <3>1, <3>4, <3>6, <3>7
      <3> QED BY <3>1, <3>8 DEF DispAgrees, Unlocked
    <2>39. ASSUME NEW i \in Items, ConfirmResume(i) PROVE DispAgrees' /\ Agreement'
      <3>0. item[i] # Null /\ item[i].task \in Tasks /\ item[i].state = "needs_attention"
        BY <2>1, <2>39 DEF ConfirmResume, MayConfirm, In
      <3>1. PICK t \in Tasks : t = item[i].task
        BY <3>0
      <3>2. /\ item' = SetState(item, i, "running") /\ CanResume(t) /\ ~Cancelled(i)
            /\ mem' = [mem EXCEPT ![t] = ResumedTask(@)] /\ row' = SavedResumed(t)
            /\ UNCHANGED <<asks, batch, origin, cancelling, historyErr, disp>> /\ Unlocked
        BY <2>39, <3>1 DEF ConfirmResume, MayConfirm, boundVars
      <3>3. /\ item'[i] # Null /\ item'[i].state = "running" /\ item'[i].task = t
            /\ \A j \in Items : j # i => item'[j] = item[j]
        <4>1. item'[i] = [item[i] EXCEPT !.state = "running"] /\ \A j \in Items : j # i => item'[j] = item[j]
          BY <2>1, <3>2 DEF SetState, TypeOK
        <4>2. "running" \in QueueStates
          BY DEF QueueStates
        <4> QED BY <2>1, <2>2, <3>0, <3>1, <4>1, <4>2
      <3>4. /\ mem'[t] # Null /\ mem'[t].state = "live" /\ mem[t].state = "paused"
            /\ \A u \in Tasks : u # t => mem'[u] = mem[u] /\ row'[u] = row[u]
            /\ row'[t] = row[t] \/ (row'[t] # Null /\ row'[t].state = "live")
            /\ ~historyErr => row'[t] # Null /\ row'[t].state = "live"
        BY <2>23, <2>24, <3>2
      <3>5. ~(row[t] # Null /\ row[t].state = "completed") /\ origin[t] = i
        BY <2>1, <3>0, <3>1, <3>2 DEF HistoryAgrees, RowsAgree, CanResume
      <3>6. HistoryAgrees'
        BY <2>1, <3>2, <3>4, <3>5 DEF HistoryAgrees, IsActive, Known, Active
      <3>7. RowsAgree'
        BY <2>1, <3>0, <3>2, <3>3, <3>4, <3>5 DEF RowsAgree, In, Known
      <3>8. WorkersAgree'
        <4>1. ASSUME NEW u \in Tasks, u # t, OfBatch(u), IsActive(u)
              PROVE  origin[u] # i
          BY <2>1, <3>0, <4>1 DEF WorkersAgree, In
        <4>2. OfBatch(t) => batch # "cancelled"
          BY <3>2, <3>5 DEF OfBatch, Cancelled
        <4> QED BY <2>1, <3>2, <3>3, <3>4, <3>5, <4>1, <4>2 DEF WorkersAgree, In, IsActive, Known, OfBatch
      <3>9. AsksAgree'
        BY <2>1, <3>0, <3>2, <3>3 DEF AsksAgree, StartedFor, In
      <3>10. ReceiptIsDurable'
        BY <2>1, <3>0, <3>2, <3>3, <3>4, <3>5 DEF ReceiptIsDurable, In
      <3>11. DispAgrees'
        BY <3>2 DEF DispAgrees, Unlocked
      <3> QED BY <3>6, <3>7, <3>8, <3>9, <3>10, <3>11 DEF Agreement
    <2>40. CASE CancelBatch
      <3>1. /\ batch = "open" /\ batch' = "cancelled" /\ Unlocked
            /\ item' = ChildrenCancelled(item) /\ cancelling' = BatchTasks
            /\ UNCHANGED <<asks, mem, row, origin, historyErr, disp>>
        BY <2>40 DEF CancelBatch, taskVars, boundVars
      <3>2. ASSUME NEW i \in Items
            PROVE  IF i \in Batch /\ item[i].state \notin terminalQueue
                   THEN item'[i] # Null /\ item'[i].state = "cancelled" /\ item'[i].task = item[i].task /\ item[i] # Null
                   ELSE item'[i] = item[i]
        <4>1. CASE i \in Batch /\ item[i].state \notin terminalQueue
          <5>1. item[i] # Null /\ item[i] \in QueueItem
            BY <2>1, <3>1, <4>1 DEF RowsAgree
          <5>2. item'[i] = [item[i] EXCEPT !.state = "cancelled"]
            BY <3>1, <4>1 DEF ChildrenCancelled, SetStates
          <5> QED BY <2>2, <2>3, <4>1, <5>1, <5>2
        <4>2. CASE ~(i \in Batch /\ item[i].state \notin terminalQueue)
          BY <3>1, <4>2 DEF ChildrenCancelled, SetStates
        <4> QED BY <4>1, <4>2
      <3>3. RowsAgree'
        BY <2>1, <3>1, <3>2 DEF RowsAgree, In, Known
      <3>4. HistoryAgrees'
        BY <2>1, <3>1 DEF HistoryAgrees, IsActive, Known
      <3>5. WorkersAgree'
        <4>1. ASSUME NEW t \in Tasks, OfBatch(t), IsActive(t)
              PROVE  t \in BatchTasks
          <5>1. origin[t] \in Batch /\ item[origin[t]].task = t /\ item[origin[t]].state # "completed"
            BY <2>1, <4>1 DEF WorkersAgree, In, OfBatch
          <5> QED BY <5>1 DEF BatchTasks
        <4>2. BatchTasks # Null
          BY DEF BatchTasks
        <4> QED BY <2>1, <3>1, <3>2, <4>1, <4>2 DEF WorkersAgree, In, IsActive, Known, OfBatch
      <3>6. AsksAgree'
        BY <2>1, <3>1, <3>2 DEF AsksAgree, StartedFor, In
      <3>7. ReceiptIsDurable'
        BY <2>1, <3>1, <3>2 DEF ReceiptIsDurable, In
      <3>8. DispAgrees'
        BY <3>1 DEF DispAgrees, Unlocked
      <3> QED BY <3>3, <3>4, <3>5, <3>6, <3>7, <3>8 DEF Agreement
    <2>41. ASSUME NEW i \in Items, CancelQueue(i) PROVE DispAgrees' /\ Agreement'
      <3>1. /\ item[i] # Null /\ item[i].state \notin terminalQueue /\ Unlocked
            /\ item' = SetState(item, i, "cancelled")
            /\ UNCHANGED <<asks, batch, row, origin, cancelling, historyErr, disp>>
        BY <2>41 DEF CancelQueue, boundVars
      <3>2. /\ item'[i] # Null /\ item'[i].state = "cancelled" /\ item'[i].task = item[i].task
            /\ \A j \in Items : j # i => item'[j] = item[j]
        <4>1. item'[i] = [item[i] EXCEPT !.state = "cancelled"] /\ \A j \in Items : j # i => item'[j] = item[j]
          BY <2>1, <3>1 DEF SetState, TypeOK
        <4>2. item[i] \in QueueItem /\ "cancelled" \in QueueStates
          BY <2>1, <2>3, <3>1
        <4> QED BY <2>2, <4>1, <4>2
      <3>3. CASE item[i].state = "running"
        <4>0. item[i].task \in Tasks
          BY <2>1, <3>1, <3>3 DEF RowsAgree, In
        <4>1. PICK t \in Tasks : t = item[i].task
          BY <4>0
        <4>2. CanCancel(t) /\ mem' = [mem EXCEPT ![t] = CancelledTask(mem[t])]
          BY <2>41, <3>3, <4>1 DEF CancelQueue
        <4>3. /\ mem'[t] # Null /\ mem'[t].state \in {"cancelled", "cancel_requested"}
              /\ mem[t].state # "completed" /\ Known(t) /\ (IsActive(t)' => IsActive(t))
              /\ \A u \in Tasks : u # t => mem'[u] = mem[u]
          BY <2>22, <4>2 DEF CanCancel, IsActive, Active, Known
        <4>4. HistoryAgrees'
          BY <2>1, <3>1, <4>3 DEF HistoryAgrees, IsActive, Known
        <4>5. RowsAgree'
          <5>1. \A u \in Tasks : Known(u) => Known(u)'
            BY <4>3 DEF Known
          <5>2. ASSUME NEW j \in Items
                PROVE  /\ item'[j] # Null /\ item'[j].task # Null => origin[item'[j].task] = j
                       /\ In(j, {"queued"})' => item'[j].task = Null
                       /\ In(j, {"running"})' => item'[j].task # Null /\ item'[j].task \in Tasks /\ Known(item'[j].task)
                       /\ j \in Batch => (item'[j] = Null <=> batch = "none")
            <6>1. CASE j = i
              BY <2>1, <3>1, <3>2, <6>1 DEF RowsAgree, In
            <6>2. CASE j # i
              BY <2>1, <3>1, <3>2, <6>2 DEF RowsAgree, In
            <6> QED BY <6>1, <6>2
          <5>3. \A j \in Items : In(j, {"running"})' => mem'[item'[j].task] # Null
            BY <5>1, <5>2 DEF Known
          <5> QED BY <3>1, <5>2, <5>3 DEF RowsAgree, Known
        <4>6. WorkersAgree'
          BY <2>1, <3>1, <3>2, <3>3, <4>1, <4>3 DEF WorkersAgree, In, IsActive, Known, OfBatch
        <4>7. AsksAgree'
          BY <2>1, <3>1, <3>2 DEF AsksAgree, StartedFor, In
        <4>8. ReceiptIsDurable'
          BY <2>1, <3>1, <3>2 DEF ReceiptIsDurable, In
        <4> QED BY <3>1, <4>4, <4>5, <4>6, <4>7, <4>8 DEF Agreement, DispAgrees, Unlocked
      <3>4. CASE item[i].state # "running"
        <4>1. UNCHANGED mem
          BY <2>41, <3>4 DEF CancelQueue
        <4>2. item[i].state \in {"queued", "needs_attention"}
          BY <2>1, <3>1, <3>4 DEF QueueItem, QueueStates, terminalQueue
        <4>3. Agreement'
          BY <2>4, <3>1, <3>2, <4>1, <4>2
        <4> QED BY <3>1, <4>3 DEF DispAgrees, Unlocked
      <3> QED BY <3>3, <3>4
    <2>42. ASSUME NEW t \in Tasks, ForgetInboxRecords(t) PROVE DispAgrees' /\ Agreement'
      <3>1. /\ row[t] # Null /\ ~Referenced(t) /\ Unlocked
            /\ row' = [row EXCEPT ![t] = Null] /\ mem' = [mem EXCEPT ![t] = Null]
            /\ item' = [i \in Items |-> IF item[i] # Null /\ item[i].task = t
                                        THEN [item[i] EXCEPT !.task = Null] ELSE item[i]]
            /\ UNCHANGED <<asks, batch, origin, cancelling, historyErr, disp>>
        BY <2>42 DEF ForgetInboxRecords, boundVars
      <3>2. row'[t] = Null /\ mem'[t] = Null /\ \A u \in Tasks : u # t => mem'[u] = mem[u] /\ row'[u] = row[u]
        BY <2>1, <3>1 DEF TypeOK
      <3>3. ASSUME NEW i \in Items
            PROVE  IF item[i] # Null /\ item[i].task = t
                   THEN /\ item'[i] # Null /\ item'[i].task = Null /\ item'[i].state = item[i].state
                        /\ item[i].state \in terminalQueue
                   ELSE item'[i] = item[i]
        <4>1. ASSUME NEW r \in QueueItem
              PROVE  [r EXCEPT !.task = Null] # Null /\ [r EXCEPT !.task = Null].task = Null /\ [r EXCEPT !.task = Null].state = r.state
          <5>1. [r EXCEPT !.task = Null] \in QueueItem
            BY DEF QueueItem
          <5> QED BY <5>1 DEF QueueItem
        <4>2. item[i] # Null /\ item[i].task = t => item[i].state \in terminalQueue
          BY <3>1 DEF Referenced
        <4> QED BY <2>1, <3>1, <4>1, <4>2
      <3>4. RowsAgree'
        BY <2>1, <3>1, <3>2, <3>3 DEF RowsAgree, In, Known, terminalQueue
      <3>5. HistoryAgrees'
        BY <2>1, <3>1, <3>2 DEF HistoryAgrees, IsActive, Known
      <3>6. WorkersAgree'
        <4>1. ASSUME NEW u \in Tasks, OfBatch(u)', IsActive(u)'
              PROVE  u # t /\ OfBatch(u) /\ IsActive(u)
          BY <3>1, <3>2, <4>1 DEF OfBatch, IsActive, Known
        <4> QED BY <2>1, <3>1, <3>2, <3>3, <4>1 DEF WorkersAgree, In, OfBatch
      <3>7. AsksAgree'
        BY <2>1, <3>1, <3>3 DEF AsksAgree, StartedFor, In
      <3>8. ReceiptIsDurable'
        BY <2>1, <3>1, <3>2, <3>3 DEF ReceiptIsDurable, In
      <3> QED BY <3>1, <3>4, <3>5, <3>6, <3>7, <3>8 DEF Agreement, DispAgrees, Unlocked
    <2>43. CASE (\E p \in BOOLEAN : SetQueuePaused(p)) \/ World \/ UNCHANGED vars
      <3>1. UNCHANGED <<item, asks, batch, mem, row, origin, disp, cancelling, historyErr>>
        BY <2>43 DEF SetQueuePaused, World, OtherTransfer, Lapse, vars, queueVars, taskVars, boundVars
      <3>2. HistoryAgrees'
        BY <2>1, <3>1 DEF HistoryAgrees, IsActive, Known
      <3> QED BY <2>25, <3>1, <3>2 DEF IsActive, Known
    <2>44. CASE CancelBatchEnd
      <3>1. /\ cancelling = {} /\ item' = Reconciled(item) /\ cancelling' = Null
            /\ UNCHANGED <<asks, batch, mem, row, origin, historyErr, disp>>
        BY <2>44 DEF CancelBatchEnd, taskVars, boundVars
      <3>2. cancelling # Null
        BY <3>1
      <3>3. Agreement'
        BY <2>4, <2>6, <3>1
      <3> QED BY <2>1, <3>1, <3>2, <3>3 DEF DispAgrees
    <2>45. CASE Command
      BY <2>26, <2>27, <2>36, <2>37, <2>38, <2>39, <2>40, <2>41, <2>42, <2>43, <2>45 DEF Command, ResendInbox
    <2>46. CASE Restart
      <3>1. /\ row' = [t \in Tasks |-> IF row[t] = Null THEN Null ELSE Restored(t)]
            /\ mem' = [t \in Tasks |->
                         IF row[t] = Null THEN Null
                         ELSE [state |-> row'[t].state, usable |-> row'[t].usable, persisted |-> TRUE]]
            /\ item' = Reopened(Reconciled(item)) /\ disp' = Idle /\ cancelling' = Null
            /\ UNCHANGED <<asks, batch, origin>>
        BY <2>46 DEF Restart
      <3>2. ASSUME NEW t \in Tasks, row[t] # Null
            PROVE  /\ row'[t] # Null /\ row'[t].state \notin Active
                   /\ row[t].state = "completed" => row'[t].state = "completed"
        <4>1. row[t] \in TaskRow
          BY <3>2 DEF QueueIInv, TypeOK
        <4>2. /\ Loaded(row[t]) \in TaskRow /\ Loaded(row[t]).state \in isTerminal \cup {"paused"}
              /\ row[t].state = "completed" => Loaded(row[t]).state = "completed"
          BY <4>1 DEF Loaded, TaskRow, TaskStates, isTerminal
        <4>3. /\ Restored(t) \in TaskRow /\ Restored(t).state \in isTerminal \cup {"paused"}
              /\ row[t].state = "completed" => Restored(t).state = "completed"
          BY <4>2 DEF Restored, TaskRow, TaskStates, isTerminal
        <4> QED BY <3>1, <3>2, <4>3 DEF isTerminal, Active
      <3>3. \A t \in Tasks : /\ row[t] = Null => row'[t] = Null /\ mem'[t] = Null
                             /\ row[t] # Null => mem'[t].state = row'[t].state
        BY <3>1
      <3>4. \A t \in Tasks : row[t] # Null => mem'[t] # Null
        <4>1. ASSUME NEW t \in Tasks, row[t] # Null PROVE mem'[t] # Null
          <5>1. row'[t] \in TaskRow
            BY <3>2, <4>1 DEF TypeOK
          <5>2. mem'[t] \in TaskSnapshot
            BY <3>1, <4>1, <5>1 DEF TaskRow, TaskSnapshot
          <5> QED BY <5>2
        <4> QED BY <4>1
      <3>5. HistoryAgrees'
        BY <3>2, <3>3, <3>4 DEF HistoryAgrees, IsActive, Known
      <3>6. ASSUME NEW i \in Items
            PROVE  /\ item'[i] = Null <=> item[i] = Null
                   /\ item'[i] # Null =>
                        /\ item'[i].task = item[i].task /\ item'[i].state \in Ending
                        /\ item'[i].state = "completed" /\ item[i].task # Null =>
                             row[item[i].task] # Null /\ row[item[i].task].state = "completed"
        <4> DEFINE q == Reconciled(item)
        <4>1. /\ q[i] = Null <=> item[i] = Null
              /\ q[i] # Null => /\ q[i] \in QueueItem /\ q[i].task = item[i].task
                                /\ q[i].state = "completed" /\ item[i].task # Null =>
                                     row[item[i].task] # Null /\ row[item[i].task].state = "completed"
          <5>1. CASE q[i] = item[i]
            BY <2>1, <5>1 DEF ReceiptIsDurable, In
          <5>2. CASE q[i] # item[i]
            <6>1. /\ item[i] # Null /\ item[i].task # Null
                  /\ row[item[i].task] # Null /\ row[item[i].task].state = "completed"
                  /\ q[i] = [item[i] EXCEPT !.state = "completed"]
              BY <5>2 DEF Reconciled
            <6>2. q[i] \in QueueItem
              BY <2>1, <6>1 DEF QueueItem, QueueStates, terminalQueue
            <6> QED BY <2>1, <2>2, <2>3, <6>1, <6>2
          <5> QED BY <5>1, <5>2
        <4>2. item'[i] = IF q[i] = Null \/ q[i].state \in terminalQueue THEN q[i]
                         ELSE IF Cancelled(i) THEN [q[i] EXCEPT !.state = "cancelled"]
                         ELSE [q[i] EXCEPT !.state = "needs_attention"]
          BY <3>1 DEF Reopened
        <4>3. q[i] # Null => \A x \in Ending : /\ [q[i] EXCEPT !.state = x].state = x
                                               /\ [q[i] EXCEPT !.state = x].task = q[i].task
                                               /\ [q[i] EXCEPT !.state = x] # Null
          BY <2>2, <2>3, <4>1
        <4> HIDE DEF q
        <4> QED BY <4>1, <4>2, <4>3 DEF terminalQueue
      <3>7. RowsAgree'
        BY <2>1, <3>1, <3>6 DEF RowsAgree, In
      <3>8. WorkersAgree'
        BY <3>2, <3>3, <3>4 DEF WorkersAgree, IsActive, Known
      <3>9. AsksAgree'
        <4>1. \A i \in Items : StartedFor(i)' = StartedFor(i)
          BY <3>1 DEF StartedFor
        <4>2. \A i \in Items : ~In(i, {"queued"})'
          BY <3>6 DEF In
        <4> QED BY <2>1, <3>1, <3>6, <4>1, <4>2 DEF AsksAgree
      <3>10. ReceiptIsDurable'
        BY <2>1, <3>1, <3>2, <3>6 DEF ReceiptIsDurable, In
      <3> QED BY <3>1, <3>5, <3>7, <3>8, <3>9, <3>10 DEF Agreement, DispAgrees, Idle
    <2>47. CASE \E t \in Tasks : TaskStep(t) \/ Save(t)
      BY <2>28, <2>29, <2>30, <2>31, <2>47 DEF TaskStep
    <2> QED BY <2>8, <2>20, <2>32, <2>43, <2>44, <2>45, <2>46, <2>47 DEF Next, BatchStep
  <1>1. Init => QueueIInv
    <2> SUFFICES ASSUME Init PROVE QueueIInv
      OBVIOUS
    <2> USE SendQueueAssumption, NullAssumption DEF Init
    <2>1. TypeOK
      <3>1. failures \in 0 .. MaxFailures /\ restarts \in 0 .. MaxRestarts /\ asks \in [Items -> 0 .. MaxAsks]
        OBVIOUS
      <3>2. Idle \in [pc : {"idle"}, todo : SUBSET Items, item : {Null}, task : {Null}, seen : {Null}]
        BY DEF Idle
      <3>3. disp \in [pc : {"idle", "receipts", "settle", "lookup", "create", "begin", "spawn"},
                      todo : SUBSET Items, item : Items \cup {Null},
                      task : Tasks \cup {Null}, seen : TaskStates \cup {Null}]
        BY <3>2
      <3>4. paused \in [mem : BOOLEAN, row : BOOLEAN] /\ lapsed \in [Items -> SUBSET {"expiry", "grant"}]
        OBVIOUS
      <3> QED BY <3>1, <3>3, <3>4 DEF TypeOK
    <2>2. DispAgrees
      BY DEF DispAgrees, Idle
    <2>3. RowsAgree /\ HistoryAgrees /\ WorkersAgree /\ ReceiptIsDurable
      BY DEF RowsAgree, HistoryAgrees, WorkersAgree, ReceiptIsDurable, In, IsActive, Known
    <2>4. AsksAgree
      <3>1. \A i \in Items : StartedFor(i) = {}
        BY DEF StartedFor
      <3>2. IsFiniteSet({}) /\ Cardinality({}) = 0
        BY FS_EmptySet
      <3>3. ASSUME NEW i \in Items
            PROVE  item[i] = Null /\ asks[i] = 0 /\ IsFiniteSet(StartedFor(i)) /\ Cardinality(StartedFor(i)) = 0
        BY <3>1, <3>2
      <3> QED BY <3>3 DEF AsksAgree, In
    <2> QED BY <2>1, <2>2, <2>3, <2>4 DEF QueueIInv, Agreement
  <1>2. QueueIInv /\ [Next]_vars => QueueIInv'
    BY <1>QueueTypeStep, <1>QueueStep DEF QueueIInv, Agreement
  <1>3. QueueIInv => QueueInv
    <2> SUFFICES ASSUME QueueIInv PROVE QueueInv
      OBVIOUS
    <2>1. TypeOK /\ HistoryAgrees /\ WorkersAgree /\ ReceiptIsDurable
      BY DEF QueueIInv, Agreement
    <2>2. CancelledBatchIsQuiet
      BY <2>1 DEF CancelledBatchIsQuiet, WorkersAgree, IsActive, Active
    <2>3. CancelledMeansStopped
      <3> SUFFICES ASSUME batch # "none", BatchState = "cancelled", ~historyErr,
                          NEW t \in Tasks, OfBatch(t), IsActive(t)
                   PROVE  FALSE
        BY DEF CancelledMeansStopped
      <3>1. /\ origin[t] \in Batch /\ item[origin[t]].task = t /\ In(origin[t], {"running", "cancelled"})
            /\ t # Null /\ row[t] # Null /\ row[t].state \in Active
        BY <2>1, SendQueueAssumption DEF OfBatch, WorkersAgree, HistoryAgrees
      <3>2. RowActive(origin[t])
        BY <3>1 DEF RowActive, Active, isTerminal
      <3>3. batch = "cancelled" 
        BY DEF BatchState
      <3> QED BY <3>1, <3>2, <3>3 DEF BatchState
    <2> QED BY <2>1, <2>2, <2>3 DEF QueueInv
  <1> QED BY <1>1, <1>2, <1>3, PTL DEF Spec

\* Every transfer the queue starts was asked for (module Outbox): the rows of
\* the queue (dispatchQueue, ConfirmQueue, Enqueue, EnqueueBatch) implement the
\* promise, with a transfer started where a task takes its item.
THEOREM PromiseKept == Spec => Promised
  <1> DEFINE phase == [i \in Items |-> Phase(i)]
  <1> DEFINE sent == [i \in Items |-> Cardinality({t \in Tasks : origin[t] = i})]
  <1>1. Init => Promise!OutboxInit
    <2> SUFFICES ASSUME Init PROVE Promise!OutboxInit
      OBVIOUS
    <2>1. phase = [i \in Items |-> "none"]
      BY DEF Init, Phase
    <2>2. \A i \in Items : {t \in Tasks : origin[t] = i} = {}
      BY SendQueueAssumption DEF Init
    <2>3. sent = [i \in Items |-> 0]
      BY <2>2, FS_EmptySet
    <2> QED BY <2>1, <2>3 DEF Init, Promise!OutboxInit
  <1>2. QueueIInv /\ [Next]_vars => [Promise!OutboxNext]_(Promise!outboxVars)
    <2> SUFFICES ASSUME QueueIInv, [Next]_vars PROVE [Promise!OutboxNext]_(Promise!outboxVars)
      OBVIOUS
    <2>1. /\ TypeOK /\ RowsAgree /\ DispAgrees /\ AsksAgree
          /\ \A i \in Items : item[i] # Null => item[i] \in QueueItem
      BY DEF QueueIInv, Agreement, TypeOK
    <2>2. /\ phase' = [i \in Items |-> Phase(i)'] /\ \A i \in Items : phase[i] = Phase(i)
          /\ sent' = [i \in Items |-> Cardinality({t \in Tasks : origin'[t] = i})]
      OBVIOUS
    <2>3. UNCHANGED origin => UNCHANGED sent
      OBVIOUS
    \* Rows that end or are set aside; an ended row stays ended.
    <2>4. ASSUME UNCHANGED <<asks, origin>>,
                 \A i \in Items :
                    \/ item'[i] = item[i]
                    \/ /\ item[i] # Null /\ item'[i] # Null
                       /\ \/ item'[i].state = item[i].state
                          \/ item'[i].state \in terminalQueue
                          \/ item'[i].state = "needs_attention" /\ item[i].state \notin terminalQueue
          PROVE  [Promise!OutboxNext]_(Promise!outboxVars)
      <3> DEFINE H == {i \in Items : Phase(i)' = "held" /\ Phase(i) # "held"}
      <3> DEFINE D == {i \in Items : Phase(i)' = "done" /\ Phase(i) # "done"}
      <3>1. \A i \in Items : \/ Phase(i)' = Phase(i)
                             \/ i \in H /\ Phase(i) \in {"waiting", "sending", "held"}
                             \/ i \in D /\ Phase(i) # "none"
        BY <2>1, <2>4 DEF Phase, terminalQueue, QueueItem, QueueStates
      <3>2. H \in SUBSET Items /\ D \in SUBSET Items
        OBVIOUS
      <3>3. phase' = [i \in Items |-> IF i \in D THEN "done" ELSE IF i \in H THEN "held" ELSE phase[i]]
        BY <2>2, <3>1
      <3>4. /\ \A i \in H : phase[i] \in {"waiting", "sending", "held"}
            /\ \A i \in D : phase[i] # "none"
        BY <2>1, <2>2, <2>4, <3>1 DEF Phase, terminalQueue
      <3> HIDE DEF H, D
      <3>5. Promise!Settle(H, D)
        BY <2>3, <2>4, <3>3, <3>4 DEF Promise!Settle
      <3> QED BY <3>2, <3>5 DEF Promise!OutboxNext
    <2>5. ASSUME NEW r \in QueueItem, NEW x \in QueueStates
          PROVE  [r EXCEPT !.state = x].state = x /\ [r EXCEPT !.state = x] # Null
      <3>1. [r EXCEPT !.state = x] \in QueueItem
        BY DEF QueueItem
      <3> QED BY <3>1, NullAssumption DEF QueueItem
    <2>5a. ASSUME NEW j \in Items, item[j] # Null, NEW x \in QueueStates, item'[j] = [item[j] EXCEPT !.state = x]
          PROVE  item'[j].state = x /\ item'[j] # Null
      BY <2>1, <2>5, <2>5a
    <2>6. terminalQueue \cup {"needs_attention", "running"} \subseteq QueueStates
      BY DEF QueueStates
    <2>7. ASSUME UNCHANGED <<asks, origin>>, NEW j \in Items, item[j] # Null, item[j].state \notin terminalQueue,
                 NEW x \in terminalQueue \cup {"needs_attention"}, item' = SetState(item, j, x)
          PROVE  [Promise!OutboxNext]_(Promise!outboxVars)
      <3>1. item'[j] = [item[j] EXCEPT !.state = x] /\ \A i \in Items : i # j => item'[i] = item[i]
        BY <2>1, <2>7 DEF SetState, TypeOK
      <3>2. item'[j].state = x /\ item'[j] # Null
        BY <2>1, <2>5, <2>6, <2>7, <3>1
      <3> QED BY <2>4, <2>7, <3>1, <3>2
    <2>8. CASE DispatchBegin \/ CancelBatchEnd
      <3>1. item' = Reconciled(item) /\ UNCHANGED <<asks, origin>>
        BY <2>8 DEF DispatchBegin, CancelBatchEnd, taskVars
      <3>2. \A i \in Items : item'[i] # item[i] => item[i] # Null /\ item'[i] = [item[i] EXCEPT !.state = "completed"]
        BY <3>1 DEF Reconciled
      <3>3. "completed" \in terminalQueue
        BY DEF terminalQueue
      <3> QED BY <2>4, <2>5a, <2>6, <3>1, <3>2, <3>3
    <2>9. ASSUME NEW j \in Items, DispatchLook(j) PROVE [Promise!OutboxNext]_(Promise!outboxVars)
      <3>1. item[j] # Null /\ item[j].state = "running" /\ UNCHANGED <<asks, origin>>
        BY <2>1, <2>9 DEF DispatchLook, DispAgrees, At, In, taskVars
      <3>2. item' = item \/ item' = SetState(item, j, "needs_attention")
        BY <2>9 DEF DispatchLook
      <3> QED BY <2>4, <2>7, <3>1, <3>2 DEF terminalQueue
    <2>10. CASE DispatchSettle
      <3>1. PICK j \in Items : j = disp.item
        BY <2>1, <2>10 DEF DispatchSettle, DispAgrees, At, TypeOK
      <3>2. item[j] # Null /\ item[j].state = "running" /\ UNCHANGED <<asks, origin>>
        BY <2>1, <2>10, <3>1 DEF DispatchSettle, DispAgrees, At, In, taskVars
      <3>3. item' = item \/ item' = SetState(item, j, Receipt(disp.seen))
        BY <2>10, <3>1 DEF DispatchSettle
      <3>4. PICK x \in terminalQueue \cup {"needs_attention"} : x = Receipt(disp.seen)
        BY DEF Receipt, terminalQueue
      <3> QED BY <2>4, <2>7, <3>2, <3>3, <3>4 DEF terminalQueue
    <2>11. CASE DispatchFilter \/ DispatchRelock
      <3>1. UNCHANGED <<asks, origin>> /\ item' \in {item, Filtered(item), Filtered(WithoutBatch(item))}
        BY <2>11 DEF DispatchFilter, DispatchRelock, taskVars
      <3>2. ASSUME NEW i \in Items
            PROVE  \/ WithoutBatch(item)[i] = item[i]
                   \/ item[i] # Null /\ item[i].state = "queued" /\ WithoutBatch(item)[i] = [item[i] EXCEPT !.state = "cancelled"]
        BY DEF WithoutBatch, SetStates
      <3>3. ASSUME NEW i \in Items
            PROVE  \/ item'[i] = item[i]
                   \/ /\ item[i] # Null /\ item[i].state = "queued"
                      /\ \E x \in {"cancelled", "expired", "needs_attention"} : item'[i] = [item[i] EXCEPT !.state = x]
        <4>1. CASE item' \in {item, Filtered(item)} \/ WithoutBatch(item)[i] = item[i]
          BY <3>1, <4>1 DEF Filtered
        <4>2. CASE item' = Filtered(WithoutBatch(item)) /\ item[i] # Null /\ item[i].state = "queued"
                   /\ WithoutBatch(item)[i] = [item[i] EXCEPT !.state = "cancelled"]
          <5>1. "cancelled" \in QueueStates
            BY <2>6 DEF terminalQueue
          <5>2. WithoutBatch(item)[i].state = "cancelled"
            BY <2>1, <2>5, <4>2, <5>1
          <5> QED BY <4>2, <5>2 DEF Filtered
        <4> QED BY <3>1, <3>2, <4>1, <4>2
      <3>4. ASSUME NEW i \in Items, item'[i] # item[i]
            PROVE  /\ item[i] # Null /\ item'[i] # Null
                   /\ item'[i].state \in terminalQueue \cup {"needs_attention"} /\ item[i].state \notin terminalQueue
        BY <2>5a, <2>6, <3>3, <3>4 DEF terminalQueue
      <3> QED BY <2>4, <3>1, <3>4
    <2>12. CASE DispatchRefused
      <3>1. PICK j \in Items : j = disp.item
        BY <2>1, <2>12 DEF DispatchRefused, DispAgrees, At
      <3>2. item[j] # Null /\ item[j].state \notin terminalQueue /\ UNCHANGED <<asks, origin>>
            /\ item' = SetState(item, j, "needs_attention")
        BY <2>1, <2>12, <3>1 DEF DispatchRefused, DispAgrees, At, In, taskVars, terminalQueue
      <3> QED BY <2>7, <3>2
    <2>13. CASE DispatchTake
      <3>1. PICK i \in Items, t \in Tasks : i = disp.item /\ t = disp.task
        BY <2>1, <2>13 DEF DispatchTake, DispAgrees, At
      <3>2. In(i, {"queued"}) /\ origin[t] = Null /\ i # Null /\ UNCHANGED asks
        BY <2>1, <2>13, <3>1, SendQueueAssumption DEF DispatchTake, DispAgrees, At
      <3>3. CASE MayBegin
        <4>1. /\ item' = [item EXCEPT ![i] = [state |-> "running", task |-> t]]
              /\ origin' = [origin EXCEPT ![t] = i]
          BY <2>13, <3>1, <3>3 DEF DispatchTake
        <4>2. [state |-> "running", task |-> t] # Null
          BY NullAssumption, <2>6 DEF QueueItem
        <4>3. phase[i] = "waiting" /\ phase' = [phase EXCEPT ![i] = "sending"]
          <5>1. /\ item'[i] = [state |-> "running", task |-> t]
                /\ \A j \in Items : j # i => item'[j] = item[j]
            BY <2>1, <4>1 DEF TypeOK
          <5>2. Phase(i)' = "sending" /\ \A j \in Items : j # i => Phase(j)' = Phase(j)
            BY <4>2, <5>1 DEF Phase
          <5>3. Phase(i) = "waiting"
            BY <3>2 DEF Phase, In
          <5> QED BY <2>2, <5>2, <5>3
        <4>4. /\ StartedFor(i) \cup {t} = {u \in Tasks : origin'[u] = i} /\ t \notin StartedFor(i)
              /\ \A j \in Items : j # i => {u \in Tasks : origin'[u] = j} = StartedFor(j)
          BY <2>1, <3>2, <4>1, SendQueueAssumption DEF StartedFor, TypeOK
        <4>5. IsFiniteSet(StartedFor(i)) /\ Cardinality(StartedFor(i)) < asks[i]
          BY <2>1, <3>2 DEF AsksAgree
        <4>6. Cardinality(StartedFor(i) \cup {t}) = Cardinality(StartedFor(i)) + 1
          BY <4>4, <4>5, FS_AddElement
        <4>7. sent' = [sent EXCEPT ![i] = @ + 1] /\ sent[i] < asks[i]
          <5>1. \A j \in Items : sent[j] = Cardinality(StartedFor(j))
            BY DEF StartedFor
          <5>2. sent' = [j \in Items |-> IF j = i THEN Cardinality(StartedFor(j)) + 1 ELSE Cardinality(StartedFor(j))]
            BY <2>2, <4>4, <4>6
          <5> QED BY <4>5, <5>1, <5>2
        <4>8. Promise!Start(i)
          BY <3>2, <4>3, <4>7 DEF Promise!Start, Promise!Pass
        <4> QED BY <4>8 DEF Promise!OutboxNext
      <3>4. CASE ~MayBegin
        <4>1. item' = SetState(item, i, "needs_attention") /\ UNCHANGED origin
          BY <2>13, <3>1, <3>4 DEF DispatchTake
        <4> QED BY <2>7, <3>2, <4>1 DEF In, terminalQueue
      <3> QED BY <3>3, <3>4
    <2>14. ASSUME NEW i \in Items, Enqueue(i) \/ ConfirmRequeue(i) PROVE [Promise!OutboxNext]_(Promise!outboxVars)
      <3>1. /\ item[i] = Null \/ item[i].state = "needs_attention"
            /\ item' = [item EXCEPT ![i] = NewItem] /\ asks' = [asks EXCEPT ![i] = asks[i] + 1]
            /\ UNCHANGED origin
        <4>1. CASE Enqueue(i)
          <5>1. asks[i] = 0
            BY <2>1, <4>1 DEF Enqueue, AsksAgree
          <5> QED BY <4>1, <5>1 DEF Enqueue, taskVars
        <4>2. CASE ConfirmRequeue(i)
          BY <4>2 DEF ConfirmRequeue, MayConfirm, In, taskVars
        <4> QED BY <2>14, <4>1, <4>2
      <3>2. NewItem.state = "queued" /\ NewItem # Null
        BY NullAssumption DEF NewItem, QueueItem, QueueStates
      <3>3. phase[i] \in {"none", "held"} /\ phase' = [phase EXCEPT ![i] = "waiting"]
        <4>1. item'[i] = NewItem /\ \A j \in Items : j # i => item'[j] = item[j]
          BY <2>1, <3>1 DEF TypeOK
        <4>2. Phase(i)' = "waiting" /\ \A j \in Items : j # i => Phase(j)' = Phase(j)
          BY <3>2, <4>1 DEF Phase
        <4>3. Phase(i) \in {"none", "held"}
          BY <3>1 DEF Phase
        <4> QED BY <2>2, <4>2, <4>3
      <3>4. Promise!Ask(i)
        BY <2>3, <3>1, <3>3 DEF Promise!Ask, Promise!Pass
      <3> QED BY <3>4 DEF Promise!OutboxNext
    <2>15. CASE EnqueueBatch
      <3>1. /\ item' = [i \in Items |-> IF i \in Batch THEN NewItem ELSE item[i]]
            /\ asks' = [i \in Items |-> IF i \in Batch THEN 1 ELSE asks[i]]
            /\ UNCHANGED origin /\ batch = "none"
        BY <2>15 DEF EnqueueBatch, taskVars
      <3>2. \A i \in Batch : item[i] = Null /\ asks[i] = 0
        BY <2>1, <3>1, SendQueueAssumption DEF RowsAgree, AsksAgree
      <3>3. NewItem.state = "queued" /\ NewItem # Null
        BY NullAssumption DEF NewItem, QueueItem, QueueStates
      <3>4. /\ \A i \in Batch : phase[i] = "none"
            /\ phase' = [i \in Items |-> IF i \in Batch THEN "waiting" ELSE phase[i]]
        <4>1. \A i \in Items : Phase(i)' = IF i \in Batch THEN "waiting" ELSE Phase(i)
          BY <3>1, <3>3 DEF Phase
        <4>2. \A i \in Batch : Phase(i) = "none"
          BY <3>2 DEF Phase
        <4> QED BY <2>2, <4>1, <4>2, SendQueueAssumption
      <3>5. asks' = [i \in Items |-> IF i \in Batch THEN asks[i] + 1 ELSE asks[i]]
        BY <3>1, <3>2
      <3>6. Promise!AskAll(Batch)
        BY <2>3, <3>1, <3>4, <3>5 DEF Promise!AskAll
      <3> QED BY <3>6, SendQueueAssumption DEF Promise!OutboxNext
    <2>16. ASSUME NEW i \in Items, ConfirmResume(i) PROVE [Promise!OutboxNext]_(Promise!outboxVars)
      <3>1. item[i] # Null /\ item[i].state = "needs_attention" /\ item' = SetState(item, i, "running") /\ UNCHANGED <<asks, origin>>
        BY <2>16 DEF ConfirmResume, MayConfirm, In
      <3>2. item'[i] = [item[i] EXCEPT !.state = "running"] /\ \A j \in Items : j # i => item'[j] = item[j]
        BY <2>1, <3>1 DEF SetState, TypeOK
      <3>3. item'[i].state = "running" /\ item'[i] # Null
        BY <2>5a, <2>6, <3>1, <3>2
      <3>4. phase[i] = "held" /\ phase' = [phase EXCEPT ![i] = "sending"]
        <4>1. Phase(i)' = "sending" /\ \A j \in Items : j # i => Phase(j)' = Phase(j)
          BY <3>2, <3>3 DEF Phase
        <4>2. Phase(i) = "held"
          BY <3>1 DEF Phase
        <4> QED BY <2>2, <4>1, <4>2
      <3>5. Promise!Continue(i)
        BY <2>3, <3>1, <3>4 DEF Promise!Continue, Promise!Pass
      <3> QED BY <3>5 DEF Promise!OutboxNext
    <2>17. CASE CancelBatch
      <3>1. item' = ChildrenCancelled(item) /\ UNCHANGED <<asks, origin>> /\ batch = "open"
        BY <2>17 DEF CancelBatch, taskVars
      <3>2. \A i \in Items : \/ item'[i] = item[i]
                             \/ i \in Batch /\ item[i].state \notin terminalQueue /\ item'[i] = [item[i] EXCEPT !.state = "cancelled"]
        BY <3>1 DEF ChildrenCancelled, SetStates
      <3>3. "cancelled" \in terminalQueue /\ "cancelled" \in QueueStates
        BY DEF terminalQueue, QueueStates
      <3>4. \A i \in Batch : item[i] # Null
        BY <2>1, <3>1, SendQueueAssumption DEF RowsAgree
      <3> QED BY <2>4, <2>5a, <3>1, <3>2, <3>3, <3>4
    <2>18. ASSUME NEW i \in Items, CancelQueue(i) PROVE [Promise!OutboxNext]_(Promise!outboxVars)
      <3>1. item[i] # Null /\ item[i].state \notin terminalQueue /\ item' = SetState(item, i, "cancelled") /\ UNCHANGED <<asks, origin>>
        BY <2>18 DEF CancelQueue
      <3>2. "cancelled" \in terminalQueue
        BY DEF terminalQueue
      <3> QED BY <2>7, <3>1, <3>2
    <2>19. ASSUME NEW t \in Tasks, ForgetInboxRecords(t) PROVE [Promise!OutboxNext]_(Promise!outboxVars)
      <3>1. /\ UNCHANGED <<asks, origin>>
            /\ \A i \in Items : item'[i] = item[i] \/ (item[i] # Null /\ item'[i] = [item[i] EXCEPT !.task = Null])
        BY <2>19 DEF ForgetInboxRecords
      <3>2. ASSUME NEW r \in QueueItem
            PROVE  [r EXCEPT !.task = Null].state = r.state /\ [r EXCEPT !.task = Null] # Null
        <4>1. [r EXCEPT !.task = Null] \in QueueItem
          BY DEF QueueItem
        <4> QED BY <4>1, NullAssumption DEF QueueItem
      <3> QED BY <2>1, <2>4, <3>1, <3>2
    <2>20. CASE Restart
      <3>1. item' = Reopened(Reconciled(item)) /\ UNCHANGED <<asks, origin>>
        BY <2>20 DEF Restart
      <3>2. ASSUME NEW i \in Items
            PROVE  \/ item'[i] = item[i]
                   \/ /\ item[i] # Null /\ item'[i] # Null
                      /\ \/ item'[i].state \in terminalQueue
                         \/ item'[i].state = "needs_attention" /\ item[i].state \notin terminalQueue
        <4>1. CASE Reconciled(item)[i] = item[i]
          <5>1. \/ item'[i] = item[i]
                \/ /\ item[i] # Null /\ item[i].state \notin terminalQueue
                   /\ \E x \in {"cancelled", "needs_attention"} : item'[i] = [item[i] EXCEPT !.state = x]
            BY <3>1, <4>1 DEF Reopened
          <5> QED BY <2>5a, <2>6, <5>1 DEF terminalQueue
        <4>2. CASE Reconciled(item)[i] # item[i]
          <5>1. item[i] # Null /\ Reconciled(item)[i] = [item[i] EXCEPT !.state = "completed"]
            BY <4>2 DEF Reconciled
          <5>2. Reconciled(item)[i].state = "completed" /\ Reconciled(item)[i] # Null
            BY <2>1, <2>5, <5>1 DEF QueueStates, terminalQueue
          <5>3. item'[i] = Reconciled(item)[i]
            BY <3>1, <5>2 DEF Reopened, terminalQueue
          <5> QED BY <5>1, <5>2, <5>3 DEF terminalQueue
        <4> QED BY <4>1, <4>2
      <3> QED BY <2>4, <3>1, <3>2
    \* Nothing else touches the rows.
    <2>21. CASE \/ DispatchBusy \/ DispatchSpawn \/ World \/ UNCHANGED vars
                \/ \E p \in BOOLEAN : SetQueuePaused(p)
      <3>1. UNCHANGED <<item, asks, origin>>
        BY <2>21 DEF DispatchBusy, DispatchSpawn, World, OtherTransfer, Lapse, SetQueuePaused, vars, queueVars, taskVars
      <3> QED BY <2>4, <3>1
    <2>22. ASSUME NEW t \in Tasks,
                  \/ DispatchCreate(t) \/ CancelTask(t) \/ ResumeTask(t) \/ CancelBatchTask(t)
                  \/ Prepare(t) \/ SaveFails(t) \/ Save(t) \/ \E x \in TaskStates : WorkerEnds(t, x)
           PROVE  [Promise!OutboxNext]_(Promise!outboxVars)
      <3>1. UNCHANGED <<item, asks, origin>>
        BY <2>22 DEF DispatchCreate, CancelTask, ResumeTask, CancelBatchTask, Prepare, SaveFails, Save, WorkerEnds, queueVars, taskVars
      <3> QED BY <2>4, <3>1
    <2> QED BY <2>8, <2>9, <2>10, <2>11, <2>12, <2>13, <2>14, <2>15, <2>16, <2>17, <2>18, <2>19, <2>20, <2>21, <2>22
            DEF Next, DispatchStep, Command, BatchStep, TaskStep, ResendInbox
  <1>3. Spec => []QueueIInv
    BY QueueInvHolds, PTL
  <1> QED BY <1>1, <1>2, <1>3, PTL DEF Spec, Promised, Promise!OutboxSpec
=============================================================================
