----------------------------- MODULE TasksProofs -----------------------------
(***************************************************************************)
(* Theorems about the task manager, for every number of tasks, callers,    *)
(* attempts and restarts, whatever the store and the listener do.          *)
(***************************************************************************)
EXTENDS Tasks, TLAPS

Active(a) == worker[a] # Null /\ worker[a].pc \notin {"rearm", "done"}

(***************************************************************************)
(* The inductive invariant                                                 *)
(***************************************************************************)
\* A task with a cancel function is unfinished; one without has stopped.
StatesAgree ==
    \A t \in Tasks : mem[t] # Null =>
        /\ mem[t].live => mem[t].state \notin Terminal
        /\ ~mem[t].live => mem[t].state \in Terminal \cup {"paused", "recovering"}

\* An active worker owns the current attempt of its task, unless the task was
\* finished without it, and what it relies on later was saved; a task with a
\* cancel function has such a worker.
WorkersAgree ==
    /\ \A a \in Attempts : Active(a) =>
         LET t == worker[a].task
         IN  /\ mem[t] # Null
             /\ \/ mem[t].state \in Terminal
                \/ /\ mem[t].live /\ mem[t].attempt = a
                   /\ worker[a].pc \in {"prepared", "offered", "sending", "verifying"} => mem[t].usable
                   /\ worker[a].pc \in {"sending", "verifying"} => disk[t] # Null /\ disk[t].usable
             /\ worker[a].pc = "finish" => worker[a].cause \in {"cancelled", "rejected", "failed"}
             /\ worker[a].pc = "opening" => opMu = a
    /\ \A t \in Tasks : Live(t) =>
         Active(mem[t].attempt) /\ worker[mem[t].attempt].task = t

\* What a call knows and holds.
CallAgrees(c) ==
    LET k == caller[c]
    IN  /\ k.pc \in {"stop", "waiting", "ready", "created", "starting"} \/ k.op = "resume" => handoff = c
        /\ k.pc \in {"begun", "marked", "unlocked"} => k.op \in {"pause", "cancel"}
        /\ k.pc \in {"idle", "stop", "waiting", "ready", "begun", "unlocked"} => saving[c] = Null
        /\ k.op \in {"resume", "pause", "cancel"} \/ k.pc \in {"created", "starting"} =>
             k.task \in Tasks /\ mem[k.task] # Null
        /\ k.pc = "marked" => k.attempt \in Attempts /\ worker[k.attempt] # Null
        /\ k.pc \in {"created", "starting"} =>
             /\ opMu = c /\ k.attempt \in Attempts
             /\ worker[k.attempt] # Null /\ worker[k.attempt].pc = "held"
             /\ worker[k.attempt].task = k.task
        /\ k.pc \in {"ready", "created", "starting"} => inbox.pc = "off"

CallsAgree == \A c \in Callers : CallAgrees(c)

\* Where a worker may be while its row is being written.
WritesAt == {"opening", "connecting", "prepared", "offered", "sending", "confirmed", "rearm"}

\* Who may be writing a row.
SaversAgree ==
    /\ \A a \in Attempts : saving[a] # Null =>
         worker[a] # Null /\ worker[a].pc \in WritesAt
    /\ exit # "saving" => saving[Exit] = Null

\* The listener serves one receive at a time.
ServedByInbox(a) == worker[a] # Null /\ worker[a].via = "inbox" /\ worker[a].pc # "done"
InboxAgrees ==
    /\ \A a \in Attempts : ServedByInbox(a) => inbox.pc = "receiving"
    /\ \A a, b \in Attempts : ServedByInbox(a) /\ ServedByInbox(b) => a = b

\* The rows of t that are stored or on their way.
Copies == [t \in Tasks |-> ({disk[t]} \cup {saving[x].row : x \in Writers(t)}) \ {Null}]

\* A copy is of a revision the record had: only the present one equals it, a
\* finished one is the present one, and none forgets what an earlier one has
\* for the recovery.  A stopped task is among its copies unless a write
\* failed; content that moves has a row to recover from.
HistoryAgrees ==
    \A t \in Tasks :
        /\ \A p \in Copies[t] :
             /\ mem[t] # Null
             /\ p.rev <= mem[t].rev /\ (p.usable => mem[t].usable)
             /\ p.rev = mem[t].rev \/ p.state \in Terminal => p = Stored(mem[t])
             /\ \A q \in Copies[t] : p.rev <= q.rev /\ p.usable => q.usable
        /\ mem[t] # Null /\ mem[t].persisted /\ ~mem[t].live => Stored(mem[t]) \in Copies[t]
        /\ mem[t] # Null /\ mem[t].state \in {"transferring", "verifying"} =>
             disk[t] # Null /\ disk[t].usable

\* After the history was closed only calls that had not passed the barrier go on.
ClosedIsOver ==
    exit = "closed" =>
        /\ inbox.pc = "off"
        /\ \A a \in Attempts : worker[a] # Null => worker[a].pc = "done"
        /\ \A c \in Callers : caller[c].pc \in {"idle", "stop", "waiting", "ready"}

TasksIInv ==
    /\ TypeOK /\ StatesAgree /\ WorkersAgree /\ CallsAgree /\ SaversAgree /\ InboxAgrees
    /\ HistoryAgrees /\ ClosedIsOver /\ OneLiveTask

(***************************************************************************)
(* What a step does to records and rows                                    *)
(***************************************************************************)
\* A change of a record that is not finished.
Keeps(r, q) ==
    /\ q \in Task /\ q.persisted = r.persisted
    /\ r.rev < q.rev /\ (r.usable => q.usable)
    /\ r.state \notin Terminal
    /\ q.live => q.state \notin Terminal
    /\ ~q.live => q.state \in Terminal \cup {"paused", "recovering"}
    /\ r.state \in Intents => q.state \in Intents \cup {"paused", "recovering", "rejected", "failed", "cancelled"}

Backed(t, q) == q.state \in {"transferring", "verifying"} => disk'[t] # Null /\ disk'[t].usable

Quiet == UNCHANGED <<mem, disk, saving>>

\* A new or changed record whose row x goes on to save.
Written(x, t, q) ==
    /\ saving[x] = Null /\ Put(x, t, q) /\ disk' = disk
    /\ \/ mem[t] = Null /\ q.live /\ q.state = "preparing"
       \/ mem[t] # Null /\ Keeps(mem[t], q)
       \/ mem[t] # Null /\ q = mem[t] /\ q.live /\ q.state \notin Terminal
    /\ Backed(t, q)

\* A change that is not saved, or whose row p is written under the lock.
Noted(t, q) ==
    /\ mem[t] # Null /\ Keeps(mem[t], q) /\ q.live
    /\ mem' = [mem EXCEPT ![t] = q] /\ saving' = saving
    /\ \/ disk' = disk
       \/ \E p \in Row :
            /\ disk' = [disk EXCEPT ![t] = p]
            /\ mem[t].rev < p.rev /\ p.rev <= q.rev /\ (p.rev = q.rev => p = Stored(q))
            /\ p.usable = q.usable /\ p.state \notin Terminal
    /\ Backed(t, q)

\* What no step of a process takes back.
Kept ==
    \A t \in Tasks :
        /\ mem[t] # Null =>
             /\ mem'[t] # Null /\ (mem[t].usable => mem'[t].usable)
             /\ mem[t].state \in Terminal => mem'[t].state = mem[t].state
        /\ disk[t] # Null /\ disk[t].usable => disk'[t] # Null /\ disk'[t].usable

\* No task becomes active, or active with another attempt.
NoneStarts ==
    \A t \in Tasks : mem'[t] # Null /\ mem'[t].live =>
        mem[t] # Null /\ mem[t].live /\ mem'[t].attempt = mem[t].attempt

\* The workers of the attempts in S go on as they were.
Alike(S) ==
    \A b \in S :
        /\ worker'[b] = Null <=> worker[b] = Null
        /\ worker[b] # Null => /\ worker'[b].task = worker[b].task /\ worker'[b].pc = worker[b].pc
                               /\ worker'[b].cause = worker[b].cause /\ worker'[b].via = worker[b].via

\* What becomes of the worker of attempt b: it is started while the process is
\* open, and does not go on while its row is being written.
Goes(b) ==
    /\ worker[b] # Null =>
         /\ worker'[b] # Null /\ worker'[b].task = worker[b].task /\ worker'[b].via = worker[b].via
         /\ worker[b].pc = "done" => worker'[b].pc = "done"
         /\ worker[b].pc = "held" => worker'[b].pc = "held" \/ \E c \in Callers : Spawn(c)
         /\ worker'[b].pc # worker[b].pc => saving[b] = Null
    /\ saving[b] = Null /\ saving'[b] # Null => worker'[b] # Null /\ worker'[b].pc \in WritesAt
    /\ worker[b] = Null /\ worker'[b] # Null =>
         ~isClosing /\ (worker'[b].via = "inbox" => \E t \in Tasks : Incoming("inbox", t, b))

\* The changes the operations make to an unfinished record keep it one of the
\* program's records.
LEMMA RecordSteps ==
  ASSUME NEW r \in Task
  PROVE  /\ r # Null /\ Stored(r) \in Row /\ Stored(r) # Null
         /\ Stored(r).rev = r.rev /\ Stored(r).usable = r.usable /\ Stored(r).state = r.state
         /\ r.state \notin Terminal =>
              /\ Keeps(r, PausedRecord(r)) /\ ~PausedRecord(r).live
              /\ Keeps(r, RecoveringRecord(r)) /\ ~RecoveringRecord(r).live
              /\ \A s \in Terminal :
                   (r.state \in Intents \ {"cancel_requested"} => s # "completed") =>
                     Keeps(r, FinishedRecord(r, s)) /\ ~FinishedRecord(r, s).live
         /\ r.live /\ r.state \notin Terminal =>
              \A s \in States \ Terminal :
                /\ Keeps(r, Updated(r, s)) /\ Updated(r, s).live /\ Updated(r, s).attempt = r.attempt
                /\ Keeps(r, Usable(Updated(r, s))) /\ Usable(Updated(r, s)).live
                /\ Usable(Updated(r, s)).attempt = r.attempt /\ Usable(Updated(r, s)).usable
                /\ s \in Intents => Keeps(r, [r EXCEPT !.state = s, !.rev = @ + 1])
                /\ Updated(r, s).state \in Intents \cup {s}
                /\ Usable(Updated(r, s)).state = Updated(r, s).state
                /\ Updated(r, s).rev = r.rev + 1 /\ Updated(r, s).usable = r.usable
  <1> USE DEF Keeps
  <1>1. r # Null /\ r.rev \in Nat /\ r.rev + 1 \in Nat /\ r.rev < r.rev + 1 /\ r.state \in States
    BY NullAssumption DEF Task
  <1>2. /\ Stored(r) \in Row /\ Stored(r) # Null
        /\ Stored(r).rev = r.rev /\ Stored(r).usable = r.usable /\ Stored(r).state = r.state
    <2>1. Stored(r) \in Row
      BY DEF Stored, Task, Row
    <2> QED BY <2>1, NullAssumption DEF Stored
  <1> DEFINE Stop(s) == [r EXCEPT !.state = s, !.rev = @ + 1, !.live = FALSE]
             Go(s) == [r EXCEPT !.state = s, !.rev = @ + 1]
  <1>3. ASSUME NEW s \in States
        PROVE  LET q == Stop(s)
               IN  /\ q \in Task /\ q.state = s /\ q.rev = r.rev + 1 /\ ~q.live
                   /\ q.persisted = r.persisted /\ q.usable = r.usable /\ q.attempt = r.attempt
    BY <1>1 DEF Task
  <1>4. ASSUME NEW s \in States
        PROVE  LET q == Go(s)
               IN  /\ q \in Task /\ q.state = s /\ q.rev = r.rev + 1 /\ (r.live => q.live)
                   /\ q.persisted = r.persisted /\ q.usable = r.usable /\ q.attempt = r.attempt
                   /\ Usable(q) \in Task /\ Usable(q).state = s /\ Usable(q).rev = r.rev + 1
                   /\ (r.live => Usable(q).live) /\ Usable(q).usable /\ Usable(q).persisted = r.persisted
                   /\ Usable(q).attempt = r.attempt
    BY <1>1 DEF Task, Usable
  <1>5. ASSUME r.state \notin Terminal
        PROVE  /\ Keeps(r, PausedRecord(r)) /\ ~PausedRecord(r).live
               /\ Keeps(r, RecoveringRecord(r)) /\ ~RecoveringRecord(r).live
    <2>1. PausedRecord(r) = Stop("paused") /\ RecoveringRecord(r) = Stop("recovering")
      BY DEF PausedRecord, RecoveringRecord
    <2> HIDE DEF Stop
    <2> QED BY <1>1, <1>3, <1>5, <2>1 DEF States
  <1>6. ASSUME r.state \notin Terminal, NEW s \in Terminal,
               r.state \in Intents \ {"cancel_requested"} => s # "completed"
        PROVE  Keeps(r, FinishedRecord(r, s)) /\ ~FinishedRecord(r, s).live
    <2> DEFINE e == IF s = "completed" /\ r.state = "cancel_requested" THEN "cancelled" ELSE s
    <2>1. e \in Terminal /\ e \in States
      BY DEF Terminal, States
    <2>2. r.state \in Intents => e \in {"rejected", "failed", "cancelled"}
      BY <1>6 DEF Intents, Terminal
    <2>3. FinishedRecord(r, s) = Stop(e)
      BY DEF FinishedRecord
    <2> HIDE DEF e, Stop
    <2> QED BY <1>1, <1>3, <1>6, <2>1, <2>2, <2>3
  <1>7. ASSUME r.live, r.state \notin Terminal, NEW s \in States \ Terminal
        PROVE  /\ Keeps(r, Updated(r, s)) /\ Updated(r, s).live /\ Updated(r, s).attempt = r.attempt
               /\ Keeps(r, Usable(Updated(r, s))) /\ Usable(Updated(r, s)).live
               /\ Usable(Updated(r, s)).attempt = r.attempt /\ Usable(Updated(r, s)).usable
               /\ s \in Intents => Keeps(r, [r EXCEPT !.state = s, !.rev = @ + 1])
               /\ Updated(r, s).state \in Intents \cup {s}
               /\ Usable(Updated(r, s)).state = Updated(r, s).state
               /\ Updated(r, s).rev = r.rev + 1 /\ Updated(r, s).usable = r.usable
    <2> DEFINE e == IF r.state \in Intents THEN r.state ELSE s
    <2>1. e \in States \ Terminal /\ (r.state \in Intents => e \in Intents) /\ e \in Intents \cup {s}
      BY <1>1, <1>7
    <2>2. Updated(r, s) = Go(e) /\ [r EXCEPT !.state = s, !.rev = @ + 1] = Go(s)
      BY DEF Updated
    <2> HIDE DEF e, Go
    <2>3. Keeps(r, Updated(r, s)) /\ Keeps(r, Usable(Updated(r, s)))
      BY <1>1, <1>4, <1>7, <2>1, <2>2
    <2>4. s \in Intents => Keeps(r, [r EXCEPT !.state = s, !.rev = @ + 1])
      BY <1>1, <1>4, <1>7, <2>2
    <2> HIDE DEF Keeps
    <2> QED BY <1>1, <1>4, <1>7, <2>1, <2>2, <2>3, <2>4
  <1> QED BY <1>1, <1>2, <1>5, <1>6, <1>7

\* Every step is one of these, as far as records, rows and saves go.
Recorded ==
    \/ Quiet
    \/ \E x \in Actors, t \in Tasks, q \in Task : Written(x, t, q)
    \/ \E t \in Tasks, q \in Task : Noted(t, q)

\* A step is the end of the process, the landing of a save, or recorded.
LEMMA TaskSteps ==
  ASSUME TasksIInv, Next
  PROVE  Restart \/ (restarts' = restarts /\ (Recorded \/ \E x \in Actors : Save(x)))
  <1> DEFINE Result == restarts' = restarts /\ Recorded
  <1>0. /\ \A t \in Tasks : mem[t] # Null => mem[t] \in Task
        /\ \A t \in Tasks : mem[t] # Null /\ mem[t].live => mem[t].state \notin Terminal
        /\ \A a \in Attempts : worker[a] # Null => worker[a] \in Worker /\ worker[a].task \in Tasks
        /\ \A c \in Callers : caller[c] \in Call
        /\ Callers \subseteq Actors /\ Attempts \subseteq Actors /\ Exit \in Actors
        /\ saving \in [Actors -> SavedRow \cup {Null}] /\ historyErr \in BOOLEAN
    BY DEF TasksIInv, TypeOK, StatesAgree, Worker, Actors
  <1> USE DEF Result, Recorded
  \* The updates of a worker.
  <1>1. ASSUME NEW a \in Attempts, Active(a)
        PROVE  LET t == worker[a].task
               IN  /\ t \in Tasks /\ mem[t] \in Task /\ mem[t] # Null
                   /\ Accepts(t, a) => /\ mem[t].live /\ mem[t].state \notin Terminal
                                       /\ worker[a].pc \in {"prepared", "offered", "sending", "verifying"} => mem[t].usable
                                       /\ worker[a].pc \in {"sending", "verifying"} => disk[t] # Null /\ disk[t].usable
    BY <1>0, <1>1 DEF Active, TasksIInv, WorkersAgree, Accepts
  <1>2. ASSUME NEW a \in Attempts, Active(a), saving[a] = Null, disk' = disk, restarts' = restarts, NEW s,
               LET t == worker[a].task
               IN  IF Accepts(t, a)
                   THEN /\ s \in States \ Terminal
                        /\ Put(a, t, Updated(mem[t], s)) \/ Put(a, t, Usable(Updated(mem[t], s)))
                   ELSE UNCHANGED <<mem, saving>>,
               s \in {"transferring", "verifying"} => s = mem[worker[a].task].state
        PROVE  Result
    <2> DEFINE t == worker[a].task
               r == Updated(mem[t], s)
    <2>1. CASE ~Accepts(t, a)
      BY <1>2, <2>1 DEF Quiet
    <2>2. CASE Accepts(t, a)
      <3>1. mem[t] \in Task /\ mem[t].live /\ mem[t].state \notin Terminal /\ s \in States \ Terminal
        BY <1>1, <1>2, <2>2
      <3>2. Keeps(mem[t], r) /\ Keeps(mem[t], Usable(r))
        BY <3>1, RecordSteps
      <3>3. r.state \in Intents \cup {s} /\ Usable(r).state = r.state
        BY <3>1, RecordSteps
      <3>4. PICK q \in {r, Usable(r)} : Put(a, t, q)
        BY <1>2, <2>2
      <3> HIDE DEF r
      <3>5. q \in Task /\ Keeps(mem[t], q) /\ mem[t] # Null
        BY <3>2, <3>4, <1>1, <1>2 DEF Keeps
      <3>6. q.state \in {"transferring", "verifying"} => mem[t].state = q.state
        BY <1>2, <3>3, <3>4 DEF Intents
      <3>7. Backed(t, q)
        <4> HIDE DEF t
        <4> QED BY <1>1, <1>2, <3>5, <3>6 DEF Backed, TasksIInv, HistoryAgrees, t
      <3> QED BY <1>0, <1>1, <1>2, <3>4, <3>5, <3>7 DEF Written
    <2> QED BY <2>1, <2>2
  <1>3. ASSUME NEW a \in Attempts, Active(a), disk' = disk, restarts' = restarts,
               NEW s \in States \ Terminal, Transient(a, s),
               s # "transferring", s = "verifying" => worker[a].pc = "sending"
        PROVE  Result
    <2> DEFINE t == worker[a].task
               q == Updated(mem[t], s)
    <2>1. CASE ~Accepts(t, a)
      BY <1>3, <2>1 DEF Transient, Quiet
    <2>2. CASE Accepts(t, a)
      <3>1. mem' = [mem EXCEPT ![t] = q] /\ saving' = saving
        BY <1>3, <2>2 DEF Transient
      <3>2. mem[t] \in Task /\ mem[t].live /\ mem[t].state \notin Terminal
        BY <1>1, <1>3, <2>2
      <3>3. Keeps(mem[t], q) /\ q.live
        BY <3>2, RecordSteps
      <3>4. q.state \in Intents \cup {s}
        BY <3>2, RecordSteps
      <3> HIDE DEF q
      <3>5. Backed(t, q)
        BY <1>1, <1>3, <2>2, <3>4 DEF Backed, Intents
      <3> QED BY <1>1, <1>3, <3>1, <3>3, <3>5 DEF Noted, Keeps
    <2> QED BY <2>1, <2>2
  \* A record that stops.
  <1>4. ASSUME NEW x \in Actors, NEW t \in Tasks, mem[t] # Null, saving[x] = Null, disk' = disk, restarts' = restarts,
               NEW q, Put(x, t, q), Keeps(mem[t], q), ~q.live
        PROVE  Result
    BY <1>4 DEF Written, Keeps, Backed, Terminal
  \* A record's next revision, and its row written under the lock.
  <1>b. ASSUME NEW t \in Tasks, mem[t] # Null
        PROVE  LET b == [mem[t] EXCEPT !.rev = @ + 1]
               IN  /\ b \in Task /\ b.rev = mem[t].rev + 1 /\ mem[t].rev \in Nat
                   /\ b.state = mem[t].state /\ b.persisted = mem[t].persisted /\ b.usable = mem[t].usable
                   /\ b.attempt = mem[t].attempt
                   /\ mem[t].live => b.live
                   /\ Upsert(t, Stored(b)) = [disk EXCEPT ![t] = Stored(b)]
    <2> DEFINE b == [mem[t] EXCEPT !.rev = @ + 1]
    <2>1. mem[t] \in Task
      BY <1>0, <1>b
    <2>2. /\ b \in Task /\ b.rev = mem[t].rev + 1 /\ mem[t].rev \in Nat
          /\ b.state = mem[t].state /\ b.persisted = mem[t].persisted /\ b.usable = mem[t].usable
          /\ b.attempt = mem[t].attempt /\ (mem[t].live => b.live)
      BY <2>1 DEF Task
    <2>3. Stored(b).rev = mem[t].rev + 1
      BY <2>2, RecordSteps
    <2>4. disk[t] # Null => disk[t].rev \in Nat /\ disk[t].rev <= mem[t].rev
      BY DEF TasksIInv, TypeOK, HistoryAgrees, Copies, Row
    <2> HIDE DEF b
    <2>5. Upsert(t, Stored(b)) = [disk EXCEPT ![t] = Stored(b)]
      BY <2>2, <2>3, <2>4 DEF Upsert
    <2> QED BY <2>2, <2>5 DEF b
  <1>5. ASSUME NEW c \in Callers, StartStep(c) PROVE Result
    <2>0. /\ caller[c].pc \in {"ready", "created"} /\ opMu = Null => saving[c] = Null
          /\ caller[c].op \in {"resume", "pause", "cancel"} \/ caller[c].pc \in {"created", "starting"} =>
               caller[c].task \in Tasks /\ mem[caller[c].task] # Null
      BY TasksAssumption, <1>0 DEF TasksIInv, CallsAgree, CallAgrees
    <2>1. ASSUME NEW t \in Tasks, NEW a \in Attempts, SendCreate(c, t, a) PROVE Result
      <3> DEFINE q == NewTask(caller[c].op, a)
      <3>1. q \in Task /\ q.live /\ q.state = "preparing"
        BY <1>0, <2>1 DEF NewTask, Task, SendCreate, States
      <3>2. saving[c] = Null /\ mem[t] = Null /\ Put(c, t, q) /\ disk' = disk /\ restarts' = restarts
        BY <2>0, <2>1 DEF SendCreate
      <3> HIDE DEF q
      <3> QED BY <1>0, <3>1, <3>2 DEF Written, Backed
    <2>2. CASE SendRecord(c)
      <3> DEFINE t == caller[c].task
                 q == Updated(mem[t], mem[t].state)
      <3>1. /\ t \in Tasks /\ mem[t] # Null /\ mem[t] \in Task /\ saving[c] = Null
            /\ disk' = disk /\ restarts' = restarts
        BY <1>0, <2>0, <2>2 DEF SendRecord
      <3>2. CASE Accepts(t, caller[c].attempt)
        <4>1. mem[t].live /\ mem[t].state \in States \ Terminal
          <5>1. LET b == caller[c].attempt IN b \in Attempts /\ Active(b) /\ worker[b].task = t
            BY <2>2 DEF SendRecord, TasksIInv, CallsAgree, CallAgrees, Active
          <5> QED BY <1>1, <3>1, <3>2, <5>1 DEF Accepts, Task
        <4>2. Keeps(mem[t], q) /\ q.live
          BY <3>1, <4>1, RecordSteps
        <4>3. q.state \in Intents \cup {mem[t].state}
          BY <3>1, <4>1, RecordSteps
        <4>4. Put(c, t, q)
          BY <2>2, <3>2 DEF SendRecord
        <4> HIDE DEF q
        <4>5. Backed(t, q)
          BY <3>1, <4>3 DEF Backed, TasksIInv, HistoryAgrees, Intents
        <4> QED BY <1>0, <3>1, <4>2, <4>4, <4>5 DEF Written, Keeps
      <3>3. CASE ~Accepts(t, caller[c].attempt)
        BY <2>2, <3>3 DEF SendRecord, Quiet
      <3> QED BY <3>2, <3>3
    <2>3. CASE ResumeNoDirectory(c)
      <3> DEFINE t == caller[c].task
      <3>1. /\ t \in Tasks /\ mem[t] # Null /\ mem[t] \in Task /\ saving[c] = Null
            /\ disk' = disk /\ restarts' = restarts /\ Put(c, t, RecoveringRecord(mem[t]))
        BY <1>0, <2>0, <2>3 DEF ResumeNoDirectory
      <3>2. mem[t].state \notin Terminal
        BY <2>3 DEF ResumeNoDirectory, ResumeAllowed, CanResume, Terminal
      <3>3. Keeps(mem[t], RecoveringRecord(mem[t])) /\ ~RecoveringRecord(mem[t]).live
        BY <3>1, <3>2, RecordSteps
      <3> QED BY <1>0, <1>4, <3>1, <3>3
    <2>4. ASSUME NEW a \in Attempts, ResumeStart(c, a) PROVE Result
      <3> DEFINE t == caller[c].task
                 q == [mem[t] EXCEPT !.state = "recovering", !.attempt = a, !.rev = @ + 1, !.live = TRUE]
      <3>1. /\ t \in Tasks /\ mem[t] # Null /\ mem[t] \in Task /\ saving[c] = Null
            /\ disk' = disk /\ restarts' = restarts /\ Put(c, t, q)
        BY <1>0, <2>0, <2>4 DEF ResumeStart
      <3>2. mem[t].state \in {"paused", "recovering"}
        BY <2>4 DEF ResumeStart, ResumeAllowed, CanResume
      <3>3. q \in Task /\ q.rev = mem[t].rev + 1 /\ q.live /\ q.state = "recovering" /\ mem[t].rev \in Nat
            /\ q.persisted = mem[t].persisted /\ (mem[t].usable => q.usable)
        <4> DEFINE e == [mem[t] EXCEPT !.state = "recovering", !.attempt = a]
        <4>1. e \in Task /\ e.state = "recovering" /\ e.rev = mem[t].rev /\ e.persisted = mem[t].persisted
              /\ e.usable = mem[t].usable /\ mem[t].rev \in Nat
          BY <3>1 DEF Task, States
        <4>2. q = [e EXCEPT !.rev = @ + 1, !.live = TRUE]
          BY <3>1 DEF Task
        <4> HIDE DEF e, q
        <4>3. e.rev + 1 \in Nat
          BY <4>1
        <4>4. q \in Task
          BY <4>1, <4>2, <4>3 DEF Task
        <4>5. q.rev = mem[t].rev + 1 /\ q.live
          BY <4>1, <4>2 DEF Task
        <4>6. q.state = "recovering" /\ q.persisted = mem[t].persisted /\ q.usable = mem[t].usable
          BY <4>1, <4>2 DEF Task
        <4> QED BY <4>1, <4>4, <4>5, <4>6
      <3> HIDE DEF q
      <3>4. Keeps(mem[t], q) /\ Backed(t, q)
        BY <3>2, <3>3 DEF Keeps, Backed, Terminal, Intents
      <3> QED BY <1>0, <3>1, <3>3, <3>4 DEF Written
    <2>5. CASE StopInbox(c) \/ InboxStopped(c) \/ InboxStopTimeout(c) \/ SendRefused(c) \/ Spawn(c) \/ ResumeRefused(c)
      BY <2>5 DEF StopInbox, InboxStopped, InboxStopTimeout, SendRefused, Spawn, ResumeRefused, Quiet
    <2> QED BY <1>5, <2>1, <2>2, <2>3, <2>4, <2>5 DEF StartStep
  <1>6. ASSUME NEW c \in Callers, ControlStep(c) PROVE Result
    <2>0. /\ caller[c].pc \in {"begun", "unlocked"} => saving[c] = Null
          /\ caller[c].op \in {"pause", "cancel"} => caller[c].task \in Tasks /\ mem[caller[c].task] # Null
          /\ caller[c].pc = "unlocked" => caller[c].op \in {"pause", "cancel"}
      BY DEF TasksIInv, CallsAgree, CallAgrees
    <2> DEFINE t == caller[c].task
    <2>1. ASSUME NEW s \in {"pause_requested", "cancel_requested"}, Intend(c, s), caller[c].pc = "begun",
                 caller[c].op \in {"pause", "cancel"}, mem[t].live, disk' = disk, restarts' = restarts
          PROVE  Result
      <3> DEFINE q == [mem[t] EXCEPT !.state = s, !.rev = @ + 1]
      <3>1. /\ t \in Tasks /\ mem[t] # Null /\ mem[t] \in Task /\ saving[c] = Null /\ Put(c, t, q)
            /\ mem[t].state \notin Terminal
        BY <1>0, <2>0, <2>1 DEF Intend
      <3>2. Keeps(mem[t], q) /\ q.state = s
        <4>1. s \in States \ Terminal /\ s \in Intents
          BY DEF States, Terminal, Intents
        <4>2. Keeps(mem[t], q)
          BY <2>1, <3>1, <4>1, RecordSteps
        <4>3. q.state = s
          BY <3>1 DEF Task
        <4> QED BY <4>2, <4>3
      <3> HIDE DEF q
      <3>3. Backed(t, q)
        BY <3>2 DEF Backed
      <3> QED BY <1>0, <2>1, <3>1, <3>2, <3>3 DEF Written, Keeps
    <2>2. CASE PauseMark(c)
      BY <2>1, <2>2 DEF PauseMark, CanPause, Quiet
    <2>3. CASE CancelMark(c)
      BY <2>1, <2>3 DEF CancelMark, Quiet
    <2>4. CASE CancelStopped(c)
      <3>1. /\ t \in Tasks /\ mem[t] # Null /\ mem[t] \in Task /\ saving[c] = Null
            /\ disk' = disk /\ restarts' = restarts
        BY <1>0, <2>0, <2>4 DEF CancelStopped
      <3>2. CASE mem[t].state \notin Terminal
        <4>1. Put(c, t, FinishedRecord(mem[t], "cancelled"))
          BY <2>4, <3>2 DEF CancelStopped
        <4>2. Keeps(mem[t], FinishedRecord(mem[t], "cancelled")) /\ ~FinishedRecord(mem[t], "cancelled").live
          BY <3>1, <3>2, RecordSteps DEF Terminal
        <4> QED BY <1>0, <1>4, <3>1, <4>1, <4>2
      <3>3. CASE mem[t].state \in Terminal
        BY <2>4, <3>3 DEF CancelStopped, Quiet
      <3> QED BY <3>2, <3>3
    <2>5. CASE Fire(c) \/ CallReturns(c)
      BY <2>5 DEF Fire, CallReturns, Quiet
    <2> QED BY <1>6, <2>2, <2>3, <2>4, <2>5 DEF ControlStep
  <1>7. ASSUME NEW t \in Tasks, NEW a \in Attempts, NEW d \in {"yes", "no"}, Decide(t, a, d) PROVE Result
    <2> DEFINE q == [mem[t] EXCEPT !.rev = @ + 1]
    <2>1. CASE d = "yes"
      <3>1. /\ mem[t] # Null /\ mem[t].state = "awaiting_acceptance" /\ restarts' = restarts
            /\ mem' = [mem EXCEPT ![t] = q] /\ saving' = saving /\ disk' = Upsert(t, Stored(q))
        BY <1>7, <2>1 DEF Decide
      <3>2. mem[t].live
        BY <3>1 DEF TasksIInv, StatesAgree, Terminal
      <3> HIDE DEF q
      <3>3. /\ q \in Task /\ q.rev = mem[t].rev + 1 /\ mem[t].rev \in Nat /\ q.state = mem[t].state
            /\ q.persisted = mem[t].persisted /\ q.usable = mem[t].usable /\ q.live
            /\ disk' = [disk EXCEPT ![t] = Stored(q)]
        BY <1>b, <3>1, <3>2 DEF q
      <3>4. /\ Stored(q) \in Row /\ Stored(q).rev = q.rev /\ Stored(q).usable = q.usable /\ Stored(q).state = q.state
        BY <3>3, RecordSteps
      <3>5. Keeps(mem[t], q) /\ Backed(t, q)
        BY <3>1, <3>3 DEF Keeps, Backed, Terminal, Intents
      <3>6. /\ Stored(q).state \notin Terminal /\ mem[t].rev < Stored(q).rev /\ Stored(q).rev <= q.rev
            /\ Stored(q).usable = q.usable
        BY <3>1, <3>3, <3>4 DEF Terminal
      <3>7. Noted(t, q)
        BY <3>1, <3>3, <3>4, <3>5, <3>6 DEF Noted
      <3> QED BY <3>1, <3>3, <3>7
    <2>2. CASE d = "no"
      BY <1>7, <2>2 DEF Decide, Quiet
    <2> QED BY <2>1, <2>2
  <1>8. ASSUME NEW a \in Attempts, Progress(a) PROVE Result
    <2>1. CASE Prepare(a)
      <3>1. At(a, "connecting") /\ disk' = disk /\ restarts' = restarts /\ Active(a)
        BY <2>1 DEF Prepare, At, Active
      <3> DEFINE t == worker[a].task
      <3>2. mem[t] \in Task /\ (Accepts(t, a) => mem[t].state \in States \ Terminal)
        BY <1>1, <3>1 DEF Task
      <3> QED BY <2>1, <3>1, <3>2, <1>2 DEF Prepare, Persistent, At
    <2>2. CASE OfferSent(a)
      <3>1. Active(a) /\ disk' = disk /\ restarts' = restarts /\ Transient(a, "awaiting_acceptance")
        BY <2>2 DEF OfferSent, At, Active
      <3> QED BY <3>1, <1>3 DEF States, Terminal
    <2>3. CASE OfferReceived(a)
      <3>1. At(a, "connecting") /\ disk' = disk /\ restarts' = restarts /\ Active(a)
        BY <2>3 DEF OfferReceived, At, Active
      <3>2. PICK s \in {"recovering", "awaiting_acceptance"} : Persistent(a, s, TRUE)
        BY <2>3 DEF OfferReceived
      <3> QED BY <3>1, <3>2, <1>2 DEF Persistent, At, States, Terminal
    <2>4. CASE Begin(a)
      <3> DEFINE t == worker[a].task
                 b == [mem[t] EXCEPT !.rev = @ + 1]
                 q == Updated(b, "transferring")
      <3>1. Active(a) /\ worker[a].pc = "offered" /\ Accepts(t, a) /\ mem[t].state \notin Intents
        BY <2>4 DEF Begin, At, Active
      <3>2. /\ t \in Tasks /\ mem[t] \in Task /\ mem[t] # Null /\ mem[t].live /\ mem[t].state \notin Terminal
            /\ mem[t].usable
        BY <1>1, <3>1
      <3>3. /\ disk' = Upsert(t, Stored(b)) /\ mem' = [mem EXCEPT ![t] = q] /\ saving' = saving
            /\ restarts' = restarts
        BY <2>4 DEF Begin
      <3> HIDE DEF b, t
      <3>4. /\ b \in Task /\ b.rev = mem[t].rev + 1 /\ mem[t].rev \in Nat /\ b.state = mem[t].state
            /\ b.persisted = mem[t].persisted /\ b.usable = mem[t].usable /\ b.live
            /\ disk' = [disk EXCEPT ![t] = Stored(b)]
        BY <1>b, <3>2, <3>3 DEF b
      <3>5. /\ Stored(b) \in Row /\ Stored(b).rev = b.rev /\ Stored(b).usable = b.usable /\ Stored(b).state = b.state
            /\ Stored(b) # Null
        BY <3>4, RecordSteps
      <3>6. Keeps(b, q) /\ q.live
        BY <3>2, <3>4, RecordSteps DEF States, Terminal
      <3>7. q.rev = b.rev + 1 /\ q.usable = b.usable
        BY <3>2, <3>4, RecordSteps DEF States, Terminal
      <3> HIDE DEF q
      <3>8. Keeps(mem[t], q)
        BY <3>1, <3>2, <3>4, <3>6, <3>7 DEF Keeps, t
      <3>9. Backed(t, q)
        <4>1. disk'[t] = Stored(b)
          BY <3>2, <3>4 DEF TasksIInv, TypeOK
        <4> QED BY <3>2, <3>4, <3>5, <4>1 DEF Backed
      <3>10. q \in Task /\ q.rev # Stored(b).rev /\ Stored(b).rev <= q.rev /\ mem[t].rev < Stored(b).rev
             /\ Stored(b).usable = q.usable
        BY <3>4, <3>5, <3>6, <3>7 DEF Keeps
      <3>11. Noted(t, q)
        BY <3>2, <3>3, <3>4, <3>5, <3>6, <3>8, <3>9, <3>10 DEF Noted
      <3> QED BY <3>2, <3>3, <3>10, <3>11
    <2>5. CASE Checkpoint(a)
      <3>1. At(a, "sending") /\ disk' = disk /\ restarts' = restarts /\ Active(a)
        BY <2>5 DEF Checkpoint, At, Active
      <3> DEFINE t == worker[a].task
      <3>2. mem[t] \in Task /\ (Accepts(t, a) => mem[t].state \in States \ Terminal)
        BY <1>1, <3>1 DEF Task
      <3> QED BY <2>5, <3>1, <3>2, <1>2 DEF Checkpoint, Persistent, At
    <2>6. CASE Verify(a)
      <3>1. Active(a) /\ disk' = disk /\ restarts' = restarts /\ Transient(a, "verifying") /\ worker[a].pc = "sending"
        BY <2>6 DEF Verify, At, Active
      <3> QED BY <3>1, <1>3 DEF States, Terminal
    <2>7. CASE Confirm(a)
      <3>1. At(a, "verifying") /\ disk' = disk /\ restarts' = restarts /\ Active(a)
        BY <2>7 DEF Confirm, At, Active
      <3> DEFINE t == worker[a].task
      <3>2. mem[t] \in Task /\ (Accepts(t, a) => mem[t].state \in States \ Terminal)
        BY <1>1, <3>1 DEF Task
      <3> QED BY <2>7, <3>1, <3>2, <1>2 DEF Confirm, Persistent, At
    <2>8. CASE \E cause \in Causes : Fail(a, cause)
      BY <2>8 DEF Fail, Quiet
    <2> QED BY <1>8, <2>1, <2>2, <2>3, <2>4, <2>5, <2>6, <2>7, <2>8 DEF Progress
  <1>9. ASSUME NEW a \in Attempts, EndStep(a) PROVE Result
    <2> DEFINE t == worker[a].task
    <2>1. CASE FinishCompleted(a)
      <3>1. Active(a) /\ saving[a] = Null /\ disk' = disk /\ restarts' = restarts
        BY <2>1 DEF FinishCompleted, At, Active
      <3>2. CASE Accepts(t, a) /\ mem[t].state \notin {"pause_requested", "shutdown_requested"}
        <4>1. Put(a, t, FinishedRecord(mem[t], "completed"))
          BY <2>1, <3>2 DEF FinishCompleted
        <4>2. mem[t] \in Task /\ mem[t].state \notin Terminal /\ t \in Tasks /\ mem[t] # Null
          BY <1>1, <3>1, <3>2
        <4>3. Keeps(mem[t], FinishedRecord(mem[t], "completed")) /\ ~FinishedRecord(mem[t], "completed").live
          BY <3>2, <4>2, RecordSteps DEF Terminal, Intents
        <4> QED BY <1>0, <1>4, <3>1, <4>1, <4>2, <4>3
      <3>3. CASE ~(Accepts(t, a) /\ mem[t].state \notin {"pause_requested", "shutdown_requested"})
        BY <2>1, <3>1, <3>3 DEF FinishCompleted, Quiet
      <3> QED BY <3>2, <3>3
    <2>2. CASE Conclude(a)
      <3>1. Active(a) /\ saving[a] = Null /\ disk' = disk /\ restarts' = restarts
        BY <2>2 DEF Conclude, Active, TasksIInv, SaversAgree, WritesAt
      <3>2. CASE Accepts(t, a)
        <4>1. mem[t] \in Task /\ mem[t].state \notin Terminal /\ t \in Tasks /\ mem[t] # Null
          BY <1>1, <3>1, <3>2
        <4>2. worker[a].pc = "finish" => worker[a].cause \in {"cancelled", "rejected", "failed"}
          BY <3>1 DEF TasksIInv, WorkersAgree
        <4>3. PICK q : Put(a, t, q) /\ q \in {PausedRecord(mem[t]), RecoveringRecord(mem[t])}
                                              \cup {FinishedRecord(mem[t], s) : s \in {"cancelled", "rejected", "failed"}}
          BY <2>2, <3>2, <4>2 DEF Conclude
        <4>4. Keeps(mem[t], q) /\ ~q.live
          <5>1. CASE q = PausedRecord(mem[t])
            BY <4>1, <5>1, RecordSteps
          <5>2. CASE q = RecoveringRecord(mem[t])
            BY <4>1, <5>2, RecordSteps
          <5>3. ASSUME NEW s \in {"cancelled", "rejected", "failed"}, q = FinishedRecord(mem[t], s)
                PROVE  Keeps(mem[t], q) /\ ~q.live
            <6>1. s \in Terminal /\ s # "completed"
              BY <5>3 DEF Terminal
            <6> QED BY <4>1, <5>3, <6>1, RecordSteps
          <5> QED BY <4>3, <5>1, <5>2, <5>3
        <4> QED BY <1>0, <1>4, <3>1, <4>1, <4>3, <4>4
      <3>3. CASE ~Accepts(t, a)
        BY <2>2, <3>1, <3>3 DEF Conclude, Quiet
      <3> QED BY <3>2, <3>3
    <2>3. CASE Verdict(a) \/ Return(a)
      BY <2>3 DEF Verdict, Return, Quiet
    <2> QED BY <1>9, <2>1, <2>2, <2>3 DEF EndStep
  <1>10. ASSUME NEW a \in Attempts, Opened(a) PROVE Result
    <2>1. Active(a) /\ At(a, "opening") /\ disk' = disk /\ restarts' = restarts /\ Persistent(a, "preparing", FALSE)
      BY <1>10 DEF Opened, At, Active
    <2> QED BY <2>1, <1>2 DEF Persistent, At, States, Terminal
  <1>11. ASSUME NEW t \in Tasks, NEW a \in Attempts, NEW via \in Routes, Incoming(via, t, a) PROVE Result
    <2> DEFINE q == NewTask("receive", a)
    <2>1. q \in Task /\ q.live /\ q.state = "preparing"
      BY <1>0 DEF NewTask, Task, States
    <2>2. mem[t] = Null /\ worker[a] = Null /\ Put(a, t, q) /\ disk' = disk /\ restarts' = restarts
      BY <1>11 DEF Incoming, Fresh
    <2>3. saving[a] = Null
      BY <2>2 DEF TasksIInv, SaversAgree, WritesAt
    <2> HIDE DEF q
    <2> QED BY <1>0, <2>1, <2>2, <2>3 DEF Written, Backed
  <1>12. CASE ExitMark
    <2>1. CASE hasActive
      <3>1. PICK t \in Tasks :
              /\ Live(t)
              /\ LET r == IF mem[t].state \in {"cancel_requested", "pause_requested"} THEN mem[t]
                          ELSE [mem[t] EXCEPT !.state = "shutdown_requested", !.rev = @ + 1]
                 IN Put(Exit, t, r)
        BY <1>12, <2>1 DEF ExitMark
      <3>2. /\ mem[t] # Null /\ mem[t] \in Task /\ mem[t].live /\ mem[t].state \notin Terminal
            /\ disk' = disk /\ restarts' = restarts /\ saving[Exit] = Null
        BY <1>0, <1>12, <3>1 DEF ExitMark, Live, TasksIInv, SaversAgree, WritesAt
      <3>3. CASE Put(Exit, t, mem[t])
        <4>1. Backed(t, mem[t])
          BY <3>2 DEF Backed, TasksIInv, HistoryAgrees
        <4> QED BY <1>0, <3>2, <3>3, <4>1 DEF Written
      <3>4. CASE Put(Exit, t, [mem[t] EXCEPT !.state = "shutdown_requested", !.rev = @ + 1])
        <4> DEFINE q == [mem[t] EXCEPT !.state = "shutdown_requested", !.rev = @ + 1]
        <4>1. "shutdown_requested" \in States \ Terminal /\ "shutdown_requested" \in Intents
          BY DEF States, Terminal, Intents
        <4>2. Keeps(mem[t], q)
          BY <3>2, <4>1, RecordSteps
        <4>3. q.state = "shutdown_requested"
          BY <3>2 DEF Task
        <4>4. Put(Exit, t, q)
          BY <3>4
        <4> HIDE DEF q
        <4>5. Backed(t, q)
          BY <4>3 DEF Backed
        <4> QED BY <1>0, <3>2, <4>2, <4>4, <4>5 DEF Written, Keeps
      <3> QED BY <3>1, <3>3, <3>4
    <2>2. CASE ~hasActive
      BY <1>12, <2>2 DEF ExitMark, Quiet
    <2> QED BY <2>1, <2>2
  <1>13. CASE InboxExit \/ StartInbox \/ ExitCall \/ ExitSaved \/ ExitInbox \/ Closed
    BY <1>13 DEF InboxExit, StartInbox, ExitCall, ExitSaved, ExitInbox, Closed, Quiet
  <1>14. ASSUME NEW c \in Callers,
                \/ \E dir \in Calls \cap {"send", "receive"} : SendCall(c, dir)
                \/ \E t \in Tasks : ResumeCall(c, t) \/ \E op \in Calls \cap {"pause", "cancel"} : ControlCall(c, op, t)
         PROVE  Result
    BY <1>14 DEF SendCall, ResumeCall, ControlCall, Quiet
  <1> HIDE DEF Result
  <1>15. CASE Restart \/ \E x \in Actors : Save(x)
    BY <1>15 DEF Save
  <1> QED BY <1>5, <1>6, <1>7, <1>8, <1>9, <1>10, <1>11, <1>12, <1>13, <1>14, <1>15 DEF Next, ExitStep, Result

\* Records and rows after any step.
LEMMA HistoryStep ==
  ASSUME TasksIInv, Recorded \/ (\E x \in Actors : Save(x)) \/ Restart
  PROVE  /\ mem' \in [Tasks -> Task \cup {Null}]
         /\ disk' \in [Tasks -> Row \cup {Null}]
         /\ saving' \in [Actors -> SavedRow \cup {Null}]
         /\ StatesAgree' /\ HistoryAgrees' /\ (~Restart => Kept)
  <1>0. /\ mem \in [Tasks -> Task \cup {Null}] /\ disk \in [Tasks -> Row \cup {Null}]
        /\ saving \in [Actors -> SavedRow \cup {Null}]
        /\ Null \notin Task \cup Row \cup SavedRow
    BY NullAssumption DEF TasksIInv, TypeOK
  <1>1. /\ StatesAgree /\ HistoryAgrees
        /\ \A t \in Tasks : \A p \in Copies[t] : p \in Row /\ p.rev \in Nat
        /\ \A t \in Tasks : mem[t] # Null => mem[t] \in Task /\ mem[t].rev \in Nat
    BY <1>0 DEF TasksIInv, Copies, Writers, SavedRow, Row, Task
  <1>2. ASSUME NEW t \in Tasks, NEW q \in Task, mem' = [mem EXCEPT ![t] = q],
               NEW p, Copies'[t] \subseteq Copies[t] \cup {p}, \A u \in Tasks : u # t => Copies'[u] = Copies[u],
               \A u \in Tasks : u # t => disk'[u] = disk[u],
               p \in Row, p.rev <= q.rev, p.usable => q.usable,
               p.rev = q.rev \/ p.state \in Terminal => p = Stored(q),
               \/ mem[t] = Null
               \/ mem[t] # Null /\ Keeps(mem[t], q) /\ (mem[t].usable => p.usable) /\ mem[t].rev < p.rev
               \/ q = mem[t] /\ p = Stored(q),
               ~q.live => Stored(q) \in Copies'[t], q.live => q.state \notin Terminal,
               Backed(t, q)
        PROVE  HistoryAgrees'
    <2> SUFFICES ASSUME NEW u \in Tasks
                 PROVE  /\ \A p1 \in Copies'[u] :
                             /\ mem'[u] # Null
                             /\ p1.rev <= mem'[u].rev /\ (p1.usable => mem'[u].usable)
                             /\ p1.rev = mem'[u].rev \/ p1.state \in Terminal => p1 = Stored(mem'[u])
                             /\ \A q1 \in Copies'[u] : p1.rev <= q1.rev /\ p1.usable => q1.usable
                        /\ mem'[u] # Null /\ mem'[u].persisted /\ ~mem'[u].live => Stored(mem'[u]) \in Copies'[u]
                        /\ mem'[u] # Null /\ mem'[u].state \in {"transferring", "verifying"} =>
                             disk'[u] # Null /\ disk'[u].usable
      BY DEF HistoryAgrees, Terminal, Stored
    <2>1. CASE u # t
      BY <1>0, <1>1, <1>2, <2>1 DEF HistoryAgrees
    <2>2. CASE u = t
      <3>1. mem'[t] = q /\ q # Null
        BY <1>0, <1>2
      <3>2. \A p1 \in Copies[t] :
                                 /\ p1 \in Row /\ p1.rev \in Nat /\ mem[t] # Null
                                 /\ p1.rev <= mem[t].rev /\ (p1.usable => mem[t].usable)
                                 /\ p1.rev = mem[t].rev \/ p1.state \in Terminal => p1 = Stored(mem[t])
                                 /\ \A q1 \in Copies[t] : p1.rev <= q1.rev /\ p1.usable => q1.usable
        BY <1>1 DEF HistoryAgrees
      <3>3. \A p1 \in Copies[t] :
                                 /\ p1.rev <= q.rev /\ (p1.usable => q.usable)
                                 /\ (p1.rev = q.rev \/ p1.state \in Terminal => p1 = Stored(q))
                                 /\ p1.rev <= p.rev /\ (p1.usable => p.usable)
                                 /\ (p.rev <= p1.rev /\ p.usable => p1.usable)
        <4> TAKE p1 \in Copies[t]
        <4>0. /\ p1 \in Row /\ p1.rev \in Nat /\ mem[t] # Null /\ mem[t] \in Task /\ mem[t].rev \in Nat
              /\ p1.rev <= mem[t].rev /\ (p1.usable => mem[t].usable)
              /\ p1.rev = mem[t].rev \/ p1.state \in Terminal => p1 = Stored(mem[t])
          BY <1>1, <3>2
        <4>1. CASE Keeps(mem[t], q) /\ (mem[t].usable => p.usable) /\ mem[t].rev < p.rev
          <5>1. mem[t].rev < q.rev /\ (mem[t].usable => q.usable) /\ q.rev \in Nat
                /\ mem[t].state \notin Terminal /\ p.rev \in Nat
            BY <1>2, <4>1 DEF Keeps, Task, Row
          <5>2. p1.state \notin Terminal
            BY <4>0, <5>1 DEF Stored
          <5>3. p1.rev < q.rev /\ p1.rev < p.rev
            BY <4>0, <4>1, <5>1
          <5> QED BY <4>0, <4>1, <5>1, <5>2, <5>3
        <4>2. CASE q = mem[t] /\ p = Stored(q)
          <5>1. p.rev = mem[t].rev /\ p.usable = mem[t].usable
            BY <4>2 DEF Stored
          <5>2. p.rev <= p1.rev => p1 = p
            BY <4>0, <4>2, <5>1
          <5> QED BY <4>0, <4>2, <5>1, <5>2
        <4> QED BY <1>2, <4>0, <4>1, <4>2
      <3>4. \A p1 \in Copies'[t] : p1 = p \/ p1 \in Copies[t]
        BY <1>2
      <3> QED BY <1>2, <2>2, <3>1, <3>2, <3>3, <3>4 DEF Backed
    <2> QED BY <2>1, <2>2
  <1>3. ASSUME Quiet
        PROVE  /\ mem' \in [Tasks -> Task \cup {Null}] /\ disk' \in [Tasks -> Row \cup {Null}]
               /\ saving' \in [Actors -> SavedRow \cup {Null}] /\ StatesAgree' /\ HistoryAgrees'
    <2>1. mem' = mem /\ disk' = disk /\ Copies' = Copies
      BY <1>3 DEF Quiet, Copies, Writers
    <2>2. StatesAgree'
      BY <1>1, <2>1 DEF StatesAgree
    <2>3. HistoryAgrees'
      BY <1>1, <2>1 DEF HistoryAgrees, Stored
    <2> QED BY <1>0, <1>3, <2>2, <2>3 DEF Quiet
  <1>4. ASSUME NEW x \in Actors, NEW t \in Tasks, NEW q \in Task, Written(x, t, q)
        PROVE  /\ mem' \in [Tasks -> Task \cup {Null}] /\ disk' \in [Tasks -> Row \cup {Null}]
               /\ saving' \in [Actors -> SavedRow \cup {Null}] /\ StatesAgree' /\ HistoryAgrees'
    <2>1. Stored(q) \in Row /\ Stored(q) # Null /\ Stored(q).rev = q.rev /\ Stored(q).usable = q.usable /\ Stored(q).state = q.state
      BY RecordSteps
    <2>2. /\ mem' = [mem EXCEPT ![t] = q] /\ saving' = [saving EXCEPT ![x] = [task |-> t, row |-> Stored(q)]]
          /\ disk' = disk /\ saving[x] = Null
      BY <1>4 DEF Written, Put
    <2>3. [task |-> t, row |-> Stored(q)] \in SavedRow
      BY <2>1 DEF SavedRow
    <2>4. /\ Copies'[t] \subseteq Copies[t] \cup {Stored(q)} /\ Stored(q) \in Copies'[t]
          /\ \A u \in Tasks : u # t => Copies'[u] = Copies[u]
      BY <1>0, <2>1, <2>2, <2>3 DEF Copies, Writers
    <2>5. HistoryAgrees'
      <3>1. q.live => q.state \notin Terminal
        BY <1>4 DEF Written, Keeps, Terminal
      <3>2. Backed(t, q) /\ (mem[t] # Null => Keeps(mem[t], q) \/ q = mem[t])
        BY <1>4 DEF Written
      <3>3. Keeps(mem[t], q) /\ mem[t] # Null => (mem[t].usable => Stored(q).usable) /\ mem[t].rev < Stored(q).rev
        BY <2>1 DEF Keeps
      <3>4. q.rev \in Nat /\ Stored(q).rev <= q.rev
        BY <2>1 DEF Task
      <3> QED BY <1>2, <2>1, <2>2, <2>4, <3>1, <3>2, <3>3, <3>4
    <2>6. StatesAgree'
      BY <1>0, <1>1, <1>4, <2>2 DEF StatesAgree, Written, Keeps, Terminal
    <2>7. /\ mem' \in [Tasks -> Task \cup {Null}] /\ disk' \in [Tasks -> Row \cup {Null}]
          /\ saving' \in [Actors -> SavedRow \cup {Null}]
      BY <1>0, <2>2, <2>3
    <2> QED BY <2>5, <2>6, <2>7
  <1>5. ASSUME NEW t \in Tasks, NEW q \in Task, Noted(t, q)
        PROVE  /\ mem' \in [Tasks -> Task \cup {Null}] /\ disk' \in [Tasks -> Row \cup {Null}]
               /\ saving' \in [Actors -> SavedRow \cup {Null}] /\ StatesAgree' /\ HistoryAgrees'
    <2>1. PICK p \in Row :
            \/ disk' = disk /\ p = Stored(q)
            \/ /\ disk' = [disk EXCEPT ![t] = p]
               /\ mem[t].rev < p.rev /\ p.rev <= q.rev /\ (p.rev = q.rev => p = Stored(q))
               /\ p.usable = q.usable /\ p.state \notin Terminal
      BY <1>5, RecordSteps DEF Noted
    <2>2. /\ mem' = [mem EXCEPT ![t] = q] /\ saving' = saving /\ mem[t] # Null /\ Keeps(mem[t], q) /\ q.live
          /\ q.state \notin Terminal /\ Backed(t, q)
      BY <1>5 DEF Noted, Keeps
    <2>3. Stored(q) \in Row /\ Stored(q).rev = q.rev /\ Stored(q).usable = q.usable
      BY RecordSteps
    <2>4. /\ Copies'[t] \subseteq Copies[t] \cup {p}
          /\ \A u \in Tasks : u # t => Copies'[u] = Copies[u] /\ disk'[u] = disk[u]
      BY <1>0, <2>1, <2>2 DEF Copies, Writers
    <2>5. HistoryAgrees'
      <3>1. /\ p.rev <= q.rev /\ (p.usable => q.usable) /\ (p.rev = q.rev \/ p.state \in Terminal => p = Stored(q))
            /\ (mem[t].usable => p.usable) /\ mem[t].rev < p.rev
        BY <2>1, <2>2, <2>3 DEF Keeps, Task
      <3> QED BY <1>2, <2>2, <2>4, <3>1
    <2>6. StatesAgree'
      BY <1>0, <1>1, <2>2 DEF StatesAgree
    <2>7. /\ mem' \in [Tasks -> Task \cup {Null}] /\ disk' \in [Tasks -> Row \cup {Null}]
          /\ saving' \in [Actors -> SavedRow \cup {Null}]
      BY <1>0, <2>1, <2>2
    <2> QED BY <2>5, <2>6, <2>7
  <1>6. ASSUME NEW x \in Actors, Save(x)
        PROVE  /\ mem' \in [Tasks -> Task \cup {Null}] /\ disk' \in [Tasks -> Row \cup {Null}]
               /\ saving' \in [Actors -> SavedRow \cup {Null}] /\ StatesAgree' /\ HistoryAgrees'
    <2> DEFINE t == saving[x].task
               row == saving[x].row
    <2>1. /\ t \in Tasks /\ row \in Row /\ row # Null /\ row \in Copies[t] /\ saving' = [saving EXCEPT ![x] = Null]
          /\ mem[t] # Null /\ mem[t] \in Task /\ row.rev \in Nat
      <3>1. saving[x] # Null /\ saving[x] \in SavedRow /\ saving' = [saving EXCEPT ![x] = Null]
        BY <1>0, <1>6 DEF Save
      <3>2. t \in Tasks /\ row \in Row /\ row # Null /\ row \in Copies[t]
        BY <1>0, <3>1 DEF SavedRow, Copies, Writers
      <3> QED BY <1>1, <3>1, <3>2 DEF HistoryAgrees
    <2> DEFINE W == [u \in Tasks |-> Writers(u)]
    <2>4. /\ W'[t] = W[t] \ {x} /\ x \in W[t] /\ \A u \in Tasks : u # t => W'[u] = W[u] /\ x \notin W[u]
          /\ \A u \in Tasks : \A y \in W'[u] : saving'[y] = saving[y]
      <3>1. saving[x] # Null /\ \A y \in Actors : saving'[y] = IF y = x THEN Null ELSE saving[y]
        BY <1>0, <1>6, <2>1 DEF Save
      <3> QED BY <2>1, <3>1 DEF Writers
    <2>5. Copies = [u \in Tasks |-> ({disk[u]} \cup {saving[y].row : y \in W[u]}) \ {Null}]
      BY DEF Copies
    <2>6. Copies' = [u \in Tasks |-> ({disk'[u]} \cup {saving'[y].row : y \in W'[u]}) \ {Null}]
      BY DEF Copies
    <2> HIDE DEF W
    <2>2. CASE disk' = Upsert(t, row) /\ mem' = mem
      <3>1. disk' = disk \/ disk' = [disk EXCEPT ![t] = row]
        BY <2>2 DEF Upsert
      <3>2. /\ Copies'[t] \subseteq Copies[t] /\ \A u \in Tasks : u # t => Copies'[u] = Copies[u] /\ disk'[u] = disk[u]
        <4>1. disk'[t] \in {disk[t], row} /\ \A u \in Tasks : u # t => disk'[u] = disk[u]
          BY <1>0, <2>1, <3>1
        <4> QED BY <2>1, <2>4, <2>5, <2>6, <4>1
      <3>3. /\ Stored(mem[t]) \in Copies[t] => Stored(mem[t]) \in Copies'[t]
            /\ disk[t] # Null /\ disk[t].usable => disk'[t] # Null /\ disk'[t].usable
        <4>1. /\ row.rev <= mem[t].rev /\ (row.rev = mem[t].rev => row = Stored(mem[t])) /\ mem[t].rev \in Nat
              /\ disk[t] # Null =>
                   /\ disk[t].rev \in Nat /\ disk[t].rev <= mem[t].rev
                   /\ disk[t].rev = mem[t].rev => disk[t] = Stored(mem[t])
                   /\ disk[t].rev <= row.rev /\ disk[t].usable => row.usable
          BY <1>1, <2>1 DEF HistoryAgrees, Copies
        <4>2. disk'[t] = IF disk[t] = Null \/ row.rev > disk[t].rev THEN row ELSE disk[t]
          BY <1>0, <2>1, <2>2 DEF Upsert
        <4>3. Stored(mem[t]) # Null /\ Stored(mem[t]).rev = mem[t].rev
          BY <2>1, RecordSteps
        <4> HIDE DEF row
        <4>4. disk[t] # Null /\ disk[t].usable => disk'[t] # Null /\ disk'[t].usable
          BY <2>1, <4>1, <4>2
        <4>5. CASE Stored(mem[t]) = disk[t] \/ Stored(mem[t]) = row
          <5>1. disk'[t] = Stored(mem[t])
            BY <2>1, <4>1, <4>2, <4>3, <4>5
          <5> QED BY <2>1, <2>6, <4>3, <4>4, <5>1
        <4>6. CASE \E y \in W[t] \ {x} : Stored(mem[t]) = saving[y].row
          <5>1. \E y \in W'[t] : Stored(mem[t]) = saving'[y].row
            BY <2>1, <2>4, <4>6
          <5> QED BY <2>1, <2>6, <4>3, <4>4, <5>1
        <4> QED BY <2>1, <2>5, <4>4, <4>5, <4>6 DEF row
      <3>5. HistoryAgrees'
        <4> SUFFICES ASSUME NEW u \in Tasks
                     PROVE  /\ \A p1 \in Copies'[u] :
                                 /\ mem[u] # Null
                                 /\ p1.rev <= mem[u].rev /\ (p1.usable => mem[u].usable)
                                 /\ p1.rev = mem[u].rev \/ p1.state \in Terminal => p1 = Stored(mem[u])
                                 /\ \A q1 \in Copies'[u] : p1.rev <= q1.rev /\ p1.usable => q1.usable
                            /\ mem[u] # Null /\ mem[u].persisted /\ ~mem[u].live => Stored(mem[u]) \in Copies'[u]
                            /\ mem[u] # Null /\ mem[u].state \in {"transferring", "verifying"} =>
                                 disk'[u] # Null /\ disk'[u].usable
          BY <2>2 DEF HistoryAgrees, Terminal, Stored
        <4>1. Copies'[u] \subseteq Copies[u]
          BY <3>2
        <4>2. /\ Stored(mem[u]) \in Copies[u] => Stored(mem[u]) \in Copies'[u]
              /\ disk[u] # Null /\ disk[u].usable => disk'[u] # Null /\ disk'[u].usable
          BY <3>2, <3>3
        <4> QED BY <1>1, <4>1, <4>2 DEF HistoryAgrees
      <3>6. StatesAgree'
        BY <1>1, <2>2 DEF StatesAgree
      <3> QED BY <1>0, <2>1, <2>2, <3>1, <3>5, <3>6
    <2>3. CASE disk' = disk /\ mem' = [mem EXCEPT ![t].persisted = FALSE]
      <3> DEFINE q == [mem[t] EXCEPT !.persisted = FALSE]
      <3>1. /\ q \in Task /\ q # Null /\ ~q.persisted /\ q.state = mem[t].state /\ q.live = mem[t].live
            /\ q.rev = mem[t].rev /\ q.usable = mem[t].usable /\ Stored(q) = Stored(mem[t])
        BY <1>0, <2>1 DEF Task, Stored
      <3>2. mem' = [mem EXCEPT ![t] = q]
        BY <2>3
      <3> HIDE DEF q, row
      <3>3. \A u \in Tasks : Copies'[u] \subseteq Copies[u] /\ (u # t => Copies'[u] = Copies[u])
        BY <2>1, <2>3, <2>4, <2>5, <2>6
      <3>4. HistoryAgrees'
        <4> SUFFICES ASSUME NEW u \in Tasks
                     PROVE  /\ \A p1 \in Copies'[u] :
                                 /\ mem'[u] # Null
                                 /\ p1.rev <= mem'[u].rev /\ (p1.usable => mem'[u].usable)
                                 /\ p1.rev = mem'[u].rev \/ p1.state \in Terminal => p1 = Stored(mem'[u])
                                 /\ \A q1 \in Copies'[u] : p1.rev <= q1.rev /\ p1.usable => q1.usable
                            /\ mem'[u] # Null /\ mem'[u].persisted /\ ~mem'[u].live => Stored(mem'[u]) \in Copies'[u]
                            /\ mem'[u] # Null /\ mem'[u].state \in {"transferring", "verifying"} =>
                                 disk'[u] # Null /\ disk'[u].usable
          BY DEF HistoryAgrees, Terminal, Stored
        <4>1. CASE u # t
          <5>1. mem'[u] = mem[u] /\ Copies'[u] = Copies[u] /\ disk'[u] = disk[u]
            BY <1>0, <2>3, <3>2, <3>3, <4>1
          <5> QED BY <1>1, <5>1 DEF HistoryAgrees
        <4>2. CASE u = t
          <5>1. mem'[u] = q /\ Copies'[u] \subseteq Copies[u] /\ disk'[u] = disk[u]
            BY <1>0, <2>3, <3>2, <3>3, <4>2
          <5> QED BY <1>1, <2>1, <3>1, <4>2, <5>1 DEF HistoryAgrees
        <4> QED BY <4>1, <4>2
      <3>5. StatesAgree'
        BY <1>0, <1>1, <2>1, <3>1, <3>2 DEF StatesAgree
      <3> QED BY <1>0, <2>1, <2>3, <3>1, <3>2, <3>4, <3>5
    <2> QED BY <1>6, <2>2, <2>3 DEF Save
  <1>7. ASSUME Restart
        PROVE  /\ mem' \in [Tasks -> Task \cup {Null}] /\ disk' \in [Tasks -> Row \cup {Null}]
               /\ saving' \in [Actors -> SavedRow \cup {Null}] /\ StatesAgree' /\ HistoryAgrees'
    <2>1. ASSUME NEW p \in Row
          PROVE  LET q == RestoredRow(p)
                 IN  /\ q \in Row /\ q # Null /\ q.state \in Terminal \cup {"recovering"}
                     /\ q.rev \in Nat
      <3>1. CASE p.state \in Terminal
        BY <1>0, <2>1, <3>1 DEF RestoredRow, Row
      <3>2. CASE p.state \notin Terminal
        <4> DEFINE s == IF p.usable THEN "recovering" ELSE "failed"
        <4>1. s \in States /\ s \in Terminal \cup {"recovering"}
          BY DEF States, Terminal
        <4>2. RestoredRow(p) = [p EXCEPT !.state = s, !.rev = @ + 1]
          BY <3>2 DEF RestoredRow
        <4> HIDE DEF s
        <4>3. p.rev \in Nat /\ p.rev + 1 \in Nat
          BY <2>1 DEF Row
        <4>4. RestoredRow(p) \in Row
          BY <2>1, <4>1, <4>2, <4>3 DEF Row
        <4> QED BY <1>0, <2>1, <4>1, <4>2, <4>4 DEF Row
      <3> QED BY <3>1, <3>2
    <2>2. ASSUME NEW p \in Row, p.state \in Terminal \cup {"recovering"}
          PROVE  LET q == Restored(p)
                 IN  /\ q \in Task /\ q # Null /\ ~q.live /\ q.state = p.state /\ q.rev = p.rev /\ q.usable = p.usable
                     /\ Stored(q) = p
      <3>1. Restored(p) \in Task
        BY <2>2 DEF Restored, Row, Task
      <3>2. Stored(Restored(p)) = p
        BY <2>2 DEF Restored, Stored, Row
      <3> QED BY <1>0, <3>1, <3>2 DEF Restored
    <2>3. /\ \A u \in Tasks : disk'[u] = IF disk[u] = Null THEN Null ELSE RestoredRow(disk[u])
          /\ \A u \in Tasks : mem'[u] = IF disk[u] = Null THEN Null ELSE Restored(RestoredRow(disk[u]))
          /\ saving' = [x \in Actors |-> Null]
      BY <1>7 DEF Restart
    <2>4. \A u \in Tasks : Copies'[u] = {disk'[u]} \ {Null}
      BY <2>3 DEF Copies, Writers
    <2>5. ASSUME NEW u \in Tasks
          PROVE  \/ disk'[u] = Null /\ mem'[u] = Null /\ Copies'[u] = {}
                 \/ /\ disk'[u] \in Row /\ disk'[u] # Null /\ Copies'[u] = {disk'[u]} /\ disk'[u].rev \in Nat
                    /\ mem'[u] \in Task /\ mem'[u] # Null /\ ~mem'[u].live
                    /\ mem'[u].state \in Terminal \cup {"recovering"}
                    /\ mem'[u].rev = disk'[u].rev /\ mem'[u].usable = disk'[u].usable /\ Stored(mem'[u]) = disk'[u]
      <3>1. CASE disk[u] = Null
        BY <2>3, <2>4, <3>1
      <3>2. CASE disk[u] # Null
        <4> DEFINE p == RestoredRow(disk[u])
        <4>1. p \in Row /\ p # Null /\ p.state \in Terminal \cup {"recovering"} /\ p.rev \in Nat
          BY <1>0, <2>1, <3>2
        <4>2. disk'[u] = p /\ mem'[u] = Restored(p)
          BY <2>3, <3>2
        <4> HIDE DEF p
        <4> QED BY <2>2, <2>4, <4>1, <4>2
      <3> QED BY <3>1, <3>2
    <2>6. StatesAgree'
      BY <2>5 DEF StatesAgree, Terminal
    <2>7. HistoryAgrees'
      BY <2>5 DEF HistoryAgrees, Terminal
    <2>8. /\ mem' \in [Tasks -> Task \cup {Null}] /\ disk' \in [Tasks -> Row \cup {Null}]
          /\ saving' \in [Actors -> SavedRow \cup {Null}]
      <3>1. /\ mem' = [u \in Tasks |-> mem'[u]] /\ disk' = [u \in Tasks |-> disk'[u]]
        BY <1>7 DEF Restart
      <3>2. \A u \in Tasks : mem'[u] \in Task \cup {Null} /\ disk'[u] \in Row \cup {Null}
        BY <2>5
      <3> QED BY <2>3, <3>1, <3>2
    <2> QED BY <2>6, <2>7, <2>8
  <1>8. ASSUME ~Restart PROVE Kept
    <2>1. CASE Quiet
      BY <2>1 DEF Quiet, Kept
    <2>2. ASSUME NEW x \in Actors, NEW t \in Tasks, NEW q \in Task, Written(x, t, q)
          PROVE  Kept
      BY <1>0, <2>2 DEF Written, Put, Keeps, Kept
    <2>3. ASSUME NEW t \in Tasks, NEW q \in Task, Noted(t, q)
          PROVE  Kept
      <3>2. disk[t] # Null /\ disk[t].usable => mem[t].usable
        BY <1>0, <1>1 DEF HistoryAgrees, Copies
      <3>3. Keeps(mem[t], q) /\ mem[t] # Null /\ mem' = [mem EXCEPT ![t] = q] /\ q # Null
        BY <1>0, <2>3 DEF Noted
      <3>4. \A u \in Tasks : disk[u] # Null /\ disk[u].usable => disk'[u] # Null /\ disk'[u].usable
        BY <1>0, <2>3, <3>2, <3>3 DEF Noted, Keeps
      <3> QED BY <1>0, <3>3, <3>4 DEF Keeps, Kept
    <2>4. ASSUME NEW x \in Actors, Save(x)
          PROVE  Kept
      <3> DEFINE t == saving[x].task
                 row == saving[x].row
      <3>1. saving[x] \in SavedRow /\ saving[x] # Null
        BY <1>0, <2>4 DEF Save
      <3>2. t \in Tasks /\ row \in Copies[t] /\ row # Null /\ row.rev \in Nat
        BY <1>0, <3>1 DEF SavedRow, Copies, Writers, Row
      <3>3. disk[t] # Null /\ disk[t].usable /\ row.rev > disk[t].rev => row.usable
        BY <1>0, <1>1, <3>2 DEF HistoryAgrees, Copies
      <3>4. mem[t] # Null /\ mem[t] \in Task
        BY <1>0, <1>1, <3>2 DEF HistoryAgrees
      <3>5. \A u \in Tasks : disk[u] # Null /\ disk[u].usable => disk'[u] # Null /\ disk'[u].usable
        BY <1>0, <2>4, <3>2, <3>3 DEF Save, Upsert
      <3>6. mem' = mem \/ mem' = [mem EXCEPT ![t].persisted = FALSE]
        BY <2>4 DEF Save
      <3> HIDE DEF t
      <3>7. LET q == [mem[t] EXCEPT !.persisted = FALSE]
            IN  q \in Task /\ q.usable = mem[t].usable /\ q.state = mem[t].state
        BY <3>4 DEF Task
      <3> QED BY <1>0, <3>2, <3>4, <3>5, <3>6, <3>7 DEF Kept
    <2> QED BY <1>8, <2>1, <2>2, <2>3, <2>4 DEF Recorded
  <1> QED BY <1>0, <1>1, <1>3, <1>4, <1>5, <1>6, <1>7, <1>8 DEF Recorded, Quiet

\* In every behaviour the records, the rows, the workers, the calls, the
\* listener and shutdown agree.
THEOREM TasksHold == Spec => []TasksIInv
  \* What an operation does to the workers.
  <1>WorkerForms.
      ASSUME worker \in [Attempts -> Worker \cup {Null}]
      PROVE  /\ \A a \in Attempts :
                  /\ worker[a] # Null
                  /\ \/ worker' = [worker EXCEPT ![a].cancelled = TRUE]
                     \/ \E d \in {"yes", "no"} : worker' = [worker EXCEPT ![a].decision = d]
                  => worker' \in [Attempts -> Worker \cup {Null}] /\ Alike(Attempts)
             /\ worker' = CancelledWithInbox => worker' \in [Attempts -> Worker \cup {Null}] /\ Alike(Attempts)
             /\ \A a \in Attempts, pc \in Running \cup Ending \cup {"held", "opening", "rearm", "done"} :
                  worker[a] # Null /\ Goto(a, pc) =>
                    /\ worker' \in [Attempts -> Worker \cup {Null}] /\ Alike(Attempts \ {a})
                    /\ worker'[a] # Null /\ worker'[a].task = worker[a].task /\ worker'[a].pc = pc
                    /\ worker'[a].cause = worker[a].cause /\ worker'[a].via = worker[a].via
             /\ worker' = worker => worker' \in [Attempts -> Worker \cup {Null}] /\ Alike(Attempts)
    <2> USE <1>WorkerForms
    <2>0. Null \notin Worker /\ worker \in [Attempts -> Worker \cup {Null}]
      BY NullAssumption
    <2>1. \A a \in Attempts : worker[a] # Null => worker[a] \in Worker
      BY <2>0
    <2>6. ASSUME NEW w \in Worker
          PROVE  /\ LET v == [w EXCEPT !.cancelled = TRUE]
                    IN  v \in Worker /\ v.task = w.task /\ v.pc = w.pc /\ v.cause = w.cause /\ v.via = w.via
                 /\ \A d \in {"none", "yes", "no"} :
                      LET v == [w EXCEPT !.decision = d]
                      IN  v \in Worker /\ v.task = w.task /\ v.pc = w.pc /\ v.cause = w.cause /\ v.via = w.via
                 /\ \A pc \in Running \cup Ending \cup {"held", "opening", "rearm", "done"} :
                      LET v == [w EXCEPT !.pc = pc]
                      IN  v \in Worker /\ v.task = w.task /\ v.pc = pc /\ v.cause = w.cause /\ v.via = w.via
      BY DEF Worker
    <2>7. ASSUME NEW a \in Attempts, worker[a] # Null,
                 \/ worker' = [worker EXCEPT ![a].cancelled = TRUE]
                 \/ \E d \in {"yes", "no"} : worker' = [worker EXCEPT ![a].decision = d]
          PROVE  worker' \in [Attempts -> Worker \cup {Null}] /\ Alike(Attempts)
      <3>1. worker[a] \in Worker
        BY <2>1, <2>7
      <3>2. PICK v \in Worker : /\ worker' = [worker EXCEPT ![a] = v]
                                /\ v.task = worker[a].task /\ v.pc = worker[a].pc
                                /\ v.cause = worker[a].cause /\ v.via = worker[a].via
        <4>1. CASE worker' = [worker EXCEPT ![a].cancelled = TRUE]
          <5> DEFINE v == [worker[a] EXCEPT !.cancelled = TRUE]
          <5>1. worker' = [worker EXCEPT ![a] = v]
            BY <4>1
          <5>2. v \in Worker /\ v.task = worker[a].task /\ v.pc = worker[a].pc
                /\ v.cause = worker[a].cause /\ v.via = worker[a].via
            BY <2>6, <3>1
          <5> QED BY <5>1, <5>2
        <4>2. ASSUME NEW d \in {"yes", "no"}, worker' = [worker EXCEPT ![a].decision = d]
              PROVE  \E v \in Worker : /\ worker' = [worker EXCEPT ![a] = v]
                                       /\ v.task = worker[a].task /\ v.pc = worker[a].pc
                                       /\ v.cause = worker[a].cause /\ v.via = worker[a].via
          <5> DEFINE v == [worker[a] EXCEPT !.decision = d]
          <5>1. worker' = [worker EXCEPT ![a] = v]
            BY <4>2
          <5>2. v \in Worker /\ v.task = worker[a].task /\ v.pc = worker[a].pc
                /\ v.cause = worker[a].cause /\ v.via = worker[a].via
            BY <3>1, <4>2 DEF Worker
          <5> QED BY <5>1, <5>2
        <4> QED BY <2>7, <4>1, <4>2
      <3> QED BY <2>0, <2>7, <3>2 DEF Alike
    <2>8. ASSUME worker' = CancelledWithInbox
          PROVE  worker' \in [Attempts -> Worker \cup {Null}] /\ Alike(Attempts)
      <3>1. worker' = [a \in Attempts |-> worker'[a]]
        BY <2>8 DEF CancelledWithInbox
      <3>2. \A a \in Attempts : worker'[a] \in {worker[a]} \cup
              (IF worker[a] = Null THEN {} ELSE {[worker[a] EXCEPT !.cancelled = TRUE]})
        BY <2>8 DEF CancelledWithInbox
      <3>3. ASSUME NEW a \in Attempts
            PROVE  /\ worker'[a] \in Worker \cup {Null} /\ (worker'[a] = Null <=> worker[a] = Null)
                   /\ worker[a] # Null => /\ worker'[a].task = worker[a].task /\ worker'[a].pc = worker[a].pc
                                          /\ worker'[a].cause = worker[a].cause /\ worker'[a].via = worker[a].via
        <4>1. CASE worker[a] = Null
          BY <3>2, <4>1
        <4>2. CASE worker[a] # Null
          <5>1. worker[a] \in Worker
            BY <2>1, <4>2
          <5>2. worker'[a] = worker[a] \/ worker'[a] = [worker[a] EXCEPT !.cancelled = TRUE]
            BY <3>2, <4>2
          <5> QED BY <2>0, <2>6, <5>1, <5>2, <4>2
        <4> QED BY <4>1, <4>2
      <3>4. worker' \in [Attempts -> Worker \cup {Null}]
        BY <3>1, <3>3
      <3>5. Alike(Attempts)
        BY <3>3 DEF Alike
      <3> QED BY <3>4, <3>5
    <2>9. ASSUME NEW a \in Attempts, worker[a] # Null, NEW pc \in Running \cup Ending \cup {"held", "opening", "rearm", "done"},
                 Goto(a, pc)
          PROVE  /\ worker' \in [Attempts -> Worker \cup {Null}] /\ Alike(Attempts \ {a})
                 /\ worker'[a] # Null /\ worker'[a].task = worker[a].task /\ worker'[a].pc = pc
                 /\ worker'[a].cause = worker[a].cause /\ worker'[a].via = worker[a].via
      <3>1. worker[a] \in Worker
        BY <2>1, <2>9
      <3> DEFINE v == [worker[a] EXCEPT !.pc = pc]
      <3>2. v \in Worker /\ v.task = worker[a].task /\ v.pc = pc /\ v.cause = worker[a].cause /\ v.via = worker[a].via
        BY <2>6, <3>1
      <3>3. worker' = [worker EXCEPT ![a] = v]
        BY <2>9 DEF Goto
      <3> HIDE DEF v
      <3> QED BY <2>0, <3>2, <3>3 DEF Alike
    <2>10. ASSUME worker' = worker
           PROVE  worker' \in [Attempts -> Worker \cup {Null}] /\ Alike(Attempts)
      BY <2>0, <2>10 DEF Alike
    <2> QED BY <2>7, <2>8, <2>9, <2>10
  \* Calls, locks, saves, the listener and shutdown after any step.
  <1>CallSteps.
      ASSUME TasksIInv, Next
      PROVE  /\ caller' \in [Callers -> Call] /\ handoff' \in Callers \cup {Null} /\ opMu' \in Actors \cup {Null}
             /\ inbox' \in [enabled : BOOLEAN, pc : {"off", "idle", "receiving"}, stop : BOOLEAN]
             /\ exit' \in {"open", "closing", "saving", "stopping", "draining", "closed"}
             /\ historyErr' \in BOOLEAN /\ restarts' \in 0 .. MaxRestarts
             /\ CallsAgree' /\ SaversAgree' /\ InboxAgrees' /\ ClosedIsOver'
    <2> USE <1>CallSteps
    <2>0. /\ worker \in [Attempts -> Worker \cup {Null}] /\ saving \in [Actors -> SavedRow \cup {Null}]
          /\ caller \in [Callers -> Call] /\ handoff \in Callers \cup {Null} /\ opMu \in Actors \cup {Null}
          /\ inbox \in [enabled : BOOLEAN, pc : {"off", "idle", "receiving"}, stop : BOOLEAN]
          /\ exit \in {"open", "closing", "saving", "stopping", "draining", "closed"}
          /\ historyErr \in BOOLEAN /\ restarts \in 0 .. MaxRestarts /\ MaxRestarts \in Nat
          /\ Null \notin Task \cup Worker \cup SavedRow \cup Actors /\ Attempts \cap (Callers \cup {Exit}) = {}
          /\ Exit \notin Callers /\ Attempts \subseteq Actors /\ Callers \subseteq Actors /\ Exit \in Actors
      BY NullAssumption, TasksAssumption DEF TasksIInv, TypeOK, Actors
    <2>1. /\ CallsAgree /\ SaversAgree /\ InboxAgrees /\ ClosedIsOver /\ WorkersAgree
          /\ \A a \in Attempts : worker[a] # Null => worker[a] \in Worker /\ worker[a].task \in Tasks
          /\ \A c \in Callers : caller[c] \in Call
          /\ \A t \in Tasks : mem[t] # Null => mem[t] \in Task /\ mem[t].attempt \in Attempts
      BY <2>0 DEF TasksIInv, TypeOK, Worker, Task
    <2>2. \A t \in Tasks : mem[t] # Null => mem'[t] # Null \/ Restart
      BY TaskSteps, HistoryStep DEF Kept
    \* Workers.
    <2> DEFINE Unsaved == \A b \in Attempts : saving'[b] # Null => saving[b] # Null
    <2>3. ASSUME worker' = worker PROVE Alike(Attempts)
      BY <2>0, <2>3, <1>WorkerForms
    <2>4. ASSUME worker' = CancelledWithInbox PROVE Alike(Attempts)
      BY <2>0, <2>4, <1>WorkerForms
    <2>5. ASSUME NEW a \in Attempts, worker[a] # Null,
                 \/ worker' = [worker EXCEPT ![a].cancelled = TRUE]
                 \/ \E d \in {"yes", "no"} : worker' = [worker EXCEPT ![a].decision = d]
          PROVE  Alike(Attempts)
      BY <2>0, <2>5, <1>WorkerForms
    <2>6. ASSUME Alike(Attempts), Unsaved PROVE \A b \in Attempts : Goes(b)
      BY <2>6 DEF Goes, Alike
    <2>7. ASSUME NEW c \in Callers, NEW t \in Tasks, NEW r, Put(c, t, r)
          PROVE  Unsaved
      BY <2>0, <2>7 DEF Put
    <2>8. ASSUME NEW t \in Tasks, NEW r, Put(Exit, t, r)
          PROVE  Unsaved
      BY <2>0, <2>8 DEF Put
    <2>9. ASSUME NEW a \in Attempts, NEW v, v # Null, worker[a] # Null, worker' = [worker EXCEPT ![a] = v],
                 v.task = worker[a].task, v.via = worker[a].via, worker[a].pc # "done", saving[a] = Null,
                 worker[a].pc # "held" \/ \E c \in Callers : Spawn(c),
                 saving' = saving \/ \E t, r : Put(a, t, r) /\ v.pc \in WritesAt
          PROVE  \A b \in Attempts : Goes(b)
      <3>1. \A b \in Attempts \ {a} : worker'[b] = worker[b] /\ saving'[b] = saving[b]
        BY <2>0, <2>9 DEF Put
      <3>2. worker'[a] = v /\ (saving'[a] # Null => v.pc \in WritesAt)
        BY <2>0, <2>9
      <3> QED BY <2>9, <3>1, <3>2 DEF Goes
    <2>10. ASSUME NEW a \in Attempts, worker[a] # Null, NEW pc \in Running \cup Ending \cup {"rearm"}, Goto(a, pc),
                  worker[a].pc # "done", saving[a] = Null,
                  worker[a].pc # "held" \/ \E c \in Callers : Spawn(c),
                  saving' = saving \/ \E t, r : Put(a, t, r) /\ pc \in WritesAt
           PROVE  \A b \in Attempts : Goes(b)
      <3> DEFINE v == [worker[a] EXCEPT !.pc = pc]
      <3>1. v \in Worker /\ v.task = worker[a].task /\ v.via = worker[a].via /\ v.pc = pc
        BY <2>1, <2>10 DEF Worker
      <3>2. worker' = [worker EXCEPT ![a] = v]
        BY <2>10 DEF Goto
      <3> HIDE DEF v
      <3> QED BY <2>0, <2>9, <2>10, <3>1, <3>2
    <2>11. ASSUME NEW a \in Attempts, Progress(a) \/ EndStep(a) \/ Opened(a)
           PROVE  \A b \in Attempts : Goes(b)
      <3> DEFINE t == worker[a].task
      <3>0. worker[a] # Null => t \in Tasks /\ worker[a] \in Worker
        BY <2>1
      <3>1. CASE Prepare(a) \/ Confirm(a) \/ Opened(a)
        <4>1. PICK pc \in {"prepared", "confirmed", "connecting"} :
                /\ worker[a] # Null /\ worker[a].pc \notin {"done", "held"} /\ saving[a] = Null /\ Goto(a, pc)
                /\ saving' = saving \/ \E r : Put(a, t, r)
          BY <3>1 DEF Prepare, Confirm, Opened, Persistent, At
        <4> QED BY <2>10, <3>0, <4>1 DEF Running, Ending, WritesAt
      <3>2. CASE OfferSent(a) \/ Begin(a) \/ Verify(a)
        <4>1. PICK pc \in {"offered", "sending", "verifying"} :
                /\ worker[a] # Null /\ worker[a].pc \notin {"done", "held"} /\ saving[a] = Null /\ Goto(a, pc)
                /\ saving' = saving
          BY <3>2 DEF OfferSent, Begin, Verify, Transient, At
        <4> QED BY <2>10, <3>0, <4>1 DEF Running
      <3>3. CASE OfferReceived(a)
        <4>1. PICK d \in {"yes", "none"} :
                /\ worker[a] # Null /\ worker[a].pc \notin {"done", "held"} /\ saving[a] = Null
                /\ worker' = [worker EXCEPT ![a].pc = "offered", ![a].decision = d]
                /\ saving' = saving \/ \E r : Put(a, t, r)
          BY <3>3 DEF OfferReceived, Persistent, At
        <4> DEFINE v == [worker[a] EXCEPT !.pc = "offered", !.decision = d]
        <4>2. v \in Worker /\ v.task = t /\ v.via = worker[a].via /\ v.pc = "offered"
          BY <3>0, <4>1 DEF Worker, Running
        <4>3. worker' = [worker EXCEPT ![a] = v]
          BY <2>0, <4>1
        <4> HIDE DEF v
        <4> QED BY <2>0, <2>9, <3>0, <4>1, <4>2, <4>3 DEF WritesAt
      <3>4. CASE Checkpoint(a)
        <4>1. worker' = worker /\ (saving' = saving \/ \E r : Put(a, t, r)) /\ worker[a] # Null /\ worker[a].pc = "sending"
          BY <3>4 DEF Checkpoint, Persistent, At
        <4>2. \A b \in Attempts \ {a} : saving'[b] = saving[b]
          BY <2>0, <4>1 DEF Put
        <4> QED BY <4>1, <4>2 DEF Goes, WritesAt
      <3>5. ASSUME NEW cause \in Causes, Fail(a, cause) PROVE \A b \in Attempts : Goes(b)
        <4> DEFINE v == [worker[a] EXCEPT !.pc = "failed", !.cause = cause, !.seen = mem[t].state]
        <4>1. /\ worker[a] # Null /\ worker[a].pc \notin {"done", "held"} /\ worker[a].pc # "rearm" /\ saving[a] = Null /\ saving' = saving
              /\ worker' = [worker EXCEPT ![a].pc = "failed", ![a].cause = cause, ![a].seen = mem[t].state]
          BY <3>5 DEF Fail, Running
        <4>2. mem[t] \in Task
          BY <2>1, <3>0, <4>1 DEF WorkersAgree, Active
        <4>3. v \in Worker /\ v.task = t /\ v.via = worker[a].via
          BY <3>0, <3>5, <4>1, <4>2 DEF Worker, Ending, Causes, Task
        <4>4. worker' = [worker EXCEPT ![a] = v]
          BY <2>0, <4>1
        <4> HIDE DEF v
        <4> QED BY <2>0, <2>9, <4>1, <4>3, <4>4
      <3>6. CASE Verdict(a)
        <4>1. PICK pc \in {"shutdown", "pause", "finish", "recover"}, cause \in {"cancelled", "rejected", "failed", "none"} :
                /\ worker[a] # Null /\ worker[a].pc \notin {"done", "held"} /\ saving[a] = Null /\ saving' = saving
                /\ worker' = [worker EXCEPT ![a].pc = pc, ![a].seen = Null, ![a].decision = "none", ![a].cause = cause]
          BY <3>6 DEF Verdict, At
        <4> DEFINE v == [worker[a] EXCEPT !.pc = pc, !.seen = Null, !.decision = "none", !.cause = cause]
        <4>2. v \in Worker /\ v.task = t /\ v.via = worker[a].via
          <5>1. worker[a] \in Worker
            BY <3>0, <4>1
          <5>3. pc \in Ending /\ cause \in {"cancelled", "rejected", "failed", "none"}
            BY <4>1 DEF Ending
          <5>2. v \in Worker
            BY <5>1, <5>3 DEF Worker
          <5> QED BY <5>1, <5>2 DEF Worker
        <4>3. worker' = [worker EXCEPT ![a] = v]
          BY <2>0, <4>1
        <4> HIDE DEF v
        <4> QED BY <2>0, <2>9, <4>1, <4>2, <4>3
      <3>7. CASE FinishCompleted(a)
        <4>1. /\ worker[a] # Null /\ worker[a].pc \notin {"done", "held"} /\ saving[a] = Null
              /\ \/ saving' = saving /\ \E pc \in {"pause", "shutdown", "rearm"} : Goto(a, pc)
                 \/ Goto(a, "rearm") /\ \E r : Put(a, t, r)
          BY <3>7 DEF FinishCompleted, At
        <4> QED BY <2>10, <3>0, <4>1 DEF Ending, WritesAt
      <3>8. CASE Conclude(a)
        <4>1. /\ worker[a] # Null /\ worker[a].pc \in {"pause", "recover", "shutdown", "finish"} /\ Goto(a, "rearm")
              /\ saving' = saving \/ \E r : Put(a, t, r)
          BY <3>8 DEF Conclude
        <4>2. saving[a] = Null
          BY <2>1, <4>1 DEF SaversAgree, WritesAt
        <4> QED BY <2>10, <3>0, <4>1, <4>2 DEF WritesAt
      <3>9. CASE Return(a)
        <4> DEFINE v == NewWorker(t, "done", worker[a].via)
        <4>1. /\ worker[a] # Null /\ worker[a].pc = "rearm" /\ saving[a] = Null /\ saving' = saving
              /\ worker' = [worker EXCEPT ![a] = v]
          BY <3>9 DEF Return, At
        <4>2. v \in Worker /\ v.task = t /\ v.via = worker[a].via
          BY <3>0, <4>1 DEF NewWorker, Worker
        <4> HIDE DEF v
        <4> QED BY <2>0, <2>9, <4>1, <4>2
      <3> QED BY <2>11, <3>1, <3>2, <3>3, <3>4, <3>5, <3>6, <3>7, <3>8, <3>9 DEF Progress, EndStep
    <2>12. ASSUME NEW c \in Callers, StartStep(c) \/ ControlStep(c)
           PROVE  \A b \in Attempts : Goes(b)
      <3> DEFINE a == caller[c].attempt
      <3>1. CASE Spawn(c)
        <4>1. a \in Attempts /\ worker[a] # Null /\ worker[a].pc = "held"
          BY <2>1, <3>1 DEF Spawn, CallsAgree, CallAgrees
        <4>2. Goto(a, "connecting") /\ saving' = saving /\ saving[a] = Null
          BY <2>1, <3>1, <4>1 DEF Spawn, Goto, SaversAgree, WritesAt
        <4> HIDE DEF a
        <4> QED BY <2>10, <3>1, <4>1, <4>2 DEF Running
      <3>2. CASE Fire(c)
        <4>1. a \in Attempts /\ worker[a] # Null
          BY <2>1, <3>2 DEF Fire, CallsAgree, CallAgrees
        <4>2. worker' = [worker EXCEPT ![a].cancelled = TRUE] /\ saving' = saving
          BY <3>2 DEF Fire
        <4> HIDE DEF a
        <4> QED BY <2>5, <2>6, <4>1, <4>2
      <3>3. ASSUME NEW t \in Tasks, NEW b \in Attempts, SendCreate(c, t, b) PROVE \A d \in Attempts : Goes(d)
        <4>1. worker[b] = Null /\ ~isClosing /\ Unsaved /\ \A d \in Attempts \ {b} : worker'[d] = worker[d]
          BY <2>0, <2>7, <3>3 DEF SendCreate, Fresh, MayCreate
        <4>2. worker'[b].via = "call"
          BY <2>0, <3>3 DEF SendCreate, NewWorker
        <4> QED BY <4>1, <4>2 DEF Goes
      <3>4. ASSUME NEW b \in Attempts, ResumeStart(c, b) PROVE \A d \in Attempts : Goes(d)
        <4>1. caller[c].task \in Tasks
          BY <2>1, <3>4 DEF ResumeStart, CallsAgree, CallAgrees
        <4>2. worker[b] = Null /\ ~isClosing /\ \A d \in Attempts \ {b} : worker'[d] = worker[d]
          BY <2>0, <3>4 DEF ResumeStart, Fresh
        <4>4. worker'[b].via = "call"
          BY <2>0, <3>4 DEF ResumeStart, NewWorker
        <4>3. Unsaved
          BY <2>7, <3>4, <4>1 DEF ResumeStart
        <4> QED BY <4>2, <4>3, <4>4 DEF Goes
      <3>5. ASSUME worker' = worker \/ worker' = CancelledWithInbox, saving' = saving \/ \E t, r : Put(c, t, r)
            PROVE  \A b \in Attempts : Goes(b)
        <4>1. Unsaved
          BY <2>0, <3>5 DEF Put
        <4> QED BY <2>3, <2>4, <2>6, <3>5, <4>1
      <3>6. CASE StopInbox(c) \/ InboxStopped(c) \/ InboxStopTimeout(c) \/ SendRefused(c) \/ ResumeRefused(c) \/ CallReturns(c)
        BY <3>5, <3>6 DEF StopInbox, InboxStopped, InboxStopTimeout, SendRefused, ResumeRefused, CallReturns
      <3>7. CASE SendRecord(c) \/ ResumeNoDirectory(c) \/ PauseMark(c) \/ CancelMark(c) \/ CancelStopped(c)
        <4>1. worker' = worker
          BY <3>7 DEF SendRecord, ResumeNoDirectory, PauseMark, CancelMark, CancelStopped
        <4>2. saving' = saving \/ \E t, r : Put(c, t, r)
          BY <3>7 DEF SendRecord, ResumeNoDirectory, PauseMark, CancelMark, CancelStopped, Intend
        <4> QED BY <3>5, <4>1, <4>2
      <3> QED BY <2>12, <3>1, <3>2, <3>3, <3>4, <3>6, <3>7 DEF StartStep, ControlStep
    <2>13. ASSUME NEW t \in Tasks, NEW a \in Attempts, NEW d \in {"yes", "no"}, Decide(t, a, d)
           PROVE  \A b \in Attempts : Goes(b)
      <3>1. /\ mem[t] # Null /\ mem[t].state = "awaiting_acceptance" /\ mem[t].attempt = a /\ saving' = saving
            /\ worker' = [worker EXCEPT ![a].decision = d]
        BY <2>13 DEF Decide
      <3>2. worker[a] # Null
        BY <2>1, <3>1 DEF WorkersAgree, Live, Active, TasksIInv, StatesAgree, Terminal
      <3> QED BY <2>5, <2>6, <2>13, <3>1, <3>2
    <2>14. ASSUME NEW t \in Tasks, NEW a \in Attempts, NEW via \in Routes, Incoming(via, t, a)
           PROVE  \A b \in Attempts : Goes(b)
      <3>1. worker[a] = Null /\ \A b \in Attempts \ {a} : worker'[b] = worker[b] /\ saving'[b] = saving[b]
        BY <2>0, <2>14 DEF Incoming, Fresh, Put
      <3>2. LET v == NewWorker(t, "opening", via) IN worker'[a] = v /\ v # Null /\ v.pc = "opening" /\ v.via = via
        <4>1. NewWorker(t, "opening", via) \in Worker
          BY <2>14, TasksAssumption DEF NewWorker, Worker
        <4> QED BY <2>0, <2>14, <4>1 DEF Incoming, NewWorker
      <3>3. ~isClosing
        BY <2>14 DEF Incoming, MayCreate
      <3> QED BY <2>14, <3>1, <3>2, <3>3 DEF Goes, WritesAt
    <2>15. ASSUME ExitMark
           PROVE  \A b \in Attempts : Goes(b)
      <3>1. CASE hasActive
        <4>1. PICK t \in Tasks : /\ Live(t) /\ \E r : Put(Exit, t, r)
                                /\ worker' = [worker EXCEPT ![mem[t].attempt].cancelled = TRUE]
          BY <2>15, <3>1 DEF ExitMark
        <4>2. mem[t].attempt \in Attempts /\ worker[mem[t].attempt] # Null
          BY <2>1, <4>1 DEF WorkersAgree, Active, Live
        <4>3. Alike(Attempts) /\ Unsaved
          BY <2>5, <2>8, <4>1, <4>2
        <4> QED BY <2>6, <4>3
      <3> QED BY <2>3, <2>6, <2>15, <3>1 DEF ExitMark
    <2>16. ~Restart => \A b \in Attempts : Goes(b)
      <3>1. ASSUME worker' = worker \/ worker' = CancelledWithInbox, Unsaved
            PROVE  \A b \in Attempts : Goes(b)
        BY <2>3, <2>4, <2>6, <3>1
      <3>2. ASSUME NEW c \in Callers,
                   \/ \E dir \in Calls \cap {"send", "receive"} : SendCall(c, dir)
                   \/ \E t \in Tasks : ResumeCall(c, t) \/ \E op \in Calls \cap {"pause", "cancel"} : ControlCall(c, op, t)
            PROVE  \A b \in Attempts : Goes(b)
        BY <3>1, <3>2 DEF SendCall, ResumeCall, ControlCall
      <3>3. ASSUME InboxExit \/ StartInbox \/ ExitCall \/ ExitSaved \/ ExitInbox \/ Closed
            PROVE  \A b \in Attempts : Goes(b)
        BY <3>1, <3>3 DEF InboxExit, StartInbox, ExitCall, ExitSaved, ExitInbox, Closed
      <3>4. ASSUME NEW x \in Actors, Save(x)
            PROVE  \A b \in Attempts : Goes(b)
        <4>1. worker' = worker /\ saving' = [saving EXCEPT ![x] = Null]
          BY <3>4 DEF Save
        <4>2. Unsaved
          BY <2>0, <4>1
        <4> QED BY <3>1, <4>1, <4>2
      <3> QED BY <2>11, <2>12, <2>13, <2>14, <2>15, <3>2, <3>3, <3>4 DEF Next, ExitStep
    \* Calls.
    <2> DEFINE Other(d) == /\ caller'[d] = caller[d]
                           /\ handoff = d => handoff' = d
                           /\ opMu = d => opMu' = d /\ ~\E c \in Callers : Spawn(c)
                           /\ saving[d] = Null => saving'[d] = Null
                           /\ handoff = d /\ inbox.pc = "off" => inbox'.pc = "off"
               Typed == /\ caller' \in [Callers -> Call] /\ handoff' \in Callers \cup {Null} /\ opMu' \in Actors \cup {Null}
                        /\ inbox' \in [enabled : BOOLEAN, pc : {"off", "idle", "receiving"}, stop : BOOLEAN]
                        /\ exit' \in {"open", "closing", "saving", "stopping", "draining", "closed"}
                        /\ historyErr' \in BOOLEAN /\ restarts' \in 0 .. MaxRestarts
    <2>17. ASSUME ~Restart, NEW d \in Callers, Other(d)
           PROVE  CallAgrees(d)'
      <3>1. CallAgrees(d) /\ caller[d] \in Call /\ caller'[d] = caller[d]
        BY <2>1, <2>17 DEF CallsAgree
      <3>2. /\ \A b \in Attempts : worker[b] # Null => worker'[b] # Null /\ worker'[b].task = worker[b].task
            /\ \A b \in Attempts : worker[b] # Null /\ worker[b].pc = "held" /\ opMu = d => worker'[b].pc = "held"
        BY <2>16, <2>17 DEF Goes
      <3>3. ASSUME caller[d].pc \in {"created", "starting"}
            PROVE  LET k == caller'[d]
                   IN  /\ opMu' = d /\ k.attempt \in Attempts
                       /\ worker'[k.attempt] # Null /\ worker'[k.attempt].pc = "held"
                       /\ worker'[k.attempt].task = k.task
        BY <2>17, <3>1, <3>2, <3>3 DEF CallAgrees
      <3>4. \A t \in Tasks : mem[t] # Null => mem'[t] # Null
        BY <2>2, <2>17
      <3>5. /\ handoff = d => handoff' = d
            /\ saving[d] = Null => saving'[d] = Null
            /\ handoff = d /\ inbox.pc = "off" => inbox'.pc = "off"
        BY <2>17
      <3> HIDE DEF Other
      <3> QED BY <3>1, <3>2, <3>3, <3>4, <3>5 DEF CallAgrees
    <2> DEFINE Before == {"idle", "stop", "waiting", "ready"}
               Fine ==
                 /\ Typed /\ CallsAgree'
                 /\ saving'[Exit] # Null => saving[Exit] # Null \/ exit' = "saving"
                 /\ exit = "saving" /\ exit' # "saving" => saving[Exit] = Null
                 /\ inbox.pc = "receiving" =>
                      inbox'.pc = "receiving" \/ \E a \in Attempts : ServedByInbox(a) /\ worker'[a].pc = "done"
                 /\ isClosing /\ inbox.pc = "off" => inbox'.pc = "off"
                 /\ exit' = "closed" => exit = "closed" \/ Closed
                 /\ isClosing => \A c \in Callers : caller[c].pc \in Before => caller'[c].pc \in Before
    <2>18. /\ Ensured \in [enabled : BOOLEAN, pc : {"off", "idle", "receiving"}, stop : BOOLEAN]
           /\ Ensured = inbox \/ (~isClosing /\ inbox.pc = "off")
           /\ inbox.pc # "off" => Ensured.pc = inbox.pc
      BY <2>0 DEF Ensured
    \* A step of caller c.
    <2>19. ASSUME ~Restart, NEW c \in Callers, NEW v \in Call, caller' = [caller EXCEPT ![c] = v],
                  handoff' \in Callers \cup {Null}, opMu' \in Actors \cup {Null},
                  handoff' # handoff => handoff \in {c, Null}, opMu' # opMu => opMu \in {c, Null},
                  saving' = saving \/ \E t, r : Put(c, t, r),
                  \/ inbox' = inbox \/ inbox' = [inbox EXCEPT !.stop = TRUE]
                  \/ inbox' = Ensured /\ handoff = c,
                  exit' = exit, historyErr' = historyErr, restarts' = restarts,
                  isClosing /\ caller[c].pc \in Before => v.pc \in Before,
                  CallAgrees(c)'
           PROVE  Fine
      <3>1. Typed
        BY <2>0, <2>18, <2>19
      <3>2. \A d \in Actors \ {c} : saving'[d] = saving[d]
        BY <2>0, <2>19 DEF Put
      <3>3. inbox'.pc = inbox.pc \/ (handoff = c /\ ~isClosing /\ inbox.pc = "off")
        BY <2>0, <2>18, <2>19
      <3>4. \A d \in Callers \ {c} : caller'[d] = caller[d]
        BY <2>0, <2>19
      <3>5. caller'[c] = v
        BY <2>0, <2>19
      <3>6. ASSUME NEW d \in Callers \ {c}, NEW e \in Callers, opMu = d, Spawn(e) PROVE FALSE
        <4>1. caller[e].pc = "starting" /\ caller'[e] = Idle
          BY <2>0, <3>6 DEF Spawn, Leave
        <4>2. e = c
          BY <3>4, <3>6, <4>1 DEF Idle
        <4>3. opMu = c
          BY <2>1, <4>1, <4>2 DEF CallsAgree, CallAgrees
        <4> QED BY <3>6, <4>3
      <3>7. \A d \in Callers \ {c} : Other(d)
        BY <2>0, <2>19, <3>2, <3>3, <3>4, <3>6
      <3>8. CallsAgree'
        <4>1. \A d \in Callers \ {c} : CallAgrees(d)'
          BY <2>17, <2>19, <3>7
        <4> QED BY <2>19, <4>1 DEF CallsAgree
      <3>9. \A d \in Callers : isClosing /\ caller[d].pc \in Before => caller'[d].pc \in Before
        BY <2>19, <3>4, <3>5
      <3>10. c # Exit
        BY <2>0
      <3> HIDE DEF Typed, Before
      <3> QED BY <2>0, <2>19, <3>1, <3>2, <3>3, <3>8, <3>9, <3>10
    \* A step of nobody who calls.
    <2>20. ASSUME ~Restart, caller' = caller, handoff' = handoff, opMu' \in Actors \cup {Null},
                  opMu' # opMu => opMu \in Attempts \cup {Null},
                  \/ saving' = saving \/ \E x \in Actors : saving' = [saving EXCEPT ![x] = Null]
                  \/ \E x \in Attempts : \E t, r : Put(x, t, r)
                  \/ exit' = "saving" /\ \E t, r : Put(Exit, t, r),
                  inbox' \in [enabled : BOOLEAN, pc : {"off", "idle", "receiving"}, stop : BOOLEAN],
                  \/ inbox'.pc = inbox.pc
                  \/ inbox.pc = "off" /\ handoff = Null /\ ~isClosing
                  \/ inbox.pc = "idle"
                  \/ \E a \in Attempts : ServedByInbox(a) /\ worker'[a].pc = "done",
                  exit' \in {"open", "closing", "saving", "stopping", "draining", "closed"},
                  exit = "saving" /\ exit' # "saving" => saving[Exit] = Null,
                  exit' = "closed" => exit = "closed" \/ Closed,
                  historyErr' \in BOOLEAN, restarts' = restarts
           PROVE  Fine
      <3>1. Typed
        BY <2>0, <2>20
      <3>2. \A d \in Callers : saving[d] = Null => saving'[d] = Null
        BY <2>0, <2>20 DEF Put
      <3>3. saving'[Exit] # Null => saving[Exit] # Null \/ exit' = "saving"
        BY <2>0, <2>20 DEF Put
      <3>4. inbox.pc = "off" /\ (isClosing \/ handoff # Null) => inbox'.pc = "off"
        BY <2>1, <2>20 DEF InboxAgrees
      <3>5. ASSUME NEW e \in Callers, Spawn(e) PROVE FALSE
        BY <2>0, <2>20, <3>5 DEF Spawn, Leave, Idle
      <3>6. \A d \in Callers : Other(d)
        BY <2>0, <2>20, <3>2, <3>4, <3>5
      <3>7. CallsAgree'
        BY <2>17, <2>20, <3>6 DEF CallsAgree
      <3>8. inbox.pc = "receiving" =>
              inbox'.pc = "receiving" \/ \E a \in Attempts : ServedByInbox(a) /\ worker'[a].pc = "done"
        BY <2>20
      <3> HIDE DEF Typed
      <3> QED BY <2>20, <3>1, <3>3, <3>4, <3>7, <3>8
    <2> HIDE DEF Other, Fine, Before
    \* Calls that leave, and that only go on.
    <2>21. ASSUME ~Restart, NEW c \in Callers, Leave(c), saving' = saving, saving[c] = Null,
                  \/ inbox' = inbox \/ inbox' = [inbox EXCEPT !.stop = TRUE]
                  \/ inbox' = Ensured /\ handoff = c,
                  exit' = exit, historyErr' = historyErr, restarts' = restarts
           PROVE  Fine
      <3>1. Idle \in Call /\ Idle.pc = "idle" /\ Idle.op = "none"
        BY DEF Idle, Call
      <3>2. /\ caller' = [caller EXCEPT ![c] = Idle]
            /\ handoff' \in Callers \cup {Null} /\ opMu' \in Actors \cup {Null}
            /\ handoff' # handoff => handoff \in {c, Null}
            /\ opMu' # opMu => opMu \in {c, Null}
        BY <2>0, <2>21 DEF Leave
      <3>3. CallAgrees(c)'
        <4>1. caller'[c] = Idle /\ saving'[c] = Null
          BY <2>0, <2>21, <3>2
        <4> QED BY <3>1, <4>1 DEF CallAgrees
      <3>4. isClosing /\ caller[c].pc \in Before => Idle.pc \in Before
        BY <3>1 DEF Before
      <3> QED BY <2>19, <2>21, <3>1, <3>2, <3>3, <3>4
    <2>22. ASSUME NEW c \in Callers, NEW pc \in {"stop", "waiting", "ready", "created", "starting", "begun", "marked",
                                               "unlocked", "returning"}, Move(c, pc)
           PROVE  \E v \in Call : /\ caller' = [caller EXCEPT ![c] = v] /\ caller'[c] = v
                                  /\ v.op = caller[c].op /\ v.task = caller[c].task
                                  /\ v.attempt = caller[c].attempt /\ v.pc = pc
      <3> DEFINE v == [caller[c] EXCEPT !.pc = pc]
      <3>1. v \in Call /\ v.op = caller[c].op /\ v.task = caller[c].task /\ v.attempt = caller[c].attempt /\ v.pc = pc
        BY <2>0, <2>22 DEF Call
      <3>2. caller' = [caller EXCEPT ![c] = v]
        BY <2>0, <2>22 DEF Move
      <3> HIDE DEF v
      <3> QED BY <2>0, <3>1, <3>2
    <2>23. ASSUME ~Restart, NEW c \in Callers, StartStep(c) \/ ControlStep(c)
           PROVE  Fine
      <3>0. CallAgrees(c) /\ caller[c] \in Call
        BY <2>1 DEF CallsAgree
      <3>1. CASE InboxStopTimeout(c) \/ SendRefused(c) \/ ResumeRefused(c) \/ Spawn(c) \/ CallReturns(c) \/ Fire(c)
        <4>1. Leave(c) /\ saving' = saving /\ saving[c] = Null /\ exit' = exit /\ historyErr' = historyErr /\ restarts' = restarts
          BY <3>0, <3>1 DEF CallAgrees, InboxStopTimeout, SendRefused, ResumeRefused, Spawn, CallReturns, Fire
        <4>2. inbox' = inbox \/ (inbox' = Ensured /\ handoff = c)
          BY <3>0, <3>1 DEF CallAgrees, InboxStopTimeout, SendRefused, ResumeRefused, Spawn, CallReturns, Fire
        <4> QED BY <2>21, <2>23, <4>1, <4>2
      <3>2. CASE StopInbox(c) \/ InboxStopped(c)
        <4>1. PICK pc \in {"waiting", "ready"} :
                /\ Move(c, pc) /\ caller[c].pc \in {"stop", "waiting"} /\ (pc = "ready" => inbox.pc = "off" /\ inbox' = inbox)
                /\ inbox' = inbox \/ inbox' = [inbox EXCEPT !.stop = TRUE]
                /\ UNCHANGED <<mem, saving, exit, opMu, handoff, historyErr, restarts>>
          BY <3>2 DEF StopInbox, InboxStopped
        <4>2. PICK v \in Call : /\ caller' = [caller EXCEPT ![c] = v] /\ caller'[c] = v
                                /\ v.op = caller[c].op /\ v.task = caller[c].task
                                /\ v.attempt = caller[c].attempt /\ v.pc = pc
          BY <2>22, <4>1
        <4>3. CallAgrees(c)'
          BY <3>0, <4>1, <4>2 DEF CallAgrees
        <4>4. v.pc \in Before
          BY <4>1, <4>2 DEF Before
        <4> QED BY <2>0, <2>19, <2>23, <4>1, <4>2, <4>3, <4>4
      <3>3. CASE SendRecord(c)
        <4> DEFINE t == caller[c].task
        <4>1. /\ Move(c, "starting") /\ caller[c].pc = "created" /\ UNCHANGED <<worker, exit, opMu, handoff, inbox, historyErr, restarts>>
              /\ saving' = saving \/ \E r : Put(c, t, r)
          BY <3>3 DEF SendRecord
        <4>2. PICK v \in Call : /\ caller' = [caller EXCEPT ![c] = v] /\ caller'[c] = v
                                /\ v.op = caller[c].op /\ v.task = caller[c].task
                                /\ v.attempt = caller[c].attempt /\ v.pc = "starting"
          BY <2>22, <4>1
        <4>3. CallAgrees(c)'
          BY <2>2, <2>23, <3>0, <4>1, <4>2 DEF CallAgrees
        <4>4. caller[c].pc \notin Before
          BY <4>1 DEF Before
        <4> QED BY <2>0, <2>19, <2>23, <4>1, <4>2, <4>3, <4>4
      <3>4. CASE PauseMark(c) \/ CancelMark(c)
        <4> DEFINE t == caller[c].task
        <4>0. /\ caller[c].pc = "begun" /\ caller[c].op \in {"pause", "cancel"} /\ t \in Tasks /\ mem[t] # Null /\ saving[c] = Null
              /\ UNCHANGED <<worker, exit, opMu, handoff, inbox, historyErr, restarts>>
          BY <3>0, <3>4 DEF PauseMark, CancelMark, CallAgrees
        <4>4. caller[c].pc \notin Before /\ mem'[t] # Null
          BY <2>2, <2>23, <4>0 DEF Before
        <4>1. CASE caller' = [caller EXCEPT ![c] = Idle] /\ saving' = saving
          <5>1. Idle \in Call /\ caller'[c] = Idle /\ Idle.pc = "idle" /\ Idle.op = "none"
            BY <2>0, <4>1 DEF Idle, Call
          <5>2. CallAgrees(c)'
            BY <4>0, <4>1, <5>1 DEF CallAgrees
          <5> QED BY <2>0, <2>19, <2>23, <4>0, <4>1, <4>4, <5>1, <5>2
        <4>2. CASE Move(c, "unlocked") /\ saving' = saving
          <5>1. PICK v \in Call : /\ caller' = [caller EXCEPT ![c] = v] /\ caller'[c] = v
                                  /\ v.op = caller[c].op /\ v.task = caller[c].task
                                  /\ v.attempt = caller[c].attempt /\ v.pc = "unlocked"
            BY <2>22, <4>2
          <5>2. CallAgrees(c)'
            BY <3>0, <4>0, <4>2, <4>4, <5>1 DEF CallAgrees
          <5> QED BY <2>0, <2>19, <2>23, <4>0, <4>2, <4>4, <5>1, <5>2
        <4>3. ASSUME NEW s, Intend(c, s), Live(t) PROVE Fine
          <5> DEFINE v == [caller[c] EXCEPT !.attempt = mem[t].attempt, !.pc = "marked"]
          <5>1. mem[t].attempt \in Attempts /\ worker[mem[t].attempt] # Null /\ worker'[mem[t].attempt] # Null
            BY <2>1, <4>0, <4>3 DEF WorkersAgree, Active
          <5>2. /\ v \in Call /\ v.op = caller[c].op /\ v.task = t /\ v.attempt = mem[t].attempt /\ v.pc = "marked"
                /\ caller' = [caller EXCEPT ![c] = v]
            BY <2>0, <3>0, <4>3, <5>1 DEF Call, Intend
          <5> HIDE DEF v
          <5>3. caller'[c] = v /\ \E r : Put(c, t, r)
            BY <2>0, <4>3, <5>2 DEF Intend
          <5>4. CallAgrees(c)'
            BY <3>0, <4>0, <4>4, <5>1, <5>2, <5>3 DEF CallAgrees
          <5> QED BY <2>0, <2>19, <2>23, <4>0, <4>4, <5>2, <5>3, <5>4
        <4> QED BY <3>4, <4>0, <4>1, <4>2, <4>3 DEF PauseMark, CancelMark, CanPause, Live
      <3>5. CASE CancelStopped(c) \/ ResumeNoDirectory(c)
        <4> DEFINE t == caller[c].task
        <4>1. /\ Move(c, "returning") /\ UNCHANGED <<worker, exit, handoff, inbox, historyErr, restarts>>
              /\ saving' = saving \/ \E r : Put(c, t, r)
              /\ opMu' = opMu \/ (opMu = Null /\ opMu' = c)
              /\ t \in Tasks /\ mem[t] # Null /\ (isClosing => caller[c].pc = "unlocked")
              /\ caller[c].op = "resume" => handoff = c
          BY <3>0, <3>5 DEF CancelStopped, ResumeNoDirectory, CallAgrees
        <4>2. PICK v \in Call : /\ caller' = [caller EXCEPT ![c] = v] /\ caller'[c] = v
                                /\ v.op = caller[c].op /\ v.task = caller[c].task
                                /\ v.attempt = caller[c].attempt /\ v.pc = "returning"
          BY <2>22, <4>1
        <4>3. CallAgrees(c)'
          BY <2>2, <2>23, <3>0, <4>1, <4>2 DEF CallAgrees
        <4>4. isClosing => caller[c].pc \notin Before
          BY <4>1 DEF Before
        <4> QED BY <2>0, <2>19, <2>23, <4>1, <4>2, <4>3, <4>4
      <3>6. ASSUME NEW t \in Tasks, NEW a \in Attempts, SendCreate(c, t, a) PROVE Fine
        <4> DEFINE pc == IF caller[c].op = "send" THEN "created" ELSE "starting"
                   v == [caller[c] EXCEPT !.task = t, !.attempt = a, !.pc = pc]
        <4>1. /\ caller[c].pc = "ready" /\ caller[c].op \in {"send", "receive"} /\ opMu = Null /\ opMu' = c /\ ~isClosing
              /\ worker' = [worker EXCEPT ![a] = NewWorker(t, "held", "call")]
              /\ Put(c, t, NewTask(caller[c].op, a))
              /\ UNCHANGED <<exit, handoff, inbox, historyErr, restarts>>
          BY <3>6 DEF SendCreate, MayCreate, NewTask
        <4>2. v \in Call /\ v.op = caller[c].op /\ v.task = t /\ v.attempt = a /\ v.pc = pc /\ caller' = [caller EXCEPT ![c] = v]
          BY <2>0, <3>0, <3>6 DEF Call, SendCreate
        <4>3. pc \in {"created", "starting"} /\ caller'[c] = v
          BY <2>0, <4>2
        <4> HIDE DEF v, pc
        <4>4. NewWorker(t, "held", "call") \in Worker /\ NewWorker(t, "held", "call").task = t /\ NewWorker(t, "held", "call").pc = "held"
          BY DEF NewWorker, Worker
        <4>5. worker'[a] # Null /\ worker'[a].task = t /\ worker'[a].pc = "held"
          BY <2>0, <4>1, <4>4
        <4>6. mem'[t] # Null
          <5>1. NewTask(caller[c].op, a) \in Task
            BY <2>0, <4>1 DEF NewTask, Task, States, Terminal, Intents
          <5> QED BY <2>0, <4>1, <5>1 DEF Put, TasksIInv, TypeOK
        <4>7. CallAgrees(c)'
          BY <3>0, <4>1, <4>2, <4>3, <4>5, <4>6 DEF CallAgrees
        <4> QED BY <2>0, <2>19, <2>23, <4>1, <4>2, <4>7
      <3>7. ASSUME NEW a \in Attempts, ResumeStart(c, a) PROVE Fine
        <4> DEFINE t == caller[c].task
                   v == [caller[c] EXCEPT !.attempt = a, !.pc = "starting"]
        <4>1. /\ caller[c].pc = "ready" /\ caller[c].op = "resume" /\ opMu = Null /\ opMu' = c /\ ~isClosing
              /\ worker' = [worker EXCEPT ![a] = NewWorker(t, "held", "call")]
              /\ \E r : Put(c, t, r)
              /\ UNCHANGED <<exit, handoff, inbox, historyErr, restarts>>
              /\ t \in Tasks /\ mem[t] # Null
          BY <3>0, <3>7 DEF ResumeStart, CallAgrees
        <4>2. v \in Call /\ v.op = caller[c].op /\ v.task = t /\ v.attempt = a /\ v.pc = "starting" /\ caller' = [caller EXCEPT ![c] = v]
          BY <2>0, <3>0, <3>7 DEF Call, ResumeStart
        <4>3. caller'[c] = v
          BY <2>0, <4>2
        <4> HIDE DEF v
        <4>4. NewWorker(t, "held", "call") \in Worker /\ NewWorker(t, "held", "call").task = t /\ NewWorker(t, "held", "call").pc = "held"
          BY <4>1 DEF NewWorker, Worker
        <4>5. worker'[a] # Null /\ worker'[a].task = t /\ worker'[a].pc = "held"
          BY <2>0, <4>1, <4>4
        <4>6. mem'[t] # Null
          BY <2>2, <2>23, <4>1
        <4>7. CallAgrees(c)'
          BY <3>0, <4>1, <4>2, <4>3, <4>5, <4>6 DEF CallAgrees
        <4> QED BY <2>0, <2>19, <2>23, <4>1, <4>2, <4>7
      <3> QED BY <2>23, <3>1, <3>2, <3>3, <3>4, <3>5, <3>6, <3>7 DEF StartStep, ControlStep
    <2>24. ASSUME ~Restart, NEW c \in Callers,
                  \/ \E dir \in Calls \cap {"send", "receive"} : SendCall(c, dir)
                  \/ \E t \in Tasks : ResumeCall(c, t) \/ \E op \in Calls \cap {"pause", "cancel"} : ControlCall(c, op, t)
           PROVE  Fine
      <3>1. /\ caller[c].pc = "idle" /\ ~isClosing /\ saving[c] = Null
            /\ UNCHANGED <<mem, saving, exit, opMu, inbox, historyErr, restarts>>
        BY <2>1, <2>24 DEF CallsAgree, CallAgrees, SendCall, ResumeCall, ControlCall
      <3>2. CASE \E dir \in Calls \cap {"send", "receive"} : SendCall(c, dir)
        <4>1. PICK dir \in {"send", "receive"} : SendCall(c, dir)
          BY <3>2
        <4> DEFINE v == [Idle EXCEPT !.op = dir, !.pc = "stop"]
        <4>2. /\ v \in Call /\ v.op = dir /\ v.pc = "stop" /\ caller' = [caller EXCEPT ![c] = v]
              /\ handoff = Null /\ handoff' = c
          BY <4>1 DEF SendCall, Call, Idle, TaskCalls
        <4> HIDE DEF v
        <4>3. caller'[c] = v
          BY <2>0, <4>2
        <4>4. CallAgrees(c)'
          BY <3>1, <4>2, <4>3 DEF CallAgrees
        <4> QED BY <2>0, <2>19, <2>24, <3>1, <4>2, <4>4
      <3>3. ASSUME NEW t \in Tasks, ResumeCall(c, t) PROVE Fine
        <4> DEFINE v == [Idle EXCEPT !.op = "resume", !.task = t, !.pc = "stop"]
        <4>2. /\ v \in Call /\ v.op = "resume" /\ v.pc = "stop" /\ v.task = t /\ caller' = [caller EXCEPT ![c] = v]
              /\ handoff = Null /\ handoff' = c /\ mem[t] # Null
          BY <3>3 DEF ResumeCall, Call, Idle, TaskCalls
        <4> HIDE DEF v
        <4>3. caller'[c] = v
          BY <2>0, <4>2
        <4>4. CallAgrees(c)'
          BY <3>1, <3>3, <4>2, <4>3 DEF CallAgrees
        <4> QED BY <2>0, <2>19, <2>24, <3>1, <4>2, <4>4
      <3>4. ASSUME NEW t \in Tasks, NEW op \in {"pause", "cancel"}, ControlCall(c, op, t) PROVE Fine
        <4> DEFINE v == [Idle EXCEPT !.op = op, !.task = t, !.pc = "begun"]
        <4>2. /\ v \in Call /\ v.op = op /\ v.pc = "begun" /\ v.task = t /\ caller' = [caller EXCEPT ![c] = v]
              /\ handoff' = handoff /\ mem[t] # Null
          BY <3>4 DEF ControlCall, Call, Idle, TaskCalls
        <4> HIDE DEF v
        <4>3. caller'[c] = v
          BY <2>0, <4>2
        <4>4. CallAgrees(c)'
          BY <3>1, <3>4, <4>2, <4>3 DEF CallAgrees
        <4> QED BY <2>0, <2>19, <2>24, <3>1, <4>2, <4>4
      <3> QED BY <2>24, <3>2, <3>3, <3>4
    \* Workers.
    <2>25. ASSUME ~Restart, NEW a \in Attempts, Progress(a) \/ EndStep(a) \/ Opened(a)
           PROVE  Fine
      <3>0. a \in Actors
        BY <2>0
      <3>1. CASE Return(a)
        <4>1. /\ caller' = caller /\ handoff' = handoff /\ opMu' = opMu /\ saving' = saving /\ exit' = exit
              /\ historyErr' = historyErr /\ restarts' = restarts
              /\ worker[a] # Null /\ worker[a].pc = "rearm" /\ worker'[a].pc = "done"
          BY <2>0, <3>1 DEF Return, At, NewWorker
        <4>2. CASE worker[a].via = "call"
          <5>1. handoff = Null /\ inbox' = Ensured
            BY <3>1, <4>2 DEF Return, MayRearm
          <5> QED BY <2>0, <2>18, <2>20, <2>25, <4>1, <5>1
        <4>3. CASE worker[a].via = "inbox"
          <5>1. inbox' = [inbox EXCEPT !.pc = "idle"] /\ ServedByInbox(a)
            BY <3>1, <4>1, <4>3 DEF Return, ServedByInbox
          <5> QED BY <2>0, <2>20, <2>25, <4>1, <5>1
        <4>4. CASE worker[a].via \notin {"call", "inbox"}
          <5>1. inbox' = inbox
            BY <3>1, <4>4 DEF Return
          <5> QED BY <2>0, <2>20, <2>25, <4>1, <5>1
        <4> QED BY <4>2, <4>3, <4>4
      <3>2. CASE Opened(a)
        <4>1. /\ caller' = caller /\ handoff' = handoff /\ opMu' = Null /\ exit' = exit /\ inbox' = inbox
              /\ historyErr' = historyErr /\ restarts' = restarts
              /\ saving' = saving \/ \E t, r : Put(a, t, r)
          BY <3>2 DEF Opened, Persistent
        <4>2. opMu = a
          BY <2>1, <3>2 DEF Opened, At, WorkersAgree, Active
        <4> QED BY <2>0, <2>20, <2>25, <4>1, <4>2
      <3>3. CASE Progress(a) \/ FinishCompleted(a) \/ Verdict(a) \/ Conclude(a)
        <4>1. /\ caller' = caller /\ handoff' = handoff /\ opMu' = opMu /\ exit' = exit /\ inbox' = inbox
              /\ historyErr' = historyErr /\ restarts' = restarts
          BY <3>3 DEF Progress, Prepare, OfferSent, OfferReceived, Begin, Checkpoint, Verify, Confirm, Fail,
                      FinishCompleted, Verdict, Conclude
        <4>2. saving' = saving \/ \E t, r : Put(a, t, r)
          BY <3>3 DEF Progress, Prepare, OfferSent, OfferReceived, Begin, Checkpoint, Verify, Confirm, Fail,
                      FinishCompleted, Verdict, Conclude, Persistent, Transient
        <4> QED BY <2>0, <2>20, <2>25, <4>1, <4>2
      <3> QED BY <2>25, <3>1, <3>2, <3>3 DEF EndStep
    <2>26. ASSUME ~Restart, NEW t \in Tasks, NEW a \in Attempts, Incoming("inbox", t, a) \/ Incoming("pool", t, a)
           PROVE  Fine
      <3>1. /\ caller' = caller /\ handoff' = handoff /\ opMu = Null /\ opMu' = a /\ exit' = exit
            /\ historyErr' = historyErr /\ restarts' = restarts
            /\ \E u, r : Put(a, u, r)
            /\ inbox' = inbox \/ (inbox.pc = "idle" /\ inbox' = [inbox EXCEPT !.pc = "receiving"])
        BY <2>26 DEF Incoming
      <3> QED BY <2>0, <2>20, <2>26, <3>1
    <2>27. ASSUME ~Restart, NEW x \in Actors, Save(x)
           PROVE  Fine
      <3>1. /\ caller' = caller /\ handoff' = handoff /\ opMu' = opMu /\ exit' = exit /\ inbox' = inbox
            /\ restarts' = restarts /\ saving' = [saving EXCEPT ![x] = Null] /\ historyErr' \in BOOLEAN
        BY <2>0, <2>27 DEF Save
      <3> QED BY <2>0, <2>20, <2>27, <3>1
    <2>28. ASSUME ~Restart, InboxExit \/ StartInbox \/ ExitCall \/ ExitStep \/ \E t \in Tasks, a \in Attempts, d \in {"yes", "no"} : Decide(t, a, d)
           PROVE  Fine
      <3>1. CASE InboxExit
        <4>1. /\ inbox' = [inbox EXCEPT !.pc = "off", !.stop = FALSE] /\ inbox.pc = "idle"
              /\ UNCHANGED <<saving, caller, exit, opMu, handoff, historyErr, restarts>>
          BY <3>1 DEF InboxExit
        <4> QED BY <2>0, <2>20, <2>28, <4>1
      <3>2. CASE StartInbox
        <4>1. /\ inbox' = [Ensured EXCEPT !.enabled = TRUE] /\ handoff = Null /\ ~isClosing
              /\ UNCHANGED <<saving, caller, exit, opMu, handoff, historyErr, restarts>>
          BY <3>2 DEF StartInbox
        <4>2. inbox' \in [enabled : BOOLEAN, pc : {"off", "idle", "receiving"}, stop : BOOLEAN] /\ inbox'.pc = Ensured.pc
          BY <2>18, <4>1
        <4> QED BY <2>0, <2>18, <2>20, <2>28, <4>1, <4>2
      <3>3. CASE ExitCall \/ ExitSaved \/ Closed
        <4>1. /\ UNCHANGED <<inbox, saving, caller, opMu, handoff, historyErr, restarts>>
              /\ exit' \in {"closing", "stopping", "closed"} /\ (exit' = "closed" => Closed)
              /\ exit = "saving" => saving[Exit] = Null
          BY <3>3 DEF ExitCall, ExitSaved, Closed
        <4> QED BY <2>0, <2>20, <2>28, <4>1
      <3>4. CASE ExitInbox
        <4>1. /\ inbox' = [inbox EXCEPT !.enabled = FALSE, !.stop = (inbox.pc # "off")]
              /\ exit = "stopping" /\ exit' = "draining"
              /\ UNCHANGED <<saving, caller, opMu, handoff, historyErr, restarts>>
          BY <3>4 DEF ExitInbox
        <4> QED BY <2>0, <2>20, <2>28, <4>1
      <3>5. CASE ExitMark
        <4>1. /\ exit = "closing" /\ exit' = "saving" /\ UNCHANGED <<inbox, caller, opMu, handoff, historyErr, restarts>>
              /\ saving' = saving \/ \E t, r : Put(Exit, t, r)
          BY <3>5 DEF ExitMark
        <4> QED BY <2>0, <2>20, <2>28, <4>1
      <3>6. CASE \E t \in Tasks, a \in Attempts, d \in {"yes", "no"} : Decide(t, a, d)
        <4>1. UNCHANGED <<saving, caller, exit, opMu, handoff, inbox, historyErr, restarts>>
          BY <3>6 DEF Decide
        <4> QED BY <2>0, <2>20, <2>28, <4>1
      <3> QED BY <2>28, <3>1, <3>2, <3>3, <3>4, <3>5, <3>6 DEF ExitStep
    <2>29. ~Restart => Fine
      <3>1. ASSUME ~Restart, NEW c \in Callers, \E t \in Tasks, op \in Calls \cap {"pause", "cancel"} : ControlCall(c, op, t)
            PROVE  Fine
        BY <2>24, <3>1
      <3>2. ASSUME ~Restart, NEW t \in Tasks, NEW a \in Attempts, NEW via \in Routes, Incoming(via, t, a)
            PROVE  Fine
        <4>1. via \in {"inbox", "pool"}
          BY TasksAssumption
        <4> QED BY <2>26, <3>2, <4>1
      <3> QED BY <2>23, <2>24, <2>25, <2>27, <2>28, <3>1, <3>2 DEF Next
    <2>30. CASE Restart
      <3>1. /\ \A c \in Callers : caller'[c] = Idle /\ saving'[c] = Null
            /\ saving'[Exit] = Null /\ \A a \in Attempts : saving'[a] = Null
            /\ exit' = "open" /\ opMu' = Null /\ handoff' = Null /\ inbox' = [enabled |-> TRUE, pc |-> "idle", stop |-> FALSE]
            /\ caller' = [c \in Callers |-> Idle] /\ historyErr' = FALSE /\ restarts' = restarts + 1 /\ restarts < MaxRestarts
        BY <2>0, <2>30 DEF Restart
      <3>2. Idle \in Call /\ Idle.pc = "idle" /\ Idle.op = "none"
        BY DEF Idle, Call
      <3>3. ASSUME NEW c \in Callers PROVE CallAgrees(c)'
        BY <3>1, <3>2 DEF CallAgrees
      <3>4. ASSUME NEW a \in Attempts PROVE worker'[a] # Null => worker'[a].pc = "done"
        BY <2>30 DEF Restart, NewWorker
      <3>5. CallsAgree' /\ SaversAgree'
        BY <3>1, <3>3 DEF CallsAgree, SaversAgree
      <3>6. InboxAgrees' /\ ClosedIsOver'
        BY <3>1, <3>4 DEF InboxAgrees, ClosedIsOver, ServedByInbox
      <3>7. /\ caller' \in [Callers -> Call] /\ inbox' \in [enabled : BOOLEAN, pc : {"off", "idle", "receiving"}, stop : BOOLEAN]
            /\ restarts' \in 0 .. MaxRestarts
        BY <2>0, <3>1, <3>2
      <3> QED BY <3>1, <3>5, <3>6, <3>7
    <2>31. CASE ~Restart
      <3>1. Fine /\ \A b \in Attempts : Goes(b)
        BY <2>16, <2>29, <2>31
      <3>2. SaversAgree'
        BY <2>1, <3>1 DEF SaversAgree, Goes, Fine
      <3>3. InboxAgrees'
        <4>1. ASSUME NEW b \in Attempts, ServedByInbox(b)', ~ServedByInbox(b)
              PROVE  worker[b] = Null /\ worker'[b] # Null /\ \E t \in Tasks : Incoming("inbox", t, b)
          BY <3>1, <4>1 DEF Goes, ServedByInbox
        <4>2. ASSUME NEW b \in Attempts, ServedByInbox(b)', ~ServedByInbox(b), NEW d \in Attempts, ServedByInbox(d)'
              PROVE  b = d /\ inbox'.pc = "receiving"
          <5>1. PICK t \in Tasks : Incoming("inbox", t, b)
            BY <4>1, <4>2
          <5>2. inbox.pc = "idle" /\ inbox'.pc = "receiving" /\ \A e \in Attempts \ {b} : worker'[e] = worker[e]
            BY <2>0, <5>1 DEF Incoming
          <5>3. ~ServedByInbox(d)
            BY <2>1, <5>2 DEF InboxAgrees
          <5> QED BY <4>1, <4>2, <5>2, <5>3
        <4>3. ASSUME NEW b \in Attempts, NEW d \in Attempts, ServedByInbox(b)', ServedByInbox(d)', ServedByInbox(b), ServedByInbox(d)
              PROVE  b = d /\ inbox'.pc = "receiving"
          <5>1. b = d /\ inbox.pc = "receiving" /\ \A e \in Attempts : ServedByInbox(e) => e = b
            BY <2>1, <4>3 DEF InboxAgrees
          <5>2. worker'[b].pc # "done"
            BY <4>3 DEF ServedByInbox
          <5> QED BY <3>1, <5>1, <5>2 DEF Fine
        <4> QED BY <4>2, <4>3 DEF InboxAgrees
      <3>4. ClosedIsOver'
        <4>1. CASE exit' = "closed" /\ exit = "closed"
          <5>1. isClosing /\ inbox.pc = "off" /\ (\A a \in Attempts : worker[a] # Null => worker[a].pc = "done")
                /\ \A c \in Callers : caller[c].pc \in Before
            BY <2>1, <4>1 DEF ClosedIsOver, isClosing, Before
          <5>2. inbox'.pc = "off" /\ \A c \in Callers : caller'[c].pc \in Before
            BY <3>1, <5>1 DEF Fine
          <5>3. \A a \in Attempts : worker'[a] # Null => worker'[a].pc = "done"
            BY <3>1, <5>1 DEF Goes
          <5> QED BY <5>2, <5>3 DEF ClosedIsOver, Before
        <4>2. CASE Closed
          BY <4>2 DEF Closed, ClosedIsOver
        <4> QED BY <3>1, <4>1, <4>2 DEF Fine, ClosedIsOver
      <3> QED BY <3>1, <3>2, <3>3, <3>4 DEF Fine
    <2> QED BY <2>30, <2>31
  \* Workers and the records they own after any step.
  <1>WorkerSteps. ASSUME TasksIInv, Next
                  PROVE  worker' \in [Attempts -> Worker \cup {Null}] /\ WorkersAgree' /\ OneLiveTask'
    <2> USE <1>WorkerSteps
    <2>0. /\ mem \in [Tasks -> Task \cup {Null}] /\ worker \in [Attempts -> Worker \cup {Null}]
          /\ disk \in [Tasks -> Row \cup {Null}] /\ opMu \in Actors \cup {Null}
          /\ Null \notin Task \cup Worker \cup Actors \cup Row /\ Attempts \cap Callers = {}
          /\ Null \notin Attempts
          /\ WorkersAgree /\ OneLiveTask /\ StatesAgree /\ CallsAgree
      BY NullAssumption, TasksAssumption DEF TasksIInv, TypeOK, Actors
    <2>1. /\ \A t \in Tasks : mem[t] # Null => mem[t] \in Task /\ mem[t].attempt \in Attempts
          /\ \A a \in Attempts : worker[a] # Null => worker[a] \in Worker /\ worker[a].task \in Tasks
          /\ \A c \in Callers : caller[c] \in Call
      BY <2>0 DEF Task, Worker, TasksIInv, TypeOK
    <2>2. mem' \in [Tasks -> Task \cup {Null}] /\ StatesAgree' /\ HistoryAgrees' /\ (~Restart => Kept)
      BY TaskSteps, HistoryStep
    <2> DEFINE Goal == WorkersAgree' /\ OneLiveTask'
    \* Only the worker of a moves, if any.
    <2>3. ASSUME NEW a \in Attempts \cup {Null}, Alike(Attempts \ {a}), NoneStarts, Kept,
                 \A t \in Tasks : Live(t) /\ mem[t].attempt # a => mem'[t].live \/ mem'[t].state \in Terminal,
                 \A b \in Attempts \ {a} : opMu = b => opMu' = b,
                 a # Null => /\ worker[a] # Null /\ worker'[a] # Null /\ worker'[a].task = worker[a].task
                             /\ Active(a)' \/ \A t \in Tasks : mem'[t] # Null /\ mem'[t].live => mem'[t].attempt # a,
                 a # Null /\ Active(a)' =>
                     LET t == worker[a].task
                     IN  /\ Active(a) /\ worker'[a].pc # "opening"
                         /\ mem[t].live => mem'[t].live \/ mem'[t].state \in Terminal
                         /\ worker'[a].pc = "finish" => worker'[a].cause \in {"cancelled", "rejected", "failed"}
                         /\ \/ mem[t].state \in Terminal
                            \/ /\ worker'[a].pc \in {"prepared", "offered", "sending", "verifying"} => mem'[t].usable
                               /\ worker'[a].pc \in {"sending", "verifying"} => disk'[t] # Null /\ disk'[t].usable
          PROVE  Goal
      <3>1. OneLiveTask'
        BY <2>0, <2>3 DEF OneLiveTask, NoneStarts, Live
      <3>2. ASSUME NEW b \in Attempts, worker'[b] # Null, worker'[b].pc \notin {"rearm", "done"}
            PROVE  LET t == worker'[b].task
                   IN  /\ mem'[t] # Null
                       /\ \/ mem'[t].state \in Terminal
                          \/ /\ mem'[t].live /\ mem'[t].attempt = b
                             /\ worker'[b].pc \in {"prepared", "offered", "sending", "verifying"} => mem'[t].usable
                             /\ worker'[b].pc \in {"sending", "verifying"} => disk'[t] # Null /\ disk'[t].usable
                       /\ worker'[b].pc = "finish" => worker'[b].cause \in {"cancelled", "rejected", "failed"}
                       /\ worker'[b].pc = "opening" => opMu' = b
        <4> DEFINE t == worker[b].task
        <4>1. Active(b) /\ worker'[b].task = t
          BY <2>0, <2>3, <3>2 DEF Active, Alike
        <4>2. t \in Tasks /\ mem[t] # Null
          BY <2>0, <2>1, <4>1 DEF WorkersAgree, Active
        <4>3. mem[t].state \in Terminal => mem'[t].state \in Terminal
          BY <2>3, <4>2 DEF Kept
        <4>4. mem'[t] # Null /\ (mem[t].usable => mem'[t].usable)
              /\ (disk[t] # Null /\ disk[t].usable => disk'[t] # Null /\ disk'[t].usable)
          BY <2>3, <4>2 DEF Kept
        <4>5. mem[t].live /\ mem'[t].live => mem'[t].attempt = mem[t].attempt
          BY <2>3, <4>2, <4>4 DEF NoneStarts
        <4>6. CASE b # a
          <5>1. worker'[b].pc = worker[b].pc /\ worker'[b].cause = worker[b].cause /\ (opMu = b => opMu' = b)
            BY <2>3, <4>1, <4>6 DEF Active, Alike
          <5>2. mem[t].live /\ mem[t].attempt = b => mem'[t].live \/ mem'[t].state \in Terminal
            BY <2>3, <4>2, <4>6 DEF Live
          <5> HIDE DEF t
          <5> QED BY <2>0, <4>1, <4>2, <4>3, <4>4, <4>5, <5>1, <5>2 DEF WorkersAgree, t
        <4>7. CASE b = a
          <5>1. a # Null /\ Active(a)'
            BY <2>0, <3>2, <4>1, <4>7 DEF Active
          <5>2. mem[t].live => mem'[t].live \/ mem'[t].state \in Terminal
            BY <2>3, <4>7, <5>1
          <5>3. mem[t].state \in Terminal \/ (mem[t].live /\ mem[t].attempt = b)
            BY <2>0, <4>1 DEF WorkersAgree
          <5>4. worker'[b].pc = "finish" => worker'[b].cause \in {"cancelled", "rejected", "failed"}
            BY <2>3, <4>7, <5>1
          <5>5. worker'[b].pc # "opening"
            BY <2>3, <4>7, <5>1
          <5>6. \/ mem[t].state \in Terminal
                \/ /\ worker'[a].pc \in {"prepared", "offered", "sending", "verifying"} => mem'[t].usable
                   /\ worker'[a].pc \in {"sending", "verifying"} => disk'[t] # Null /\ disk'[t].usable
            BY <2>3, <4>7, <5>1
          <5> HIDE DEF t
          <5> QED BY <4>1, <4>3, <4>4, <4>5, <4>7, <5>2, <5>3, <5>4, <5>5, <5>6
        <4> QED BY <4>6, <4>7
      <3>3. ASSUME NEW t \in Tasks, mem'[t] # Null, mem'[t].live
            PROVE  LET b == mem'[t].attempt
                   IN  worker'[b] # Null /\ worker'[b].pc \notin {"rearm", "done"} /\ worker'[b].task = t
        <4>1. Live(t) /\ mem'[t].attempt = mem[t].attempt
          BY <2>3, <3>3 DEF Live, NoneStarts
        <4>2. LET b == mem[t].attempt
              IN  b \in Attempts /\ worker[b] # Null /\ worker[b].pc \notin {"rearm", "done"} /\ worker[b].task = t
          BY <2>0, <2>1, <4>1 DEF WorkersAgree, Active, Live
        <4>3. CASE mem[t].attempt # a
          BY <2>3, <4>1, <4>2, <4>3 DEF Alike
        <4>4. CASE mem[t].attempt = a
          <5>1. a # Null
            BY <2>0, <4>2, <4>4
          <5>2. Active(a)'
            BY <2>3, <3>3, <4>1, <4>4, <5>1
          <5> QED BY <2>3, <4>1, <4>2, <4>4, <5>1, <5>2 DEF Active
        <4> QED BY <4>3, <4>4
      <3> QED BY <3>1, <3>2, <3>3 DEF WorkersAgree, Active, Live
    <2>4. restarts' = restarts => Kept
      BY <2>2 DEF Restart, TasksIInv, TypeOK
    <2>5. ASSUME Alike(Attempts), NoneStarts, Kept,
                 \A t \in Tasks : Live(t) => mem'[t].live \/ mem'[t].state \in Terminal,
                 \A a \in Attempts : opMu = a => opMu' = a
          PROVE  Goal
      <3>1. Attempts \ {Null} = Attempts
        BY <2>0
      <3> QED BY <2>3, <2>5, <3>1
    <2> HIDE DEF Goal
    \* What an operation does to a worker.
    <2>7. ASSUME NEW a \in Attempts, worker[a] # Null,
                 \/ worker' = [worker EXCEPT ![a].cancelled = TRUE]
                 \/ \E d \in {"yes", "no"} : worker' = [worker EXCEPT ![a].decision = d]
          PROVE  worker' \in [Attempts -> Worker \cup {Null}] /\ Alike(Attempts)
      BY <2>0, <2>7, <1>WorkerForms
    <2>8. ASSUME worker' = CancelledWithInbox
          PROVE  worker' \in [Attempts -> Worker \cup {Null}] /\ Alike(Attempts)
      BY <2>0, <2>8, <1>WorkerForms
    <2>9. ASSUME NEW a \in Attempts, worker[a] # Null, NEW pc \in Running \cup Ending \cup {"held", "opening", "rearm", "done"},
                 Goto(a, pc)
          PROVE  /\ worker' \in [Attempts -> Worker \cup {Null}] /\ Alike(Attempts \ {a})
                 /\ worker'[a] # Null /\ worker'[a].task = worker[a].task /\ worker'[a].pc = pc
                 /\ worker'[a].cause = worker[a].cause
      BY <2>0, <2>9, <1>WorkerForms
    \* A record that is not started.
    <2>10. ASSUME NEW t \in Tasks, NEW q \in Task, mem[t] # Null, mem' = [mem EXCEPT ![t] = q],
                  q.live => mem[t].live /\ q.attempt = mem[t].attempt
           PROVE  NoneStarts /\ (\A u \in Tasks : u # t /\ Live(u) => mem'[u].live) /\ mem'[t] = q
      BY <2>0, <2>10 DEF NoneStarts, Live
    <2>11. ASSUME mem' = mem
           PROVE  NoneStarts /\ (\A u \in Tasks : Live(u) => mem'[u].live)
      BY <2>11 DEF NoneStarts, Live
    <2> DEFINE Typed == worker' \in [Attempts -> Worker \cup {Null}]
    <2> HIDE DEF Typed
    <2>t. worker' \in [Attempts -> Worker \cup {Null}] <=> Typed
      BY DEF Typed
    \* Steps that change no record and move no worker.
    <2>12. ASSUME mem' = mem, Alike(Attempts), Kept, \A a \in Attempts : opMu = a => opMu' = a
           PROVE  Goal
      BY <2>5, <2>11, <2>12
    <2>13. ASSUME worker' = worker
           PROVE  Typed /\ Alike(Attempts)
      BY <2>0, <2>t, <2>13 DEF Alike
    <2>14. ASSUME NEW c \in Callers, Leave(c)
           PROVE  \A a \in Attempts : opMu = a => opMu' = a
      BY <2>0, <2>14 DEF Leave
    <2>15. ASSUME NEW c \in Callers,
                  \/ \E dir \in Calls \cap {"send", "receive"} : SendCall(c, dir)
                  \/ \E t \in Tasks : ResumeCall(c, t) \/ \E op \in Calls \cap {"pause", "cancel"} : ControlCall(c, op, t)
           PROVE  Typed /\ Goal
      BY <2>4, <2>12, <2>13, <2>15 DEF SendCall, ResumeCall, ControlCall
    <2>16. ASSUME NEW c \in Callers,
                  \/ StopInbox(c) \/ InboxStopped(c) \/ InboxStopTimeout(c) \/ SendRefused(c) \/ ResumeRefused(c)
                  \/ CallReturns(c) \/ Fire(c)
           PROVE  Typed /\ Goal
      <3>1. mem' = mem /\ Kept
        BY <2>4, <2>16 DEF StopInbox, InboxStopped, InboxStopTimeout, SendRefused, ResumeRefused, CallReturns, Fire
      <3>2. Typed /\ Alike(Attempts)
        <4>1. CASE Fire(c)
          <5>1. caller[c].attempt \in Attempts /\ worker[caller[c].attempt] # Null
            BY <2>0, <4>1 DEF Fire, CallsAgree, CallAgrees
          <5> QED BY <2>7, <2>t, <4>1, <5>1 DEF Fire
        <4>2. CASE StopInbox(c)
          BY <2>8, <2>13, <2>t, <4>2 DEF StopInbox
        <4>3. CASE ~Fire(c) /\ ~StopInbox(c)
          BY <2>13, <2>16, <4>3 DEF InboxStopped, InboxStopTimeout, SendRefused, ResumeRefused, CallReturns
        <4> QED BY <4>1, <4>2, <4>3
      <3>3. \A a \in Attempts : opMu = a => opMu' = a
        BY <2>14, <2>16 DEF StopInbox, InboxStopped, InboxStopTimeout, SendRefused, ResumeRefused, CallReturns, Fire
      <3> QED BY <2>12, <3>1, <3>2, <3>3
    <2>17. ASSUME \/ InboxExit \/ StartInbox \/ ExitCall \/ ExitSaved \/ ExitInbox \/ Closed
           PROVE  Typed /\ Goal
      <3>1. mem' = mem /\ Kept /\ opMu' = opMu /\ (worker' = worker \/ worker' = CancelledWithInbox)
        BY <2>4, <2>17 DEF InboxExit, StartInbox, ExitCall, ExitSaved, ExitInbox, Closed
      <3> QED BY <2>8, <2>12, <2>13, <2>t, <3>1
    \* Steps that change a record and move no worker.
    <2>18. ASSUME Alike(Attempts), Kept, opMu' = opMu \/ opMu \notin Attempts, NEW t \in Tasks, NEW q \in Task, mem[t] # Null,
                  mem' = [mem EXCEPT ![t] = q], q.live => mem[t].live /\ q.attempt = mem[t].attempt,
                  mem[t].live => q.live \/ q.state \in Terminal
           PROVE  Goal
      <3>1. NoneStarts /\ (\A u \in Tasks : u # t /\ Live(u) => mem'[u].live) /\ mem'[t] = q
        BY <2>10, <2>18
      <3>2. \A u \in Tasks : Live(u) => mem'[u].live \/ mem'[u].state \in Terminal
        BY <2>18, <3>1 DEF Live
      <3> QED BY <2>5, <2>18, <3>1, <3>2
    <2>19. ASSUME NEW t \in Tasks, mem[t] # Null, NEW s \in States \ Terminal,
                  mem[t].live, mem[t].state \notin Terminal
           PROVE  LET q == [mem[t] EXCEPT !.state = s, !.rev = @ + 1]
                  IN  q \in Task /\ q.live /\ q.attempt = mem[t].attempt
      <3>1. mem[t] \in Task /\ mem[t].rev + 1 \in Nat
        BY <2>1, <2>19 DEF Task
      <3> QED BY <2>19, <3>1 DEF Task
    <2>20. ASSUME NEW c \in Callers, SendRecord(c)
           PROVE  Typed /\ Goal
      <3> DEFINE t == caller[c].task
                 b == caller[c].attempt
                 q == Updated(mem[t], mem[t].state)
      <3>1. \/ mem' = mem
            \/ mem' = [mem EXCEPT ![t] = q] /\ Accepts(t, b)
        BY <2>20 DEF SendRecord, Put
      <3>2. worker' = worker /\ opMu' = opMu /\ restarts' = restarts
        BY <2>20 DEF SendRecord
      <3>3. t \in Tasks /\ mem[t] # Null /\ b \in Attempts /\ Active(b) /\ worker[b].task = t
        BY <2>0, <2>20 DEF SendRecord, CallsAgree, CallAgrees, Active
      <3>4. CASE Accepts(t, b) /\ mem' = [mem EXCEPT ![t] = q]
        <4>1. mem[t] \in Task /\ mem[t].live /\ mem[t].state \in States \ Terminal
          BY <2>0, <2>1, <3>3, <3>4 DEF Accepts, WorkersAgree, Task
        <4>2. q.live /\ q.attempt = mem[t].attempt /\ Keeps(mem[t], q)
          BY <4>1, RecordSteps
        <4> HIDE DEF q
        <4> QED BY <2>4, <2>13, <2>18, <3>2, <3>3, <3>4, <4>1, <4>2 DEF Keeps
      <3>5. CASE mem' = mem
        BY <2>4, <2>12, <2>13, <3>2, <3>5
      <3> QED BY <3>1, <3>4, <3>5
    <2>21. ASSUME NEW c \in Callers, ResumeNoDirectory(c)
           PROVE  Typed /\ Goal
      <3> DEFINE t == caller[c].task
                 q == RecoveringRecord(mem[t])
      <3>1. /\ mem' = [mem EXCEPT ![t] = q] /\ worker' = worker /\ restarts' = restarts /\ opMu = Null
            /\ ~mem[t].live /\ mem[t].state \notin Terminal
        BY <2>21 DEF ResumeNoDirectory, Put, ResumeAllowed, CanResume, Terminal
      <3>2. t \in Tasks /\ mem[t] # Null /\ mem[t] \in Task
        BY <2>0, <2>1, <2>21 DEF ResumeNoDirectory, CallsAgree, CallAgrees
      <3>3. ~q.live /\ Keeps(mem[t], q)
        BY <3>1, <3>2, RecordSteps
      <3> HIDE DEF q, t
      <3> QED BY <2>0, <2>4, <2>13, <2>18, <3>1, <3>2, <3>3 DEF Keeps
    <2>22. ASSUME NEW c \in Callers, PauseMark(c) \/ CancelMark(c)
           PROVE  Typed /\ Goal
      <3> DEFINE t == caller[c].task
      <3>1. t \in Tasks /\ mem[t] # Null /\ mem[t] \in Task /\ worker' = worker /\ restarts' = restarts /\ opMu' = opMu
        BY <2>0, <2>1, <2>22 DEF PauseMark, CancelMark, CallsAgree, CallAgrees
      <3>2. PICK s \in {"pause_requested", "cancel_requested"} :
              \/ mem' = mem
              \/ mem[t].live /\ mem' = [mem EXCEPT ![t] = [mem[t] EXCEPT !.state = s, !.rev = @ + 1]]
        BY <2>22 DEF PauseMark, CancelMark, Intend, Put, CanPause
      <3>3. CASE mem' = mem
        BY <2>4, <2>12, <2>13, <3>1, <3>3
      <3>4. CASE mem[t].live /\ mem' = [mem EXCEPT ![t] = [mem[t] EXCEPT !.state = s, !.rev = @ + 1]]
        <4> DEFINE q == [mem[t] EXCEPT !.state = s, !.rev = @ + 1]
        <4>1. s \in States \ Terminal /\ mem[t].state \notin Terminal
          BY <2>0, <3>1, <3>4 DEF States, Intents, Terminal, StatesAgree
        <4>2. q \in Task /\ q.live /\ q.attempt = mem[t].attempt
          BY <2>19, <3>1, <3>4, <4>1
        <4>3. mem' = [mem EXCEPT ![t] = q]
          BY <3>4
        <4> HIDE DEF q
        <4> QED BY <2>4, <2>13, <2>18, <3>1, <3>4, <4>2, <4>3
      <3> QED BY <3>2, <3>3, <3>4
    <2>23. ASSUME NEW c \in Callers, CancelStopped(c)
           PROVE  Typed /\ Goal
      <3> DEFINE t == caller[c].task
                 q == FinishedRecord(mem[t], "cancelled")
      <3>1. t \in Tasks /\ mem[t] # Null /\ mem[t] \in Task /\ worker' = worker /\ restarts' = restarts /\ opMu' = opMu
        BY <2>0, <2>1, <2>23 DEF CancelStopped, CallsAgree, CallAgrees
      <3>2. \/ mem' = mem
            \/ mem[t].state \notin Terminal /\ mem' = [mem EXCEPT ![t] = q]
        BY <2>23 DEF CancelStopped, Put
      <3>3. CASE mem' = mem
        BY <2>4, <2>12, <2>13, <3>1, <3>3
      <3>4. CASE mem[t].state \notin Terminal /\ mem' = [mem EXCEPT ![t] = q]
        <4>1. ~q.live /\ Keeps(mem[t], q)
          BY <3>1, <3>4, RecordSteps DEF Terminal
        <4>2. q.state \in Terminal
          BY <3>1, <3>4 DEF FinishedRecord, Task, Terminal
        <4> HIDE DEF q
        <4> QED BY <2>4, <2>13, <2>18, <3>1, <3>4, <4>1, <4>2 DEF Keeps
      <3> QED BY <3>2, <3>3, <3>4
    <2>24. ASSUME NEW t \in Tasks, NEW a \in Attempts, NEW d \in {"yes", "no"}, Decide(t, a, d)
           PROVE  Typed /\ Goal
      <3> DEFINE q == [mem[t] EXCEPT !.rev = @ + 1]
      <3>1. /\ mem[t] # Null /\ mem[t].state = "awaiting_acceptance" /\ worker[a].pc = "offered" /\ restarts' = restarts
            /\ opMu' = opMu /\ mem[t].attempt = a /\ worker' = [worker EXCEPT ![a].decision = d]
            /\ mem' = mem \/ mem' = [mem EXCEPT ![t] = q]
        BY <2>24 DEF Decide
      <3>2. mem[t] \in Task /\ mem[t].live
        BY <2>0, <2>1, <3>1 DEF StatesAgree, Terminal
      <3>3. worker[a] # Null
        BY <2>0, <3>1, <3>2 DEF WorkersAgree, Live, Active
      <3>4. Typed /\ Alike(Attempts)
        BY <2>7, <2>24, <2>t, <3>1, <3>3
      <3>5. q \in Task /\ q.live /\ q.attempt = mem[t].attempt
        BY <3>2 DEF Task
      <3> HIDE DEF q
      <3> QED BY <2>4, <2>12, <2>18, <3>1, <3>2, <3>4, <3>5
    <2>25. ASSUME ExitMark
           PROVE  Typed /\ Goal
      <3>1. \/ worker' = worker /\ mem' = mem /\ opMu' = opMu /\ restarts' = restarts
            \/ \E t \in Tasks : /\ Live(t) /\ worker' = [worker EXCEPT ![mem[t].attempt].cancelled = TRUE]
                                /\ opMu' = opMu /\ restarts' = restarts
                                /\ \/ mem' = [mem EXCEPT ![t] = mem[t]]
                                   \/ mem' = [mem EXCEPT ![t] = [mem[t] EXCEPT !.state = "shutdown_requested", !.rev = @ + 1]]
        BY <2>25 DEF ExitMark, Put
      <3>2. CASE worker' = worker /\ mem' = mem /\ opMu' = opMu /\ restarts' = restarts
        BY <2>4, <2>12, <2>13, <3>2
      <3>3. ASSUME NEW t \in Tasks, Live(t), worker' = [worker EXCEPT ![mem[t].attempt].cancelled = TRUE],
                   opMu' = opMu, restarts' = restarts,
                   \/ mem' = [mem EXCEPT ![t] = mem[t]]
                   \/ mem' = [mem EXCEPT ![t] = [mem[t] EXCEPT !.state = "shutdown_requested", !.rev = @ + 1]]
            PROVE  Typed /\ Goal
        <4>1. mem[t] # Null /\ mem[t] \in Task /\ mem[t].live /\ mem[t].state \notin Terminal
          BY <2>0, <2>1, <3>3 DEF StatesAgree, Live
        <4>2. mem[t].attempt \in Attempts /\ worker[mem[t].attempt] # Null
          BY <2>0, <2>1, <3>3, <4>1 DEF WorkersAgree, Active
        <4>3. Typed /\ Alike(Attempts)
          BY <2>7, <2>t, <3>3, <4>2
        <4> DEFINE q == [mem[t] EXCEPT !.state = "shutdown_requested", !.rev = @ + 1]
        <4>4. q \in Task /\ q.live /\ q.attempt = mem[t].attempt
          BY <2>19, <3>3, <4>1 DEF States, Intents, Terminal
        <4>5. mem' = [mem EXCEPT ![t] = mem[t]] \/ mem' = [mem EXCEPT ![t] = q]
          BY <3>3
        <4> HIDE DEF q
        <4> QED BY <2>4, <2>18, <3>3, <4>1, <4>3, <4>4, <4>5
      <3> QED BY <3>1, <3>2, <3>3
    <2>26. ASSUME NEW x \in Actors, Save(x)
           PROVE  Typed /\ Goal
      <3> DEFINE t == saving[x].task
                 q == [mem[t] EXCEPT !.persisted = FALSE]
      <3>1. /\ worker' = worker /\ opMu' = opMu /\ restarts' = restarts /\ saving[x] # Null
            /\ mem' = mem \/ mem' = [mem EXCEPT ![t] = q]
        BY <2>26 DEF Save
      <3>2. t \in Tasks /\ mem[t] # Null /\ mem[t] \in Task
        <4>1. saving[x] \in SavedRow
          BY <3>1 DEF TasksIInv, TypeOK
        <4>2. t \in Tasks /\ saving[x].row \in Row /\ saving[x].row # Null
          BY <2>0, <4>1 DEF SavedRow
        <4>3. saving[x].row \in Copies[t]
          BY <3>1, <4>2 DEF Copies, Writers
        <4> QED BY <2>1, <4>2, <4>3 DEF TasksIInv, HistoryAgrees
      <3>3. q \in Task /\ q.live = mem[t].live /\ q.attempt = mem[t].attempt
        BY <3>2 DEF Task
      <3> HIDE DEF q, t
      <3> QED BY <2>4, <2>12, <2>13, <2>18, <3>1, <3>2, <3>3
    \* Steps of a worker.
    <2>27. ASSUME NEW a \in Attempts, Active(a), NEW v \in Worker, worker' = [worker EXCEPT ![a] = v],
                  v.task = worker[a].task, v.pc \in Running \cup Ending, Kept, NoneStarts,
                  \A b \in Attempts \ {a} : opMu = b => opMu' = b,
                  \A t \in Tasks : Live(t) => mem'[t].live \/ mem'[t].state \in Terminal,
                  v.pc = "finish" => v.cause \in {"cancelled", "rejected", "failed"},
                  LET t == worker[a].task
                  IN  \/ mem[t].state \in Terminal
                      \/ /\ v.pc \in {"prepared", "offered", "sending", "verifying"} => mem'[t].usable
                         /\ v.pc \in {"sending", "verifying"} => disk'[t] # Null /\ disk'[t].usable
           PROVE  Typed /\ Goal
      <3> DEFINE t == worker[a].task
      <3>1. worker[a] # Null /\ v.pc \notin {"rearm", "done", "opening"} /\ t \in Tasks
        BY <2>1, <2>27 DEF Active, Running, Ending
      <3>2. /\ Typed /\ Alike(Attempts \ {a}) /\ worker'[a] # Null /\ worker'[a].task = t /\ worker'[a].pc = v.pc
            /\ worker'[a].cause = v.cause
        BY <2>0, <2>27, <2>t, <3>1 DEF Alike
      <3>3. mem[t] # Null
        BY <2>0, <2>27, <3>1 DEF WorkersAgree
      <3>4. mem[t].live => mem'[t].live \/ mem'[t].state \in Terminal
        BY <2>27, <3>1, <3>3 DEF Live
      <3>5. Active(a)'
        BY <3>1, <3>2 DEF Active
      <3> QED BY <2>3, <2>27, <3>1, <3>2, <3>3, <3>4, <3>5
    <2>28. ASSUME NEW a \in Attempts, Active(a), NEW t \in Tasks, t = worker[a].task,
                  \/ ~Accepts(t, a) /\ mem' = mem
                  \/ Accepts(t, a) /\ \E s \in States \ Terminal :
                       \/ mem' = [mem EXCEPT ![t] = Updated(mem[t], s)]
                       \/ mem' = [mem EXCEPT ![t] = Usable(Updated(mem[t], s))]
           PROVE  NoneStarts /\ \A u \in Tasks : Live(u) => mem'[u].live \/ mem'[u].state \in Terminal
      <3>1. CASE mem' = mem
        BY <2>11, <3>1
      <3>2. ASSUME Accepts(t, a), NEW s \in States \ Terminal, NEW q \in {Updated(mem[t], s), Usable(Updated(mem[t], s))},
                   mem' = [mem EXCEPT ![t] = q]
            PROVE  NoneStarts /\ \A u \in Tasks : Live(u) => mem'[u].live \/ mem'[u].state \in Terminal
        <4>1. mem[t] # Null /\ mem[t] \in Task /\ mem[t].live /\ mem[t].state \notin Terminal
          BY <2>0, <2>1, <2>28, <3>2 DEF WorkersAgree, Accepts
        <4>2. Keeps(mem[t], q) /\ q.live /\ q.attempt = mem[t].attempt
          <5> DEFINE r == Updated(mem[t], s)
          <5>1. /\ Keeps(mem[t], r) /\ r.live /\ r.attempt = mem[t].attempt
                /\ Keeps(mem[t], Usable(r)) /\ Usable(r).live /\ Usable(r).attempt = mem[t].attempt
            BY <3>2, <4>1, RecordSteps
          <5>2. q \in {r, Usable(r)}
            BY <3>2
          <5> HIDE DEF r
          <5> QED BY <5>1, <5>2
        <4>3. NoneStarts /\ (\A u \in Tasks : u # t /\ Live(u) => mem'[u].live) /\ mem'[t] = q
          BY <2>10, <3>2, <4>1, <4>2 DEF Keeps
        <4> QED BY <4>2, <4>3
      <3> QED BY <2>28, <3>1, <3>2
    <2>29. ASSUME NEW a \in Attempts, NEW pc, At(a, pc), pc \notin {"rearm", "done"}
           PROVE  /\ Active(a) /\ worker[a] # Null /\ worker[a] \in Worker /\ worker[a].pc = pc /\ worker[a].task \in Tasks
                  /\ LET t == worker[a].task
                     IN  /\ mem[t] # Null /\ mem[t] \in Task
                         /\ Accepts(t, a) => mem[t].live /\ mem[t].state \in States \ Terminal
                         /\ ~Accepts(t, a) => mem[t].state \in Terminal
                         /\ pc \in {"prepared", "offered", "sending", "verifying"} => mem[t].usable \/ mem[t].state \in Terminal
                         /\ pc \in {"sending", "verifying"} /\ mem[t].state \notin Terminal =>
                              disk[t] # Null /\ disk[t].usable
      <3>1. Active(a) /\ worker[a] # Null /\ worker[a].pc = pc
        BY <2>29 DEF At, Active
      <3>2. worker[a] \in Worker /\ worker[a].task \in Tasks
        BY <2>1, <3>1
      <3>3. mem[worker[a].task] # Null /\ mem[worker[a].task] \in Task
        BY <2>0, <2>1, <3>1, <3>2 DEF WorkersAgree
      <3>4. mem[worker[a].task].state \in States
        BY <3>3 DEF Task
      <3> QED BY <2>0, <3>1, <3>2, <3>3, <3>4 DEF WorkersAgree, Accepts
    <2>30. ASSUME NEW c \in Callers, Spawn(c)
           PROVE  Typed /\ Goal
      <3> DEFINE a == caller[c].attempt
                 v == [worker[a] EXCEPT !.pc = "connecting"]
      <3>1. a \in Attempts /\ worker[a] # Null /\ worker[a].pc = "held"
        BY <2>0, <2>30 DEF Spawn, CallsAgree, CallAgrees
      <3>2. worker' = [worker EXCEPT ![a] = v] /\ mem' = mem /\ restarts' = restarts
        BY <2>30 DEF Spawn
      <3>3. v \in Worker /\ v.task = worker[a].task /\ v.pc = "connecting"
        BY <2>1, <3>1 DEF Worker, Running
      <3>4. Active(a) /\ \A b \in Attempts \ {a} : opMu = b => opMu' = b
        BY <2>14, <2>30, <3>1 DEF Spawn, Active
      <3> HIDE DEF v, a
      <3> QED BY <2>4, <2>11, <2>27, <3>1, <3>2, <3>3, <3>4 DEF Running
    <2>31. ASSUME NEW a \in Attempts, NEW from, NEW pc \in Running \cup Ending, At(a, from), from \notin {"rearm", "done"},
                  Goto(a, pc), Kept, NoneStarts, \A b \in Attempts \ {a} : opMu = b => opMu' = b,
                  \A t \in Tasks : Live(t) => mem'[t].live \/ mem'[t].state \in Terminal,
                  pc # "finish",
                  LET t == worker[a].task
                  IN  \/ mem[t].state \in Terminal
                      \/ /\ pc \in {"prepared", "offered", "sending", "verifying"} => mem'[t].usable
                         /\ pc \in {"sending", "verifying"} => disk'[t] # Null /\ disk'[t].usable
           PROVE  Typed /\ Goal
      <3> DEFINE v == [worker[a] EXCEPT !.pc = pc]
      <3>1. Active(a) /\ worker[a] \in Worker
        BY <2>29, <2>31
      <3>2. v \in Worker /\ v.task = worker[a].task /\ v.pc = pc
        BY <2>31, <3>1 DEF Worker
      <3>3. worker' = [worker EXCEPT ![a] = v]
        BY <2>31 DEF Goto
      <3> HIDE DEF v
      <3> QED BY <2>27, <2>31, <3>1, <3>2, <3>3
    <2>32. ASSUME NEW a \in Attempts, Prepare(a)
           PROVE  Typed /\ Goal
      <3> DEFINE t == worker[a].task
                 r == Updated(mem[t], mem[t].state)
      <3>1. /\ At(a, "connecting") /\ Goto(a, "prepared") /\ opMu' = opMu /\ restarts' = restarts
            /\ IF Accepts(t, a) THEN mem' = [mem EXCEPT ![t] = Usable(r)] ELSE mem' = mem
        BY <2>32 DEF Prepare, Persistent, Put
      <3>2. /\ Active(a) /\ t \in Tasks /\ mem[t] # Null /\ mem[t] \in Task /\ mem[t].state \in States
            /\ (~Accepts(t, a) => mem[t].state \in Terminal) /\ (Accepts(t, a) => mem[t].live /\ mem[t].state \notin Terminal)
        BY <2>29, <3>1 DEF Task
      <3>3. NoneStarts /\ \A u \in Tasks : Live(u) => mem'[u].live \/ mem'[u].state \in Terminal
        BY <2>28, <3>1, <3>2
      <3>4. Accepts(t, a) => mem'[t].usable
        <4>1. Accepts(t, a) => Usable(r).usable
          BY <3>2, RecordSteps
        <4> HIDE DEF r
        <4> QED BY <2>0, <3>1, <3>2, <4>1
      <3> QED BY <2>4, <2>31, <3>1, <3>2, <3>3, <3>4 DEF Running
    <2>33. ASSUME NEW a \in Attempts, NEW from, NEW pc \in Running, NEW s \in States \ Terminal,
                  At(a, from), Transient(a, s), Goto(a, pc), opMu' = opMu, restarts' = restarts,
                  \/ from = "prepared" /\ pc = "offered"
                  \/ from = "sending" /\ pc = "verifying"
           PROVE  Typed /\ Goal
      <3> DEFINE t == worker[a].task
      <3>1. /\ Active(a) /\ t \in Tasks /\ mem[t] # Null
            /\ mem[t].usable \/ mem[t].state \in Terminal
            /\ from = "sending" /\ mem[t].state \notin Terminal => disk[t] # Null /\ disk[t].usable
        BY <2>29, <2>33
      <3>2. NoneStarts /\ \A u \in Tasks : Live(u) => mem'[u].live \/ mem'[u].state \in Terminal
        BY <2>28, <2>33, <3>1 DEF Transient
      <3>3. Kept
        BY <2>4, <2>33
      <3>4. /\ mem[t].usable => mem'[t].usable
            /\ disk[t] # Null /\ disk[t].usable => disk'[t] # Null /\ disk'[t].usable
        BY <3>1, <3>3 DEF Kept
      <3> HIDE DEF t
      <3> QED BY <2>31, <2>33, <3>1, <3>2, <3>3, <3>4 DEF t
    <2>34. ASSUME NEW a \in Attempts, OfferSent(a) \/ Verify(a)
           PROVE  Typed /\ Goal
      BY <2>33, <2>34 DEF OfferSent, Verify, Running, States, Terminal
    <2>35. ASSUME NEW a \in Attempts, Confirm(a) \/ Opened(a)
           PROVE  Typed /\ Goal
      <3> DEFINE t == worker[a].task
      <3>1. PICK s : /\ s = "preparing" \/ s = mem[t].state
                     /\ IF Accepts(t, a) THEN mem' = [mem EXCEPT ![t] = Updated(mem[t], s)] ELSE mem' = mem
        BY <2>35 DEF Confirm, Opened, Persistent, Put
      <3>2. PICK from \in {"verifying", "opening"} :
              /\ At(a, from) /\ restarts' = restarts /\ (opMu' = opMu \/ (from = "opening" /\ opMu' = Null))
              /\ \E pc \in {"confirmed", "connecting"} : Goto(a, pc)
        BY <2>35 DEF Confirm, Opened
      <3>3. /\ Active(a) /\ t \in Tasks /\ mem[t] # Null /\ worker[a].pc = from
            /\ (Accepts(t, a) => mem[t].state \in States \ Terminal)
        BY <2>29, <3>2
      <3>4. "preparing" \in States \ Terminal
        BY DEF States, Terminal
      <3>5. NoneStarts /\ \A u \in Tasks : Live(u) => mem'[u].live \/ mem'[u].state \in Terminal
        BY <2>28, <3>1, <3>3, <3>4
      <3>6. \A b \in Attempts \ {a} : opMu = b => opMu' = b
        BY <2>0, <3>2, <3>3 DEF WorkersAgree
      <3> HIDE DEF t
      <3> QED BY <2>4, <2>31, <3>2, <3>3, <3>5, <3>6 DEF Running, Ending, t
    <2>36. ASSUME NEW a \in Attempts, OfferReceived(a)
           PROVE  Typed /\ Goal
      <3> DEFINE t == worker[a].task
      <3>1. PICK s \in {"recovering", "awaiting_acceptance"}, d \in {"yes", "none"} :
              /\ worker' = [worker EXCEPT ![a].pc = "offered", ![a].decision = d]
              /\ At(a, "connecting") /\ Accepts(t, a) /\ opMu' = opMu /\ restarts' = restarts
              /\ mem' = [mem EXCEPT ![t] = Usable(Updated(mem[t], s))]
        BY <2>36 DEF OfferReceived, Persistent, Put
      <3>2. /\ Active(a) /\ t \in Tasks /\ mem[t] # Null /\ mem[t] \in Task /\ mem[t].live /\ mem[t].state \notin Terminal
            /\ worker[a] \in Worker
        BY <2>29, <3>1
      <3>3. s \in States \ Terminal
        BY <3>1 DEF States, Terminal
      <3>4. NoneStarts /\ \A u \in Tasks : Live(u) => mem'[u].live \/ mem'[u].state \in Terminal
        BY <2>28, <3>1, <3>2, <3>3
      <3>5. Usable(Updated(mem[t], s)).usable
        BY <3>2, <3>3, RecordSteps
      <3>6. mem'[t].usable
        BY <2>0, <3>1, <3>2, <3>5
      <3> DEFINE v == [worker[a] EXCEPT !.pc = "offered", !.decision = d]
      <3>7. v \in Worker /\ v.task = t /\ v.pc = "offered"
        BY <3>1, <3>2 DEF Worker, Running
      <3>8. worker' = [worker EXCEPT ![a] = v]
        BY <2>0, <3>1, <3>2
      <3> HIDE DEF v
      <3> QED BY <2>4, <2>27, <3>1, <3>2, <3>4, <3>6, <3>7, <3>8 DEF Running
    <2>37. ASSUME NEW a \in Attempts, Begin(a)
           PROVE  Typed /\ Goal
      <3> DEFINE t == worker[a].task
                 b == [mem[t] EXCEPT !.rev = @ + 1]
                 q == Updated(b, "transferring")
      <3>1. /\ At(a, "offered") /\ Goto(a, "sending") /\ Accepts(t, a) /\ mem[t].state \notin Intents
            /\ mem' = [mem EXCEPT ![t] = q] /\ opMu' = opMu /\ restarts' = restarts
        BY <2>37 DEF Begin
      <3>2. /\ Active(a) /\ t \in Tasks /\ mem[t] # Null /\ mem[t] \in Task /\ mem[t].live /\ mem[t].state \notin Terminal
            /\ mem[t].attempt = a
        BY <2>29, <3>1 DEF Accepts
      <3>3. b \in Task /\ b.live /\ b.state = mem[t].state /\ b.attempt = mem[t].attempt
        BY <3>2 DEF Task
      <3> HIDE DEF b
      <3>4. "transferring" \in States \ Terminal
        BY DEF States, Terminal
      <3>5. q \in Task /\ q.live /\ q.attempt = mem[t].attempt
        <4>1. Keeps(b, q) /\ q.live /\ q.attempt = b.attempt
          BY <3>2, <3>3, <3>4, RecordSteps
        <4> QED BY <3>3, <4>1 DEF Keeps
      <3>6. q.state = "transferring"
        BY <3>1, <3>3 DEF Updated, Task
      <3> HIDE DEF q, t
      <3>7. NoneStarts /\ (\A u \in Tasks : u # t /\ Live(u) => mem'[u].live) /\ mem'[t] = q
        BY <2>10, <3>1, <3>2, <3>5
      <3>8. disk'[t] # Null /\ disk'[t].usable /\ mem'[t].usable
        <4>1. disk'[t] # Null /\ disk'[t].usable
          BY <2>2, <3>2, <3>5, <3>6, <3>7, <2>0 DEF HistoryAgrees
        <4>2. mem[t].usable
          BY <2>29, <3>1, <3>2 DEF t
        <4> QED BY <2>4, <3>1, <3>2, <4>1, <4>2 DEF Kept
      <3> QED BY <2>4, <2>31, <3>1, <3>2, <3>5, <3>7, <3>8 DEF Running, t
    <2>38. ASSUME NEW a \in Attempts, Checkpoint(a)
           PROVE  Typed /\ Goal
      <3> DEFINE t == worker[a].task
      <3>1. /\ At(a, "sending") /\ worker' = worker /\ opMu' = opMu /\ restarts' = restarts /\ Accepts(t, a)
            /\ mem' = [mem EXCEPT ![t] = Updated(mem[t], mem[t].state)]
        BY <2>38 DEF Checkpoint, Persistent, Put
      <3>2. Active(a) /\ t \in Tasks /\ mem[t].state \in States \ Terminal
        BY <2>29, <3>1
      <3>3. NoneStarts /\ \A u \in Tasks : Live(u) => mem'[u].live \/ mem'[u].state \in Terminal
        BY <2>28, <3>1, <3>2
      <3> QED BY <2>4, <2>5, <2>13, <3>1, <3>3
    <2>39. ASSUME NEW a \in Attempts, NEW cause \in Causes, Fail(a, cause)
           PROVE  Typed /\ Goal
      <3> DEFINE w == worker[a]
                 v == [w EXCEPT !.pc = "failed", !.cause = cause, !.seen = mem[w.task].state]
      <3>1. /\ w # Null /\ w.pc \in Running /\ mem' = mem /\ opMu' = opMu /\ restarts' = restarts
            /\ worker' = [worker EXCEPT ![a].pc = "failed", ![a].cause = cause, ![a].seen = mem[w.task].state]
        BY <2>39 DEF Fail
      <3>2. w \in Worker /\ Active(a) /\ w.task \in Tasks /\ mem[w.task] # Null
        BY <2>0, <2>1, <3>1 DEF Active, Running, WorkersAgree
      <3>3. mem[w.task].state \in States
        BY <2>1, <3>2 DEF Task
      <3>4. v \in Worker /\ v.task = w.task /\ v.pc = "failed"
        BY <2>39, <3>2, <3>3 DEF Worker, Ending, Causes
      <3>5. worker' = [worker EXCEPT ![a] = v]
        BY <2>0, <3>1
      <3> HIDE DEF v
      <3> QED BY <2>4, <2>11, <2>27, <3>1, <3>2, <3>4, <3>5 DEF Ending
    <2>40. ASSUME NEW a \in Attempts, Verdict(a)
           PROVE  Typed /\ Goal
      <3> DEFINE w == worker[a]
      <3>1. PICK pc \in {"shutdown", "pause", "finish", "recover"}, cause \in {"cancelled", "rejected", "failed", "none"} :
              /\ At(a, "failed") /\ mem' = mem /\ opMu' = opMu /\ restarts' = restarts
              /\ worker' = [worker EXCEPT ![a].pc = pc, ![a].seen = Null, ![a].decision = "none", ![a].cause = cause]
              /\ pc = "finish" => cause # "none"
        BY <2>40 DEF Verdict
      <3> DEFINE v == [w EXCEPT !.pc = pc, !.seen = Null, !.decision = "none", !.cause = cause]
      <3>2. w \in Worker /\ Active(a) /\ w.task \in Tasks /\ mem[w.task] # Null
        BY <2>29, <3>1
      <3>4. v \in Worker /\ v.task = w.task /\ v.pc = pc /\ v.cause = cause
        BY <3>1, <3>2 DEF Worker, Ending
      <3>5. worker' = [worker EXCEPT ![a] = v]
        BY <2>0, <3>1
      <3> HIDE DEF v
      <3> QED BY <2>4, <2>11, <2>27, <3>1, <3>2, <3>4, <3>5 DEF Ending
    \* A worker that has concluded.
    <2>41. ASSUME NEW a \in Attempts, NEW pc \in {"rearm", "done"}, worker[a] # Null, Goto(a, pc) \/
                    worker' = [worker EXCEPT ![a] = NewWorker(worker[a].task, "done", worker[a].via)],
                  opMu' = opMu, restarts' = restarts,
                  LET t == worker[a].task
                  IN  \/ mem' = mem /\ \A u \in Tasks : Live(u) => mem[u].attempt # a
                      \/ \E q \in Task : mem[t] # Null /\ mem[t].attempt = a /\ mem' = [mem EXCEPT ![t] = q] /\ ~q.live
           PROVE  Typed /\ Goal
      <3> DEFINE t == worker[a].task
      <3>1. Kept /\ t \in Tasks /\ worker[a] \in Worker
        BY <2>1, <2>4, <2>41
      <3>2. Typed /\ Alike(Attempts \ {a}) /\ worker'[a] # Null /\ worker'[a].task = t /\ ~Active(a)'
        <4>1. CASE Goto(a, pc)
          BY <2>9, <2>t, <2>41, <4>1 DEF Active
        <4>2. CASE worker' = [worker EXCEPT ![a] = NewWorker(worker[a].task, "done", worker[a].via)]
          <5> DEFINE v == NewWorker(worker[a].task, "done", worker[a].via)
          <5>1. v \in Worker /\ v.task = t /\ v.pc = "done"
            BY <3>1 DEF NewWorker, Worker
          <5> HIDE DEF v
          <5> QED BY <2>0, <2>t, <4>2, <5>1 DEF Alike, Active, v
        <4> QED BY <2>41, <4>1, <4>2
      <3>3. /\ NoneStarts /\ \A u \in Tasks : Live(u) /\ mem[u].attempt # a => mem'[u].live
            /\ \A u \in Tasks : mem'[u] # Null /\ mem'[u].live => mem'[u].attempt # a
        <4>1. CASE mem' = mem /\ \A u \in Tasks : Live(u) => mem[u].attempt # a
          BY <2>11, <4>1 DEF Live
        <4>2. ASSUME NEW q \in Task, mem[t] # Null, mem[t].attempt = a, mem' = [mem EXCEPT ![t] = q], ~q.live
              PROVE  /\ NoneStarts /\ \A u \in Tasks : Live(u) /\ mem[u].attempt # a => mem'[u].live
                     /\ \A u \in Tasks : mem'[u] # Null /\ mem'[u].live => mem'[u].attempt # a
          <5>1. NoneStarts /\ (\A u \in Tasks : u # t /\ Live(u) => mem'[u].live) /\ mem'[t] = q
            BY <2>10, <3>1, <4>2
          <5>2. ASSUME NEW u \in Tasks, mem'[u] # Null, mem'[u].live PROVE mem'[u].attempt # a
            <6>1. u # t /\ Live(u) /\ mem'[u].attempt = mem[u].attempt
              BY <4>2, <5>1, <5>2 DEF NoneStarts, Live
            <6> QED BY <2>0, <6>1 DEF WorkersAgree
          <5> QED BY <4>2, <5>1, <5>2
        <4> QED BY <2>41, <4>1, <4>2
      <3> QED BY <2>3, <2>41, <3>1, <3>2, <3>3
    <2>42. ASSUME NEW a \in Attempts, FinishCompleted(a)
           PROVE  Typed /\ Goal
      <3> DEFINE t == worker[a].task
                 q == FinishedRecord(mem[t], "completed")
      <3>1. At(a, "confirmed") /\ opMu' = opMu /\ restarts' = restarts
        BY <2>42 DEF FinishCompleted
      <3>2. /\ Active(a) /\ worker[a] # Null /\ t \in Tasks /\ mem[t] # Null /\ mem[t] \in Task
            /\ (Accepts(t, a) => mem[t].state \notin Terminal) /\ (~Accepts(t, a) => mem[t].state \in Terminal)
        BY <2>29, <3>1
      <3>3. CASE Accepts(t, a) /\ mem[t].state \in {"pause_requested", "shutdown_requested"}
        <4>1. mem' = mem /\ \E pc \in {"pause", "shutdown"} : Goto(a, pc)
          BY <2>42, <3>3 DEF FinishCompleted
        <4> QED BY <2>4, <2>11, <2>31, <3>1, <4>1 DEF Ending
      <3>4. CASE Accepts(t, a) /\ mem[t].state \notin {"pause_requested", "shutdown_requested"}
        <4>1. mem' = [mem EXCEPT ![t] = q] /\ Goto(a, "rearm") /\ mem[t].attempt = a
          BY <2>42, <3>4 DEF FinishCompleted, Put, Accepts
        <4>2. Keeps(mem[t], q) /\ ~q.live
          BY <3>2, <3>4, RecordSteps DEF Terminal, Intents
        <4> HIDE DEF q
        <4> QED BY <2>41, <3>1, <3>2, <4>1, <4>2 DEF Keeps
      <3>5. CASE ~Accepts(t, a)
        <4>1. mem' = mem /\ Goto(a, "rearm")
          BY <2>42, <3>5 DEF FinishCompleted
        <4>2. \A u \in Tasks : Live(u) => mem[u].attempt # a
          BY <2>0, <3>2, <3>5 DEF WorkersAgree, StatesAgree, Live
        <4> QED BY <2>41, <3>1, <3>2, <4>1, <4>2
      <3> QED BY <3>3, <3>4, <3>5
    <2>43. ASSUME NEW a \in Attempts, Conclude(a)
           PROVE  Typed /\ Goal
      <3> DEFINE t == worker[a].task
      <3>1. /\ worker[a] # Null /\ worker[a].pc \in {"pause", "recover", "shutdown", "finish"} /\ Goto(a, "rearm")
            /\ opMu' = opMu /\ restarts' = restarts
        BY <2>43 DEF Conclude
      <3>2. /\ Active(a) /\ t \in Tasks /\ mem[t] # Null /\ mem[t] \in Task
            /\ (~Accepts(t, a) => mem[t].state \in Terminal)
        BY <2>0, <2>1, <3>1 DEF Active, WorkersAgree, Accepts
      <3>3. CASE Accepts(t, a)
        <4>1. worker[a].pc = "finish" => worker[a].cause \in {"cancelled", "rejected", "failed"}
          BY <2>0, <3>2 DEF WorkersAgree
        <4>2. PICK q : mem' = [mem EXCEPT ![t] = q]
                       /\ q \in {PausedRecord(mem[t]), RecoveringRecord(mem[t])}
                                 \cup {FinishedRecord(mem[t], s) : s \in {"cancelled", "rejected", "failed"}}
          BY <2>43, <3>3, <4>1 DEF Conclude, Put
        <4>3. mem[t].state \notin Terminal /\ mem[t].attempt = a
          BY <3>3 DEF Accepts
        <4>4. q \in Task /\ ~q.live
          <5>1. CASE q \in {PausedRecord(mem[t]), RecoveringRecord(mem[t])}
            <6>1. /\ Keeps(mem[t], PausedRecord(mem[t])) /\ ~PausedRecord(mem[t]).live
                  /\ Keeps(mem[t], RecoveringRecord(mem[t])) /\ ~RecoveringRecord(mem[t]).live
              BY <3>2, <4>3, RecordSteps
            <6>2. Keeps(mem[t], q) /\ ~q.live
              BY <5>1, <6>1
            <6> QED BY <6>2 DEF Keeps
          <5>2. ASSUME NEW s \in {"cancelled", "rejected", "failed"}, q = FinishedRecord(mem[t], s)
                PROVE  q \in Task /\ ~q.live
            <6>1. s \in Terminal /\ s # "completed"
              BY <5>2 DEF Terminal
            <6> QED BY <3>2, <4>3, <5>2, <6>1, RecordSteps DEF Keeps
          <5> QED BY <4>2, <5>1, <5>2
        <4> QED BY <2>41, <3>1, <3>2, <4>2, <4>3, <4>4
      <3>4. CASE ~Accepts(t, a)
        <4>1. mem' = mem
          BY <2>43, <3>4 DEF Conclude
        <4>2. \A u \in Tasks : Live(u) => mem[u].attempt # a
          BY <2>0, <3>2, <3>4 DEF WorkersAgree, StatesAgree, Live
        <4> QED BY <2>41, <3>1, <4>1, <4>2
      <3> QED BY <3>3, <3>4
    <2>44. ASSUME NEW a \in Attempts, Return(a)
           PROVE  Typed /\ Goal
      <3>1. /\ worker[a] # Null /\ worker[a].pc = "rearm" /\ mem' = mem /\ opMu' = opMu /\ restarts' = restarts
            /\ worker' = [worker EXCEPT ![a] = NewWorker(worker[a].task, "done", worker[a].via)]
        BY <2>44 DEF Return, At
      <3>2. \A u \in Tasks : Live(u) => mem[u].attempt # a
        BY <2>0, <3>1 DEF WorkersAgree, Active
      <3> QED BY <2>41, <3>1, <3>2
    \* A new attempt.
    <2>w. ASSUME NEW t \in Tasks, NEW pc \in {"held", "opening", "done"}, NEW via \in {"call", "inbox", "pool"}
          PROVE  LET v == NewWorker(t, pc, via) IN v \in Worker /\ v.task = t /\ v.pc = pc
      BY <2>w DEF NewWorker, Worker
    <2>45. ASSUME NEW t \in Tasks, NEW a \in Attempts, worker[a] = Null, NEW q \in Task,
                  NEW pc \in {"held", "opening"}, NEW via \in {"call", "inbox", "pool"},
                  mem' = [mem EXCEPT ![t] = q], worker' = [worker EXCEPT ![a] = NewWorker(t, pc, via)],
                  q.live, q.attempt = a, \A u \in Tasks : ~Live(u), mem[t] # Null => mem[t].state \notin Terminal,
                  opMu = Null, pc = "opening" => opMu' = a
           PROVE  Typed /\ Goal
      <3> DEFINE v == NewWorker(t, pc, via)
      <3>1. v \in Worker /\ v.task = t /\ v.pc = pc /\ v # Null
        BY <2>0, <2>45, <2>w
      <3>2. Typed /\ worker'[a] = v /\ \A b \in Attempts \ {a} : worker'[b] = worker[b]
        BY <2>0, <2>t, <2>45, <3>1
      <3> HIDE DEF v
      <3>3. mem'[t] = q /\ q # Null /\ q.state \notin Terminal /\ \A u \in Tasks \ {t} : mem'[u] = mem[u]
        BY <2>0, <2>2, <2>45 DEF StatesAgree
      <3>4. OneLiveTask'
        BY <2>45, <3>3 DEF OneLiveTask, Live
      <3>5. ASSUME NEW b \in Attempts, worker'[b] # Null, worker'[b].pc \notin {"rearm", "done"}
            PROVE  LET u == worker'[b].task
                   IN  /\ mem'[u] # Null
                       /\ \/ mem'[u].state \in Terminal
                          \/ /\ mem'[u].live /\ mem'[u].attempt = b
                             /\ worker'[b].pc \in {"prepared", "offered", "sending", "verifying"} => mem'[u].usable
                             /\ worker'[b].pc \in {"sending", "verifying"} => disk'[u] # Null /\ disk'[u].usable
                       /\ worker'[b].pc = "finish" => worker'[b].cause \in {"cancelled", "rejected", "failed"}
                       /\ worker'[b].pc = "opening" => opMu' = b
        <4>1. CASE b = a
          BY <2>45, <3>1, <3>2, <3>3, <4>1
        <4>2. CASE b # a
          <5>1. worker'[b] = worker[b] /\ Active(b) /\ worker[b].task \in Tasks
            BY <2>1, <3>2, <3>5, <4>2 DEF Active
          <5>2. /\ mem[worker[b].task] # Null /\ mem[worker[b].task].state \in Terminal
                /\ worker[b].pc = "finish" => worker[b].cause \in {"cancelled", "rejected", "failed"}
                /\ worker[b].pc # "opening"
            BY <2>0, <2>45, <5>1 DEF WorkersAgree, Live
          <5>3. worker[b].task # t
            BY <2>45, <5>2
          <5> QED BY <3>3, <5>1, <5>2, <5>3
        <4> QED BY <4>1, <4>2
      <3>6. ASSUME NEW u \in Tasks, mem'[u] # Null, mem'[u].live
            PROVE  LET b == mem'[u].attempt
                   IN  worker'[b] # Null /\ worker'[b].pc \notin {"rearm", "done"} /\ worker'[b].task = u
        <4>1. u = t
          BY <2>45, <3>3, <3>6 DEF Live
        <4> QED BY <2>45, <3>1, <3>2, <3>3, <4>1
      <3> QED BY <3>2, <3>4, <3>5, <3>6 DEF Goal, WorkersAgree, Active, Live
    <2>46. ASSUME NEW c \in Callers, NEW t \in Tasks, NEW a \in Attempts, SendCreate(c, t, a)
           PROVE  Typed /\ Goal
      <3> DEFINE q == NewTask(caller[c].op, a)
      <3>1. q \in Task /\ q.live /\ q.attempt = a
        BY <2>46 DEF NewTask, Task, SendCreate, States, TasksIInv, TypeOK
      <3>2. /\ mem' = [mem EXCEPT ![t] = q] /\ worker' = [worker EXCEPT ![a] = NewWorker(t, "held", "call")]
            /\ worker[a] = Null /\ mem[t] = Null /\ opMu = Null /\ \A u \in Tasks : ~Live(u)
        BY <2>46 DEF SendCreate, Put, Fresh, MayCreate, hasActive
      <3> HIDE DEF q
      <3> QED BY <2>45, <3>1, <3>2
    <2>47. ASSUME NEW c \in Callers, NEW a \in Attempts, ResumeStart(c, a)
           PROVE  Typed /\ Goal
      <3> DEFINE t == caller[c].task
                 q == [mem[t] EXCEPT !.state = "recovering", !.attempt = a, !.rev = @ + 1, !.live = TRUE]
      <3>1. /\ mem' = [mem EXCEPT ![t] = q] /\ worker' = [worker EXCEPT ![a] = NewWorker(t, "held", "call")]
            /\ worker[a] = Null /\ opMu = Null /\ (\A u \in Tasks \ {t} : ~Live(u)) /\ ~mem[t].live
            /\ mem[t].state \in {"paused", "recovering"}
        BY <2>47 DEF ResumeStart, Put, Fresh, ResumeAllowed, CanResume
      <3>2. t \in Tasks /\ mem[t] # Null /\ mem[t] \in Task
        BY <2>0, <2>1, <2>47 DEF ResumeStart, CallsAgree, CallAgrees
      <3>3. q \in Task /\ q.live /\ q.attempt = a
        <4> DEFINE e == [mem[t] EXCEPT !.state = "recovering", !.attempt = a]
        <4>1. e \in Task /\ e.attempt = a /\ e.rev = mem[t].rev /\ mem[t].rev \in Nat
          BY <2>47, <3>2 DEF Task, States
        <4>3. e.rev + 1 \in Nat
          BY <4>1
        <4>2. q = [e EXCEPT !.rev = @ + 1, !.live = TRUE]
          BY <3>2 DEF Task
        <4> HIDE DEF e, q
        <4> QED BY <4>1, <4>2, <4>3 DEF Task
      <3>4. (\A u \in Tasks : ~Live(u)) /\ mem[t].state \notin Terminal
        BY <3>1 DEF Live, Terminal
      <3> HIDE DEF q, t
      <3> QED BY <2>45, <3>1, <3>2, <3>3, <3>4
    <2>48. ASSUME NEW t \in Tasks, NEW a \in Attempts, NEW via \in Routes, Incoming(via, t, a)
           PROVE  Typed /\ Goal
      <3> DEFINE q == NewTask("receive", a)
      <3>1. q \in Task /\ q.live /\ q.attempt = a /\ via \in {"call", "inbox", "pool"}
        BY <2>48, TasksAssumption DEF NewTask, Task, States, TasksIInv, TypeOK
      <3>2. /\ mem' = [mem EXCEPT ![t] = q] /\ worker' = [worker EXCEPT ![a] = NewWorker(t, "opening", via)]
            /\ worker[a] = Null /\ mem[t] = Null /\ opMu = Null /\ (\A u \in Tasks : ~Live(u)) /\ opMu' = a
        BY <2>48 DEF Incoming, Put, Fresh, MayCreate, hasActive
      <3> HIDE DEF q
      <3> QED BY <2>45, <3>1, <3>2
    <2>49. ASSUME Restart
           PROVE  Typed /\ Goal
      <3>1. worker' = [a \in Attempts |-> worker'[a]]
        BY <2>49 DEF Restart
      <3>2. \A a \in Attempts : worker'[a] = IF worker[a] = Null THEN Null ELSE NewWorker(worker[a].task, "done", worker[a].via)
        BY <2>49 DEF Restart
      <3>3. ASSUME NEW a \in Attempts, worker[a] # Null
            PROVE  worker'[a] \in Worker /\ worker'[a].pc = "done"
        <4>1. worker[a] \in Worker /\ worker[a].task \in Tasks /\ worker[a].via \in {"call", "inbox", "pool"}
          BY <2>1, <3>3 DEF Worker
        <4> QED BY <2>w, <3>2, <3>3, <4>1
      <3>4. Typed
        BY <2>t, <3>1, <3>2, <3>3
      <3>5. \A t \in Tasks : mem'[t] # Null => ~mem'[t].live
        BY <2>49 DEF Restart, Restored
      <3> QED BY <3>2, <3>3, <3>4, <3>5 DEF Goal, WorkersAgree, OneLiveTask, Active, Live
    <2>50. ASSUME NEW c \in Callers, StartStep(c) \/ ControlStep(c)
           PROVE  Typed /\ Goal
      BY <2>16, <2>20, <2>21, <2>22, <2>23, <2>30, <2>46, <2>47, <2>50 DEF StartStep, ControlStep
    <2>51. ASSUME NEW a \in Attempts, Progress(a) \/ EndStep(a)
           PROVE  Typed /\ Goal
      BY <2>32, <2>34, <2>35, <2>36, <2>37, <2>38, <2>39, <2>40, <2>42, <2>43, <2>44, <2>51 DEF Progress, EndStep
    <2>52. Typed /\ Goal
      BY <2>15, <2>17, <2>24, <2>25, <2>26, <2>35, <2>48, <2>49, <2>50, <2>51
      DEF Next, ExitStep
    <2> QED BY <2>52, <2>t DEF Goal
  <1>1. Init => TasksIInv
    <2> SUFFICES ASSUME Init PROVE TasksIInv
      OBVIOUS
    <2>1. Idle \in Call /\ Idle.pc = "idle" /\ Idle.op = "none"
      BY DEF Idle, Call
    <2>2. TypeOK
      <3>1. /\ mem \in [Tasks -> Task \cup {Null}] /\ disk \in [Tasks -> Row \cup {Null}]
            /\ saving \in [Actors -> SavedRow \cup {Null}] /\ worker \in [Attempts -> Worker \cup {Null}]
        BY DEF Init
      <3>2. caller \in [Callers -> Call]
        BY <2>1 DEF Init
      <3>3. restarts \in 0 .. MaxRestarts
        BY TasksAssumption DEF Init
      <3>4. inbox \in [enabled : BOOLEAN, pc : {"off", "idle", "receiving"}, stop : BOOLEAN]
        BY DEF Init
      <3> QED BY <3>1, <3>2, <3>3, <3>4 DEF Init, TypeOK
    <2>3. \A t \in Tasks : mem[t] = Null /\ disk[t] = Null /\ Copies[t] = {}
      BY DEF Init, Copies, Writers
    <2>4. StatesAgree /\ WorkersAgree /\ HistoryAgrees /\ OneLiveTask
      BY <2>3 DEF Init, StatesAgree, WorkersAgree, HistoryAgrees, OneLiveTask, Active, Live
    <2>5. \A c \in Callers : CallAgrees(c)
      <3> SUFFICES ASSUME NEW c \in Callers PROVE CallAgrees(c)
        OBVIOUS
      <3>1. caller[c] = Idle /\ saving[c] = Null
        BY DEF Init, Actors
      <3> QED BY <2>1, <3>1 DEF CallAgrees
    <2>6. SaversAgree /\ InboxAgrees /\ ClosedIsOver
      BY DEF Init, SaversAgree, InboxAgrees, ClosedIsOver, ServedByInbox, Actors
    <2> QED BY <2>2, <2>4, <2>5, <2>6 DEF TasksIInv, CallsAgree
  <1>2. TasksIInv /\ [Next]_vars => TasksIInv'
    <2> SUFFICES ASSUME TasksIInv, [Next]_vars PROVE TasksIInv'
      OBVIOUS
    <2>1. CASE Next
      <3>1. Recorded \/ (\E x \in Actors : Save(x)) \/ Restart
        BY <2>1, TaskSteps
      <3>2. mem' \in [Tasks -> Task \cup {Null}] /\ disk' \in [Tasks -> Row \cup {Null}]
            /\ saving' \in [Actors -> SavedRow \cup {Null}] /\ StatesAgree' /\ HistoryAgrees'
        BY <3>1, HistoryStep
      <3>3. worker' \in [Attempts -> Worker \cup {Null}] /\ WorkersAgree' /\ OneLiveTask'
        BY <2>1, <1>WorkerSteps
      <3>4. /\ caller' \in [Callers -> Call] /\ handoff' \in Callers \cup {Null} /\ opMu' \in Actors \cup {Null}
            /\ inbox' \in [enabled : BOOLEAN, pc : {"off", "idle", "receiving"}, stop : BOOLEAN]
            /\ exit' \in {"open", "closing", "saving", "stopping", "draining", "closed"}
            /\ historyErr' \in BOOLEAN /\ restarts' \in 0 .. MaxRestarts
        BY <2>1, <1>CallSteps
      <3>5. CallsAgree' /\ SaversAgree' /\ InboxAgrees' /\ ClosedIsOver'
        BY <2>1, <1>CallSteps
      <3>6. TypeOK'
        BY <3>2, <3>3, <3>4 DEF TypeOK
      <3> QED BY <3>2, <3>3, <3>5, <3>6 DEF TasksIInv
    <2>2. CASE UNCHANGED vars
      BY <2>2 DEF vars, TasksIInv, TypeOK, StatesAgree, WorkersAgree, CallsAgree, CallAgrees, SaversAgree, InboxAgrees,
                  ServedByInbox, HistoryAgrees, Copies, Writers, ClosedIsOver, OneLiveTask, Live, Active
    <2> QED BY <2>1, <2>2
  <1> QED BY <1>1, <1>2, PTL DEF Spec

\* Memory, history, workers and shutdown agree: a stopped task is stored as it
\* stopped once its saves are done, a worker that can still change its task
\* owns the task's current attempt, and what shutdown leaves behind is at rest.
THEOREM TasksAgree == Spec => []TasksInv
  <1>1. TasksIInv => TasksInv
    <2> SUFFICES ASSUME TasksIInv PROVE TasksInv
      OBVIOUS
    <2>0. /\ TypeOK /\ StatesAgree /\ WorkersAgree /\ CallsAgree /\ SaversAgree /\ HistoryAgrees /\ ClosedIsOver
          /\ Actors = Attempts \cup Callers \cup {Exit} /\ Null \notin Task \cup Row
      BY NullAssumption DEF TasksIInv, Actors
    <2>1. ASSUME NEW t \in Tasks, mem[t] # Null, ~mem[t].live, mem[t].persisted, Writers(t) = {}
          PROVE  disk[t] = Stored(mem[t])
      <3>1. Stored(mem[t]) \in Copies[t]
        BY <2>0, <2>1 DEF HistoryAgrees
      <3> QED BY <2>1, <3>1 DEF Copies
    <2>2. WorkerOwnsAttempt
      BY <2>0 DEF WorkersAgree, WorkerOwnsAttempt, Active
    <2>3. ASSUME exit = "closed"
          PROVE  inbox.pc = "off" /\ \A x \in Actors : saving[x] = Null
      <3>1. \A a \in Attempts : saving[a] = Null
        BY <2>0, <2>3 DEF ClosedIsOver, SaversAgree, WritesAt
      <3>2. \A c \in Callers : saving[c] = Null
        BY <2>0, <2>3 DEF ClosedIsOver, CallsAgree, CallAgrees
      <3>3. saving[Exit] = Null
        BY <2>0, <2>3 DEF SaversAgree
      <3> QED BY <2>0, <2>3, <3>1, <3>2, <3>3 DEF ClosedIsOver
    <2>4. ASSUME exit = "closed", NEW t \in Tasks, mem[t] # Null
          PROVE  ~mem[t].live /\ mem[t].state \notin Intents /\ Writers(t) = {}
      <3>1. mem[t] \in Task
        BY <2>0, <2>4 DEF TypeOK
      <3>2. ~mem[t].live
        BY <2>0, <2>4, <3>1 DEF WorkersAgree, Live, Active, ClosedIsOver, Task
      <3>3. mem[t].state \in Terminal \cup {"paused", "recovering"}
        BY <2>0, <2>4, <3>2 DEF StatesAgree
      <3> QED BY <2>3, <2>4, <3>2, <3>3 DEF Writers, Terminal, Intents
    <2> QED BY <2>0, <2>1, <2>2, <2>3, <2>4 DEF TasksInv, StoppedIsDurable, ExitIsClean
  <1> QED BY <1>1, TasksHold, PTL

\* At most one task has a cancel function, whatever calls, offers and pooled
\* sessions arrive at once.
THEOREM OneTaskIsLive == Spec => []OneLiveTask
  BY TasksHold, PTL DEF TasksIInv

\* While a call that has stopped the listener goes on to start its transfer,
\* nobody starts the listener.
THEOREM ListenerStaysOff == Spec => []ListenerYields
  <1>1. TasksIInv => ListenerYields
    BY DEF TasksIInv, CallsAgree, CallAgrees, ListenerYields
  <1> QED BY <1>1, TasksHold, PTL

\* After an accepted pause, cancellation or shutdown no progress of the attempt
\* shows a running or a completed transfer again.
THEOREM IntentsAreKept == Spec => IntentsHold
  <1>1. TasksIInv /\ [Next]_vars =>
          [\A t \in Tasks : mem[t] # Null /\ mem[t].state \in Intents /\ restarts' = restarts =>
             mem'[t].state \in Intents \cup {"paused", "recovering", "rejected", "failed", "cancelled"}]_vars
    <2> SUFFICES ASSUME TasksIInv, Next, NEW t \in Tasks, mem[t] # Null, mem[t].state \in Intents, restarts' = restarts
                 PROVE  mem'[t].state \in Intents \cup {"paused", "recovering", "rejected", "failed", "cancelled"}
      OBVIOUS
    <2>0. mem \in [Tasks -> Task \cup {Null}] /\ restarts \in Nat /\ saving \in [Actors -> SavedRow \cup {Null}]
      BY TasksAssumption DEF TasksIInv, TypeOK
    <2>1. Recorded \/ \E x \in Actors : Save(x)
      <3>1. ~Restart
        BY <2>0 DEF Restart
      <3> QED BY <3>1, TaskSteps
    <2>2. CASE Quiet
      BY <2>2 DEF Quiet
    <2>3. ASSUME NEW x \in Actors, NEW u \in Tasks, NEW q \in Task, Written(x, u, q)
          PROVE  mem'[t].state \in Intents \cup {"paused", "recovering", "rejected", "failed", "cancelled"}
      BY <2>0, <2>3 DEF Written, Put, Keeps
    <2>4. ASSUME NEW u \in Tasks, NEW q \in Task, Noted(u, q)
          PROVE  mem'[t].state \in Intents \cup {"paused", "recovering", "rejected", "failed", "cancelled"}
      BY <2>0, <2>4 DEF Noted, Keeps
    <2>5. ASSUME NEW x \in Actors, Save(x)
          PROVE  mem'[t].state \in Intents
      <3>1. mem' = mem \/ \E u \in Tasks : mem' = [mem EXCEPT ![u].persisted = FALSE]
        BY <2>0, <2>5 DEF Save, SavedRow
      <3>2. CASE mem' = mem
        BY <3>2
      <3>3. ASSUME NEW u \in Tasks, mem' = [mem EXCEPT ![u].persisted = FALSE] PROVE mem'[t].state = mem[t].state
        <4>1. mem[t] \in Task
          BY <2>0
        <4> QED BY <2>0, <3>3, <4>1 DEF Task
      <3> QED BY <3>1, <3>2, <3>3
    <2> QED BY <2>1, <2>2, <2>3, <2>4, <2>5 DEF Recorded
  <1> QED BY <1>1, TasksHold, PTL DEF Spec, IntentsHold

\* An end is final in memory and in the history, a transfer that has begun can
\* be resumed after the process died, and a restart makes nothing active.
THEOREM HistoryStays == Spec => HistoryKept
  <1> DEFINE Finished == \A t \in Tasks :
                /\ mem[t] # Null /\ mem[t].state \in Terminal /\ restarts' = restarts =>
                      mem'[t].state = mem[t].state
                /\ disk[t] # Null /\ disk[t].state \in Terminal => disk'[t] = disk[t]
             Begun == \A t \in Tasks :
                restarts' # restarts /\ mem[t] # Null =>
                    (mem[t].persisted /\ mem[t].state \in {"transferring", "verifying"} =>
                        mem'[t] # Null /\ mem'[t].state = "recovering")
             Started == \A t \in Tasks : restarts' # restarts /\ mem'[t] # Null =>
                /\ ~mem'[t].live /\ mem'[t].state \in Terminal \cup {"recovering"}
                /\ mem'[t].state = "recovering" => mem'[t].usable
  <1>0. ASSUME TasksIInv
        PROVE  /\ mem \in [Tasks -> Task \cup {Null}] /\ disk \in [Tasks -> Row \cup {Null}]
               /\ saving \in [Actors -> SavedRow \cup {Null}] /\ restarts \in Nat /\ HistoryAgrees
               /\ Null \notin Task \cup Row \cup SavedRow
    BY <1>0, TasksAssumption, NullAssumption DEF TasksIInv, TypeOK
  <1>1. ASSUME TasksIInv, Next PROVE Finished
    <2> SUFFICES ASSUME NEW t \in Tasks
                 PROVE  /\ mem[t] # Null /\ mem[t].state \in Terminal /\ restarts' = restarts => mem'[t].state = mem[t].state
                        /\ disk[t] # Null /\ disk[t].state \in Terminal => disk'[t] = disk[t]
      OBVIOUS
    <2>1. mem[t] # Null /\ mem[t].state \in Terminal /\ restarts' = restarts => mem'[t].state = mem[t].state
      <3> SUFFICES ASSUME mem[t] # Null, mem[t].state \in Terminal, restarts' = restarts
                   PROVE  mem'[t].state = mem[t].state
        OBVIOUS
      <3>1. ~Restart
        BY <1>0, <1>1 DEF Restart
      <3>2. Recorded \/ \E x \in Actors : Save(x)
        BY <1>1, <3>1, TaskSteps
      <3>3. Kept
        BY <1>1, <3>1, <3>2, HistoryStep
      <3> QED BY <3>3 DEF Kept
    <2>2. ASSUME disk[t] # Null, disk[t].state \in Terminal
          PROVE  disk'[t] = disk[t]
      <3>1. disk[t] \in Row /\ mem[t] # Null /\ disk[t] = Stored(mem[t]) /\ disk[t].rev = mem[t].rev /\ disk[t].rev \in Nat
            /\ disk[t].state = mem[t].state
        <4>1. disk[t] \in Copies[t]
          BY <2>2 DEF Copies
        <4>2. disk[t] \in Row /\ disk[t].rev \in Nat
          BY <1>0, <1>1, <2>2 DEF Row
        <4>3. mem[t] # Null /\ disk[t] = Stored(mem[t])
          BY <1>0, <1>1, <2>2, <4>1 DEF HistoryAgrees
        <4>4. Stored(mem[t]).rev = mem[t].rev /\ Stored(mem[t]).state = mem[t].state
          BY DEF Stored
        <4> QED BY <4>2, <4>3, <4>4
      <3>2. CASE Restart
        BY <2>2, <3>2 DEF Restart, RestoredRow
      <3>3. CASE Quiet
        BY <3>3 DEF Quiet
      <3>4. ASSUME NEW x \in Actors, NEW u \in Tasks, NEW q \in Task, Written(x, u, q)
            PROVE  disk'[t] = disk[t]
        BY <3>4 DEF Written
      <3>5. ASSUME NEW u \in Tasks, NEW q \in Task, Noted(u, q)
            PROVE  disk'[t] = disk[t]
        BY <1>0, <1>1, <2>2, <3>1, <3>5 DEF Noted, Keeps
      <3>6. ASSUME NEW x \in Actors, Save(x)
            PROVE  disk'[t] = disk[t]
        <4> DEFINE u == saving[x].task
                   p == saving[x].row
        <4>1. saving[x] # Null /\ saving[x] \in SavedRow /\ (disk' = disk \/ disk' = Upsert(u, p))
          BY <1>0, <1>1, <3>6 DEF Save
        <4>2. p \in Row /\ p.rev \in Nat /\ p # Null /\ u \in Tasks
          BY <1>0, <1>1, <4>1 DEF SavedRow, Row
        <4>3. u = t => p.rev <= mem[t].rev
          <5>1. u = t => p \in Copies[t]
            BY <4>1, <4>2 DEF Copies, Writers
          <5> QED BY <1>0, <1>1, <5>1 DEF HistoryAgrees
        <4> HIDE DEF u, p
        <4> QED BY <1>0, <1>1, <2>2, <3>1, <4>1, <4>2, <4>3 DEF Upsert
      <3> QED BY <1>1, <3>2, <3>3, <3>4, <3>5, <3>6, TaskSteps DEF Recorded
    <2> QED BY <2>1, <2>2
  <1>2. ASSUME TasksIInv, Next PROVE Begun /\ Started
    <2>1. restarts' # restarts => Restart
      BY <1>2, TaskSteps
    <2>2. ASSUME Restart, NEW t \in Tasks, disk[t] # Null
          PROVE  LET p == RestoredRow(disk[t])
                 IN  /\ mem'[t] = Restored(p) /\ disk[t] \in Row /\ Restored(p) \in Task
                     /\ Restored(p).state = p.state /\ Restored(p).usable = p.usable /\ ~Restored(p).live
                     /\ p.usable = disk[t].usable
                     /\ p.state = IF disk[t].state \in Terminal THEN disk[t].state
                                  ELSE IF disk[t].usable THEN "recovering" ELSE "failed"
      <3>1. disk[t] \in Row /\ mem'[t] = Restored(RestoredRow(disk[t]))
        BY <1>0, <1>2, <2>2 DEF Restart
      <3>2. RestoredRow(disk[t]) \in Row
        <4>1. ASSUME NEW p \in Row, NEW s \in States PROVE [p EXCEPT !.state = s, !.rev = @ + 1] \in Row
          <5>1. p.rev \in Nat /\ p.rev + 1 \in Nat
            BY <4>1 DEF Row
          <5>2. [p EXCEPT !.state = s] \in Row /\ [p EXCEPT !.state = s].rev = p.rev
            BY <4>1 DEF Row
          <5>3. ASSUME NEW q \in Row, NEW n \in Nat PROVE [q EXCEPT !.rev = n] \in Row
            BY <5>3 DEF Row
          <5>4. [p EXCEPT !.state = s, !.rev = @ + 1] = [[p EXCEPT !.state = s] EXCEPT !.rev = p.rev + 1]
            BY <5>2
          <5> QED BY <5>1, <5>2, <5>3, <5>4
        <4>2. "recovering" \in States /\ "failed" \in States
          BY DEF States, Terminal
        <4> QED BY <3>1, <4>1, <4>2 DEF RestoredRow
      <3>3. Restored(RestoredRow(disk[t])) \in Task
        BY <3>2 DEF Restored, Row, Task
      <3> QED BY <3>1, <3>3 DEF Restored, RestoredRow, Row
    <2>3. ASSUME Restart, NEW t \in Tasks, disk[t] = Null
          PROVE  mem'[t] = Null
      BY <2>3 DEF Restart
    <2>4. ASSUME Restart, NEW t \in Tasks, mem[t] # Null, mem[t].state \in {"transferring", "verifying"}
          PROVE  mem'[t] # Null /\ mem'[t].state = "recovering"
      <3>1. disk[t] # Null /\ disk[t].usable /\ disk[t] \in Copies[t]
        BY <1>0, <1>2, <2>4 DEF HistoryAgrees, Copies
      <3>2. disk[t].state \notin Terminal
        <4>1. disk[t].state \in Terminal => disk[t] = Stored(mem[t])
          BY <1>0, <1>2, <2>4, <3>1 DEF HistoryAgrees
        <4>2. Stored(mem[t]).state = mem[t].state
          BY DEF Stored
        <4> QED BY <2>4, <4>1, <4>2 DEF Terminal
      <3>3. mem'[t].state = "recovering"
        BY <2>2, <2>4, <3>1, <3>2
      <3>4. mem'[t] # Null
        BY <1>0, <1>2, <2>2, <2>4, <3>1
      <3> QED BY <3>3, <3>4
    <2>5. ASSUME Restart, NEW t \in Tasks, mem'[t] # Null
          PROVE  /\ ~mem'[t].live /\ mem'[t].state \in Terminal \cup {"recovering"}
                 /\ mem'[t].state = "recovering" => mem'[t].usable
      BY <2>2, <2>3, <2>5 DEF Terminal
    <2> QED BY <2>1, <2>4, <2>5
  <1>3. TasksIInv /\ [Next]_vars => [Finished]_vars /\ [Begun]_vars /\ [Started]_vars
    BY <1>1, <1>2
  <1> QED BY <1>3, TasksHold, PTL DEF Spec, HistoryKept, FinishedStays, BegunIsResumable, NothingStartsAlone
=============================================================================
