------------------------------ MODULE Transfer ------------------------------
(***************************************************************************)
(* One transfer between two devices (internal/transfer): the sender and    *)
(* the receiver of the V1 control protocol on a stream that can break, the *)
(* receiver's staging directory with its checkpoint, the publication of    *)
(* the verified files under names nobody else holds, and the task row the  *)
(* receiving application keeps beside it (internal/app/incoming_plan.go).  *)
(* Either process may end at any step; the transfer is then attempted      *)
(* again, resumed by its task or offered to a new one.                     *)
(*                                                                         *)
(* The manifest has one directory (entry 0) and files 1 .. NFiles of Parts *)
(* chunks each; the files of Inside lie in the directory.  A chunk is      *)
(* either the manifest's or was refused by its hash, so contents are sets  *)
(* of chunk numbers.                                                       *)
(***************************************************************************)
EXTENDS FiniteSetsExt, Naturals, Sequences

CONSTANTS
    NFiles, Parts,  \* files of the manifest and chunks of each
    Inside,         \* files in the directory
    MaxNames,       \* bound: names tried by keep-both
    Bounds          \* bounds, one of which is taken: <<broken streams, failed steps
                    \* and process ends; files made or removed by somebody else>>

ASSUME TransferAssumption ==
    /\ NFiles \in Nat \ {0} /\ Parts \in Nat \ {0} /\ Inside \subseteq 1 .. NFiles
    /\ MaxNames \in Nat /\ Bounds \subseteq Nat \X Nat

Files == 1 .. NFiles
Entries == 0 .. NFiles
Whole == 1 .. Parts
Numbers == 0 .. MaxNames
Slots == Entries \X Numbers \X Numbers

VARIABLES
    source,     \* the files still are what the manifest says
    snd,        \* the sender: step, counters of SendWithOptions
    sent,       \* its task row: the accepted selection, and completed
    rcv,        \* the receiver: step and Receiver.State in memory
    disk,       \* the staging directory: .part files, leftover .new, state.json
    target,     \* the names in the receive directory
    row,        \* the receiver's task row: state and the plan it recorded
    s2r, r2s,   \* the frames on the stream
    link,       \* the stream: "none", "up", "ended" (one end has left)
    faults, touches,    \* how many of them are left
    seen        \* history: links made, chunks acknowledged, confirmations

wire == <<s2r, r2s, link>>
bounds == <<source, faults, touches>>
trVars == <<source, snd, sent, rcv, disk, target, row, s2r, r2s, link, faults, touches, seen>>

-----------------------------------------------------------------------------
\* Plans.

\* A ReceivePlan: the number of the name each selected entry takes.
NoPlan == [names |-> <<>>, policy |-> "none"]
Selection(p) == DOMAIN p.names
FilesOf(p) == Selection(p) \ {0}

\* The path of an entry: its own name under that of its parent.
Slot(p, e) == <<e, IF e \in Inside THEN p.names[0] ELSE 0, p.names[e]>>
Free(s) == target[s] = "free"

\* portableInventory.available.
Available(e, parent) == {n \in 1 .. MaxNames : Free(<<e, parent, n>>)}

\* BuildReceivePlan of one entry: its name, or none for a conflict.
Named(e, parent, policy) ==
    IF Free(<<e, parent, 0>>) \/ (e = 0 /\ policy # "keep_both") THEN {0}
    ELSE IF policy = "keep_both" /\ Available(e, parent) # {} THEN {Min(Available(e, parent))}
    ELSE {}

\* BuildReceivePlan for the requested entries: "skip" leaves conflicts out,
\* "error" refuses them.  The directory is the parent of what lies inside.
BuildReceivePlan(requested, policy) ==
    LET dir == Named(0, 0, policy)
        under(e) == IF e \in Inside THEN Min(dir) ELSE 0
        open == {e \in requested \cap Files : Named(e, under(e), policy) # {}}
        chosen == IF policy = "skip" THEN open ELSE requested \cap Files
        names == [e \in {0} \cup chosen |-> IF e = 0 THEN Min(dir) ELSE Min(Named(e, under(e), policy))]
    IN IF dir = {} \/ ~(chosen \subseteq open) THEN {} ELSE {[names |-> names, policy |-> policy]}

FullReceivePlan == [names |-> [e \in Entries |-> 0], policy |-> "error"]

-----------------------------------------------------------------------------
\* The initial state.

NoState == [state |-> "none", plan |-> NoPlan, committed |-> {}, intents |-> {},
            dir |-> FALSE, dirIntent |-> FALSE]

NoReceiver == [pc |-> "idle", at |-> 0, plan |-> NoPlan, verified |-> {},
               committed |-> {}, intents |-> {}, dir |-> FALSE, dirIntent |-> FALSE]

NoSender == [pc |-> "idle", selected |-> {}, verified |-> 0, initial |-> 0, sent |-> 0, chunk |-> <<0, 0>>]

TransferInit ==
    /\ source = "same"
    /\ snd = NoSender /\ sent = [selection |-> <<>>, completed |-> FALSE]
    /\ rcv = NoReceiver
    /\ disk = [stage |-> FALSE, part |-> [f \in Files |-> {}], new |-> FALSE, same |-> {},
               saved |-> NoState]
    /\ target = [s \in Slots |-> "free"]
    /\ row = [state |-> "none", plan |-> NoPlan]
    /\ s2r = <<>> /\ r2s = <<>> /\ link = "none"
    /\ \E b \in Bounds : faults = b[1] /\ touches = b[2]
    /\ seen = [linked |-> {}, acked |-> {}, confirmed |-> FALSE]

Pairs == Files \X Whole
Policies == {"keep_both", "error", "skip"}

-----------------------------------------------------------------------------
\* The stream.

Frame(op, arg) == [op |-> op, arg |-> arg]

\* What is written to a lost stream goes nowhere.
SendFrames(fs) == s2r' = IF link = "none" THEN <<>> ELSE s2r \o fs
AnswerFrames(fs) == r2s' = IF link = "none" THEN <<>> ELSE r2s \o fs

SenderReads(op) == r2s # <<>> /\ Head(r2s).op = op /\ r2s' = Tail(r2s)
ReceiverReads(op) == s2r # <<>> /\ Head(s2r).op = op /\ s2r' = Tail(s2r)

\* Mutant: the end that returns does not abort the stream.
LeaveOpen == link' = link

\* A stream that is aborted or half-closed lets the other end read what is
\* queued; then its reads fail.
Leave == link' = IF link = "up" THEN "ended" ELSE link

\* The connection is lost with everything on it.
StreamBreaks ==
    /\ link # "none" /\ faults > 0 /\ faults' = faults - 1
    /\ link' = "none" /\ s2r' = <<>> /\ r2s' = <<>>
    /\ UNCHANGED <<source, snd, sent, rcv, disk, target, row, touches, seen>>

\* A session for the transfer: ResumeTask on the receiving side, or a new
\* offer of the same transfer.
Connect ==
    /\ snd.pc = "idle" /\ rcv.pc = "idle" /\ ~sent.completed
    /\ link' = "up" /\ s2r' = <<Frame("offer", {})>> /\ r2s' = <<>>
    /\ snd' = [NoSender EXCEPT !.pc = "accept"]
    /\ rcv' = [NoReceiver EXCEPT !.pc = "offer"]
    /\ UNCHANGED <<sent, disk, target, row, seen>> /\ UNCHANGED bounds

-----------------------------------------------------------------------------
\* The sender: SendWithOptions.

SenderReturns == snd' = NoSender /\ Leave

\* Total of the selected files.
Total(selected) == Cardinality(selected \ {0}) * Parts

\* Mutant: the task row learns the selection from the result of the transfer.
RecordedAtTheEnd(sel) == sent' = sent

\* recordSelectionAccepted.
Records(sel) == sent' = [sent EXCEPT !.selection = <<sel>>]

\* Mutant: what the receiver had already verified is not counted.
CountsFromZero(n) == 0

Initial(n) == n

\* SelectionAccepted records the selection in the task row before the barrier;
\* a different one than before is refused.
SenderAccepts ==
    LET sel == Head(r2s).arg.selection n == Head(r2s).arg.verified
    IN /\ snd.pc = "accept" /\ SenderReads("accept")
       /\ n <= Total(sel) /\ sent.selection \in {<<>>, <<sel>>}
       /\ Records(sel)
       /\ snd' = [snd EXCEPT !.pc = "serve", !.selected = sel, !.verified = n, !.initial = Initial(n)]
       /\ SendFrames(<<Frame("accepted", sel)>>)
       /\ UNCHANGED <<rcv, disk, target, row, link, seen>> /\ UNCHANGED bounds

\* A selection that is refused is answered with an error.
SenderRefuses ==
    LET sel == Head(r2s).arg.selection
    IN /\ snd.pc = "accept" /\ SenderReads("accept") /\ sent.selection \notin {<<>>, <<sel>>}
       /\ SendFrames(<<Frame("error", {})>>) /\ SenderReturns
       /\ UNCHANGED <<sent, rcv, disk, target, row, seen>> /\ UNCHANGED bounds

\* ReadChunk compares the source with the manifest.
SenderServes ==
    /\ snd.pc = "serve" /\ SenderReads("chunk")
    /\ \/ /\ source = "same" /\ Head(r2s).arg[1] \in snd.selected
          /\ SendFrames(<<Frame("data", Head(r2s).arg)>>)
          /\ snd' = [snd EXCEPT !.pc = "ack", !.sent = @ + 1, !.chunk = Head(r2s).arg]
          /\ UNCHANGED link
       \/ /\ source = "changed" \/ Head(r2s).arg[1] \notin snd.selected
          /\ SendFrames(<<Frame("error", {})>>) /\ SenderReturns
    /\ UNCHANGED <<sent, rcv, disk, target, row, seen>> /\ UNCHANGED bounds

\* An acknowledgement never goes back and never counts more than was sent.
AckFits(ack) == /\ ack.chunk = snd.chunk
                /\ ack.verified >= snd.verified
                /\ ack.verified <= Total(snd.selected)
                /\ ack.verified <= snd.initial + snd.sent

SenderAcked ==
    LET ack == Head(r2s).arg
    IN /\ snd.pc = "ack" /\ SenderReads("ack")
       /\ IF AckFits(ack)
          THEN /\ snd' = [snd EXCEPT !.pc = "serve", !.verified = ack.verified]
               /\ seen' = [seen EXCEPT !.acked = @ \cup {snd.chunk}]
               /\ UNCHANGED link
          ELSE SenderReturns /\ UNCHANGED seen
       /\ UNCHANGED <<sent, rcv, disk, target, row, s2r>> /\ UNCHANGED bounds

\* All sources are compared once more before finish.
SenderFinishes ==
    /\ snd.pc = "serve" /\ SenderReads("ready")
    /\ \/ /\ source = "same" /\ SendFrames(<<Frame("finish", snd.selected)>>)
          /\ snd' = [snd EXCEPT !.pc = "completed"] /\ UNCHANGED link
       \/ /\ source = "changed" /\ SendFrames(<<Frame("error", {})>>) /\ SenderReturns
    /\ UNCHANGED <<sent, rcv, disk, target, row, seen>> /\ UNCHANGED bounds

SenderConfirms ==
    /\ snd.pc = "completed" /\ SenderReads("completed")
    /\ \/ /\ Head(r2s).arg = Total(snd.selected)
          /\ SendFrames(<<Frame("confirmed", snd.selected)>>)
          /\ snd' = [snd EXCEPT !.pc = "confirmed"] /\ UNCHANGED link
       \/ /\ Head(r2s).arg # Total(snd.selected)
          /\ SenderReturns /\ UNCHANGED s2r
    /\ UNCHANGED <<sent, rcv, disk, target, row, seen>> /\ UNCHANGED bounds

\* The receipt of the confirmation completes the sender's task.
SenderCompletes ==
    /\ snd.pc = "confirmed" /\ SenderReads("confirmed_ack")
    /\ sent' = [sent EXCEPT !.completed = TRUE] /\ SenderReturns
    /\ UNCHANGED <<rcv, disk, target, row, s2r, seen>> /\ UNCHANGED bounds

\* A rejection or an error of the peer, or a read from a lost stream.
SenderGivesUp ==
    /\ snd.pc # "idle"
    /\ r2s = <<>> => link # "up"
    /\ r2s # <<>> => Head(r2s).op \in {"reject", "error"}
    /\ r2s' = <<>> /\ SenderReturns
    /\ UNCHANGED <<sent, rcv, disk, target, row, s2r, seen>> /\ UNCHANGED bounds

SenderStep == \/ SenderAccepts \/ SenderRefuses \/ SenderServes \/ SenderAcked
              \/ SenderFinishes \/ SenderConfirms \/ SenderCompletes \/ SenderGivesUp

\* Cancellation, a failed write, or the end of the process.
SenderStops ==
    /\ snd.pc # "idle" /\ faults > 0 /\ faults' = faults - 1
    /\ SenderReturns
    /\ UNCHANGED <<source, sent, rcv, disk, target, row, s2r, r2s, touches, seen>>

-----------------------------------------------------------------------------
\* The receiver before the body: ReceiveWithOptions, openReceiverContentRoot.

\* What checkpoint writes: the state in memory.
Checkpoint(state, r) ==
    [state |-> state, plan |-> r.plan, committed |-> r.committed, intents |-> r.intents,
     dir |-> r.dir, dirIntent |-> r.dirIntent]
Saves(state, r) == disk' = [disk EXCEPT !.saved = Checkpoint(state, r)]

ReceiverReturns == rcv' = NoReceiver /\ Leave
Resumable(st) == row' = [row EXCEPT !.state = st]

\* The plan of a resumed task: the one in state.json, which must be the one
\* the row recorded; without either, every file under its own name.
ResumePlans ==
    IF row.plan # NoPlan
    THEN {disk.saved.plan} \cap {row.plan}
    ELSE {IF disk.saved.state = "none" THEN FullReceivePlan ELSE disk.saved.plan}

\* A new task accepts with the stored plan, or with a new one for its choice.
FreshPlans(requested, policy) ==
    IF disk.saved.state = "none" THEN BuildReceivePlan(requested, policy)
    ELSE IF Selection(disk.saved.plan) = requested THEN {disk.saved.plan} ELSE {}

\* The Plan callback of a resumed task, taskReceiveOptions.
ResumeOffer ==
    /\ rcv.pc = "offer" /\ ReceiverReads("offer") /\ row.state = "resumable"
    /\ \/ \E p \in ResumePlans :
             /\ rcv' = [rcv EXCEPT !.pc = "open", !.plan = p]
             /\ row' = [row EXCEPT !.state = "active"] /\ UNCHANGED <<r2s, link, seen>>
       \/ /\ ResumePlans = {} /\ AnswerFrames(<<Frame("error", {})>>) /\ ReceiverReturns
          /\ UNCHANGED <<row, seen>>
    /\ UNCHANGED <<snd, sent, disk, target>> /\ UNCHANGED bounds

\* The Plan callback of a new task: the user's choice is recorded in the row
\* before the staging directory is touched (acceptReceivePlan).
AcceptOffer(requested, policy) ==
    /\ rcv.pc = "offer" /\ ReceiverReads("offer")
    /\ \E p \in FreshPlans(requested, policy) :
         /\ rcv' = [rcv EXCEPT !.pc = "open", !.plan = p]
         /\ row' = [state |-> "active", plan |-> p]
    /\ UNCHANGED <<snd, sent, disk, target, r2s, link, seen>> /\ UNCHANGED bounds

RejectOffer ==
    /\ rcv.pc = "offer" /\ ReceiverReads("offer")
    /\ AnswerFrames(<<Frame("reject", {})>>) /\ ReceiverReturns
    /\ row' = [state |-> "rejected", plan |-> NoPlan]
    /\ UNCHANGED <<snd, sent, disk, target, seen>> /\ UNCHANGED bounds

\* The staging directory and its checkpoint.  The persisted plan replaces the
\* requested one, whose selection must be the same; a recorded directory must
\* still be there.
Loaded == disk.saved.state # "none"
Mismatch == \/ Loaded /\ Selection(disk.saved.plan) # Selection(rcv.plan)
            \/ Loaded /\ disk.saved.dir /\ Free(Slot(disk.saved.plan, 0))

OpenStage ==
    /\ rcv.pc = "open" /\ ~Mismatch
    /\ disk' = [disk EXCEPT !.stage = TRUE]
    /\ rcv' = IF Loaded
              THEN [rcv EXCEPT !.pc = "restore", !.at = 1, !.plan = disk.saved.plan,
                               !.committed = disk.saved.committed, !.intents = disk.saved.intents,
                               !.dir = disk.saved.dir, !.dirIntent = disk.saved.dirIntent]
              ELSE [rcv EXCEPT !.pc = "restore", !.at = 1]
    /\ UNCHANGED <<snd, sent, target, row, seen>> /\ UNCHANGED wire /\ UNCHANGED bounds

\* An error before the Receiver exists: nothing is marked.
ReceiverRefuses ==
    /\ AnswerFrames(<<Frame("error", {})>>) /\ ReceiverReturns /\ Resumable("resumable")

OpenRefused ==
    /\ rcv.pc = "open" /\ Mismatch /\ ReceiverRefuses
    /\ UNCHANGED <<snd, sent, disk, target, s2r, seen>> /\ UNCHANGED bounds

\* Mutant: a target with the same content is taken for our own.
RestorableByHash(f) ==
    f \in rcv.committed \cup rcv.intents /\ target[Slot(rcv.plan, f)] \in {"ours", "copy"}

\* restoreCommitted: a commit record is checked against the file; an intention
\* is a commit only if the staged file and the target are one file.
SameFile(s) == target[s] = "ours" /\ s \in disk.same
Restorable(f) ==
    \/ f \in rcv.committed
    \/ f \in rcv.intents /\ SameFile(Slot(rcv.plan, f))

Chunks(f) == {f} \X Whole
Restoring(f) == rcv.pc = "restore" /\ rcv.at = f
Past(f) == [rcv EXCEPT !.at = f + 1]

SkipFile(f) ==
    /\ Restoring(f) /\ f \notin Selection(rcv.plan)
    /\ rcv' = Past(f)
    /\ UNCHANGED <<snd, sent, disk, target, row, seen>> /\ UNCHANGED wire /\ UNCHANGED bounds

RestoreCommitted(f) ==
    /\ Restoring(f) /\ f \in Selection(rcv.plan) /\ Restorable(f)
    /\ target[Slot(rcv.plan, f)] \in {"ours", "copy"}
    /\ rcv' = [Past(f) EXCEPT !.committed = @ \cup {f}, !.intents = @ \ {f},
                              !.verified = @ \cup Chunks(f)]
    /\ UNCHANGED <<snd, sent, disk, target, row, seen>> /\ UNCHANGED wire /\ UNCHANGED bounds

\* A committed file that was removed or changed is a conflict.
RestoreRefused(f) ==
    /\ Restoring(f) /\ f \in Selection(rcv.plan) /\ Restorable(f)
    /\ target[Slot(rcv.plan, f)] \notin {"ours", "copy"}
    /\ ReceiverRefuses
    /\ UNCHANGED <<snd, sent, disk, target, s2r, seen>> /\ UNCHANGED bounds

\* The valid chunks are copied to a new file, which then replaces the staged
\* one: the old name is never opened for writing.
CopyPart(f) ==
    /\ Restoring(f) /\ f \in Selection(rcv.plan) /\ ~Restorable(f)
    /\ disk' = [disk EXCEPT !.new = TRUE]
    /\ rcv' = [rcv EXCEPT !.pc = "copied"]
    /\ UNCHANGED <<snd, sent, target, row, seen>> /\ UNCHANGED wire /\ UNCHANGED bounds

\* Mutant: an empty new file takes the staged file's name.
ReopenedEmpty(f) == [disk EXCEPT !.new = FALSE, !.part[f] = {}]

\* The new file takes the staged file's name and is another file from now on.
ReplacedPart(f) == [disk EXCEPT !.new = FALSE, !.same = {s \in @ : s[1] # f}]

ReplacePart ==
    /\ rcv.pc = "copied"
    /\ disk' = ReplacedPart(rcv.at)
    /\ rcv' = [Past(rcv.at) EXCEPT !.pc = "restore",
                                   !.verified = @ \cup ({rcv.at} \X disk.part[rcv.at])]
    /\ UNCHANGED <<snd, sent, target, row, seen>> /\ UNCHANGED wire /\ UNCHANGED bounds

OpenDone ==
    /\ rcv.pc = "restore" /\ rcv.at > NFiles
    /\ Saves("Transferring", rcv) /\ rcv' = [rcv EXCEPT !.pc = "ready", !.at = 0]
    /\ UNCHANGED <<snd, sent, target, row, seen>> /\ UNCHANGED wire /\ UNCHANGED bounds

\* notifyPlanReady: the row takes the plan, then the staging is registered,
\* which tolerates nothing there but the checkpoint and .part files.
PlanRecorded == row' = [row EXCEPT !.plan = rcv.plan]
Registers == ~disk.new

PlanReady ==
    /\ rcv.pc = "ready" /\ PlanRecorded
    /\ rcv' = [rcv EXCEPT !.pc = "register"]
    /\ UNCHANGED <<snd, sent, disk, target, seen>> /\ UNCHANGED wire /\ UNCHANGED bounds

\* Registered before the body: the acceptance, with what is verified already.
\* Once the commit has begun (rcv.at = 1) publication goes on.
Register ==
    /\ rcv.pc = "register"
    /\ \/ /\ Registers /\ rcv.at = 0
          /\ AnswerFrames(<<Frame("accept", [selection |-> Selection(rcv.plan),
                                             verified |-> Cardinality(rcv.verified)])>>)
          /\ rcv' = [rcv EXCEPT !.pc = "barrier"] /\ UNCHANGED <<row, link, seen>>
       \/ /\ Registers /\ rcv.at # 0
          /\ rcv' = [rcv EXCEPT !.pc = "publish", !.at = 0]
          /\ UNCHANGED <<r2s, row, link, seen>>
       \/ /\ ~Registers /\ ReceiverRefuses /\ UNCHANGED seen
    /\ UNCHANGED <<snd, sent, disk, target, s2r>> /\ UNCHANGED bounds

-----------------------------------------------------------------------------
\* The body.

\* The next unverified chunk is asked for; the acceptance barrier comes first.
Missing == {c \in Pairs : c[1] \in FilesOf(rcv.plan) /\ c \notin rcv.verified}
FirstMissing == CHOOSE c \in Missing : \A d \in Missing :
                    c[1] < d[1] \/ (c[1] = d[1] /\ c[2] <= d[2])

Asked == IF Missing = {} THEN Frame("ready", {}) ELSE Frame("chunk", FirstMissing)
NextStep == IF Missing = {} THEN "finish" ELSE "data"

ReceiverBegins ==
    /\ rcv.pc = "barrier" /\ ReceiverReads("accepted")
    /\ rcv' = [rcv EXCEPT !.pc = NextStep] /\ AnswerFrames(<<Asked>>)
    /\ UNCHANGED <<snd, sent, disk, target, row, link, seen>> /\ UNCHANGED bounds

\* WriteChunk: hash, write, sync, count, and a checkpoint when one is due.
WriteChunk ==
    /\ rcv.pc = "data" /\ ReceiverReads("data")
    /\ LET c == Head(s2r).arg r == [rcv EXCEPT !.verified = @ \cup {c}, !.pc = "acked"]
           d == [disk EXCEPT !.part[c[1]] = @ \cup {c[2]}]
       IN /\ disk' \in {d, [d EXCEPT !.saved = Checkpoint("Transferring", rcv)]}
          /\ rcv' = r
          /\ AnswerFrames(<<Frame("ack", [chunk |-> c, verified |-> Cardinality(r.verified)])>>)
    /\ UNCHANGED <<snd, sent, target, row, link, seen>> /\ UNCHANGED bounds

AskNext ==
    /\ rcv.pc = "acked"
    /\ rcv' = [rcv EXCEPT !.pc = NextStep] /\ AnswerFrames(<<Asked>>)
    /\ UNCHANGED <<snd, sent, disk, target, row, s2r, link, seen>> /\ UNCHANGED bounds

-----------------------------------------------------------------------------
\* Publication: FinishWithCommit.

\* The commit starts with a checkpoint that says so.
ReceiverFinishes ==
    /\ rcv.pc = "finish" /\ ReceiverReads("finish")
    /\ Saves("Verifying", rcv) /\ rcv' = [rcv EXCEPT !.pc = "publish"]
    /\ UNCHANGED <<snd, sent, target, row, r2s, link, seen>> /\ UNCHANGED bounds

\* What is published next: the directory, then the files in order.
Left == {e \in Selection(rcv.plan) : IF e = 0 THEN ~rcv.dir ELSE e \notin rcv.committed}
Publishing(e) == rcv.pc = "publish" /\ e \in Left /\ e = Min(Left)
Place(e) == Slot(rcv.plan, e)
KeepBoth == rcv.plan.policy = "keep_both"
Renamed(e) == LET s == Place(e) IN Available(e, s[2])

\* renamePlannedEntry: another free name; its intention is dropped and the
\* plan is persisted in the checkpoint, then in the row, then registered.
RenamedTo(e, n) == [rcv EXCEPT !.plan.names[e] = n, !.intents = @ \ {e},
                               !.dirIntent = IF e = 0 THEN FALSE ELSE @, !.pc = "ready",
                               !.at = 1]

RenameEntry(e) ==
    /\ Publishing(e) /\ ~Free(Place(e)) /\ KeepBoth /\ Renamed(e) # {}
    /\ e = 0 => ~rcv.dirIntent
    /\ rcv' = RenamedTo(e, Min(Renamed(e))) /\ Saves("Verifying", rcv')
    /\ UNCHANGED <<snd, sent, target, row, seen>> /\ UNCHANGED wire /\ UNCHANGED bounds

\* A name that is taken, without another one or the permission to use it; an
\* intended directory that may or may not be ours.
Conflicts(e) == /\ ~Free(Place(e))
                /\ IF e = 0 THEN rcv.dirIntent \/ (KeepBoth /\ Renamed(e) = {})
                   ELSE ~KeepBoth \/ Renamed(e) = {}

\* Mutant: the name is taken first.
IntendsLater(e) == [rcv EXCEPT !.pc = "link"]

\* The intention is saved before the name is taken.
Intends(e) == IF e = 0 THEN [rcv EXCEPT !.dirIntent = TRUE, !.pc = "link"]
              ELSE [rcv EXCEPT !.intents = @ \cup {e}, !.pc = "link"]

Intend(e) ==
    /\ Publishing(e) /\ Free(Place(e))
    /\ rcv' = Intends(e) /\ Saves("Verifying", rcv')
    /\ UNCHANGED <<snd, sent, target, row, seen>> /\ UNCHANGED wire /\ UNCHANGED bounds

\* An existing directory is used as it is unless both are to be kept.
UseDirectory ==
    /\ Publishing(0) /\ ~Free(Place(0)) /\ ~KeepBoth /\ ~rcv.dirIntent
    /\ rcv' = [rcv EXCEPT !.dir = TRUE] /\ Saves("Verifying", rcv')
    /\ UNCHANGED <<snd, sent, target, row, seen>> /\ UNCHANGED wire /\ UNCHANGED bounds

\* Link or Mkdir, neither of which replaces anything.
Taking(e) == rcv.pc = "link" /\ e = Min(Left)

TakeName(e) ==
    /\ Taking(e) /\ Free(Place(e))
    /\ target' = [target EXCEPT ![Place(e)] = "ours"]
    /\ disk' = [disk EXCEPT !.same = @ \cup {Place(e)}]
    /\ seen' = [seen EXCEPT !.linked = @ \cup {Place(e)}]
    /\ rcv' = [rcv EXCEPT !.pc = "record"]
    /\ UNCHANGED <<snd, sent, row>> /\ UNCHANGED wire /\ UNCHANGED bounds

\* Somebody was faster: the entry takes another name or the commit fails.
NameTaken(e) ==
    /\ Taking(e) /\ ~Free(Place(e)) /\ KeepBoth /\ Renamed(e) # {}
    /\ rcv' = RenamedTo(e, Min(Renamed(e))) /\ Saves("Verifying", rcv')
    /\ UNCHANGED <<snd, sent, target, row, seen>> /\ UNCHANGED wire /\ UNCHANGED bounds

\* fail(): the state is marked, unless that fails too.
Fails == /\ ReceiverReturns /\ Resumable("resumable")
         /\ disk' \in {disk, [disk EXCEPT !.saved = Checkpoint("Failed", rcv)]}

CommitFails(e) ==
    /\ \/ Publishing(e) /\ Conflicts(e)
       \/ Taking(e) /\ ~Free(Place(e)) /\ (~KeepBoth \/ Renamed(e) = {})
    /\ AnswerFrames(<<Frame("error", {})>>) /\ Fails
    /\ UNCHANGED <<snd, sent, target, s2r, seen>> /\ UNCHANGED bounds

\* The commit record replaces the intention.
Recorded(e) == IF e = 0 THEN [rcv EXCEPT !.dir = TRUE, !.dirIntent = FALSE, !.pc = "publish"]
               ELSE [rcv EXCEPT !.committed = @ \cup {e}, !.intents = @ \ {e}, !.pc = "publish"]

RecordCommit ==
    /\ rcv.pc = "record"
    /\ rcv' = Recorded(Min(Left)) /\ Saves("Verifying", rcv')
    /\ UNCHANGED <<snd, sent, target, row, seen>> /\ UNCHANGED wire /\ UNCHANGED bounds

\* Mutant: completion is announced when everything is verified.
AllVerified == Missing = {}

\* Everything is published and saved before the sender is told.
AllPublished == Left = {}

ReceiverCompletes ==
    /\ rcv.pc = "publish" /\ AllPublished
    /\ Saves("Completed", rcv) /\ rcv' = [rcv EXCEPT !.pc = "confirm"]
    /\ AnswerFrames(<<Frame("completed", Cardinality(rcv.verified))>>)
    /\ UNCHANGED <<snd, sent, target, row, s2r, link, seen>> /\ UNCHANGED bounds

\* The confirmation is acknowledged and completes the receiver's task.
ReceiverConfirmed ==
    /\ rcv.pc = "confirm" /\ ReceiverReads("confirmed")
    /\ AnswerFrames(<<Frame("confirmed_ack", {})>>)
    /\ ReceiverReturns /\ Resumable("completed")
    /\ seen' = [seen EXCEPT !.confirmed = TRUE]
    /\ UNCHANGED <<snd, sent, disk, target>> /\ UNCHANGED bounds

\* An error of the peer, or a read from a lost stream.
Waiting == {"offer", "barrier", "data", "finish", "confirm"}

ReceiverGivesUp ==
    /\ rcv.pc \in Waiting
    /\ s2r = <<>> => link # "up"
    /\ s2r # <<>> => Head(s2r).op = "error"
    /\ s2r' = <<>>
    /\ IF rcv.pc \in {"offer", "confirm"}
       THEN /\ ReceiverReturns /\ UNCHANGED disk
            /\ IF rcv.pc = "confirm" THEN Resumable("resumable") ELSE UNCHANGED row
       ELSE Fails
    /\ UNCHANGED <<snd, sent, target, r2s, seen>> /\ UNCHANGED bounds

ReceiverStep ==
    \/ ResumeOffer \/ RejectOffer \/ OpenStage \/ OpenRefused
    \/ \E requested \in {{0} \cup fs : fs \in SUBSET Files}, policy \in Policies :
          row.state # "resumable" /\ AcceptOffer(requested, policy)
    \/ \E f \in Files : SkipFile(f) \/ RestoreCommitted(f) \/ RestoreRefused(f) \/ CopyPart(f)
    \/ ReplacePart \/ OpenDone \/ PlanReady \/ Register
    \/ ReceiverBegins \/ WriteChunk \/ AskNext \/ ReceiverFinishes
    \/ \E e \in Entries : RenameEntry(e) \/ Intend(e) \/ TakeName(e) \/ NameTaken(e) \/ CommitFails(e)
    \/ UseDirectory \/ RecordCommit \/ ReceiverCompletes \/ ReceiverConfirmed \/ ReceiverGivesUp

\* A failed step, a pause or a cancellation; an opened receiver is marked and
\* a copy that is not kept is removed.
Opened == rcv.pc \in {"barrier", "data", "acked", "finish", "publish", "link", "record"}

ReceiverFails ==
    /\ rcv.pc # "idle" /\ faults > 0 /\ faults' = faults - 1
    /\ IF Opened THEN Fails
       ELSE /\ disk' = [disk EXCEPT !.new = IF rcv.pc = "copied" THEN FALSE ELSE @]
            /\ ReceiverReturns
            /\ IF rcv.pc = "offer" THEN UNCHANGED row ELSE Resumable("resumable")
    /\ UNCHANGED <<source, snd, sent, target, s2r, r2s, touches, seen>>

\* The process ends: the row is recovered at the next start.
ReceiverEnds ==
    /\ rcv.pc # "idle" /\ faults > 0 /\ faults' = faults - 1
    /\ ReceiverReturns
    /\ row' = [row EXCEPT !.state = IF @ = "active" THEN "resumable" ELSE @]
    /\ UNCHANGED <<source, snd, sent, disk, target, s2r, r2s, touches, seen>>

-----------------------------------------------------------------------------
\* Others.

\* Somebody makes or removes a file or a directory in the receive directory.
Touch(s) ==
    /\ touches > 0 /\ touches' = touches - 1
    /\ \/ Free(s) /\ target' = [target EXCEPT ![s] = "other"]
       \/ Free(s) /\ s[1] # 0 /\ target' = [target EXCEPT ![s] = "copy"]
       \/ target[s] = "ours" /\ target' = [target EXCEPT ![s] = "free"]
    /\ UNCHANGED <<source, snd, sent, rcv, disk, row, faults, seen>> /\ UNCHANGED wire

SourceChanges ==
    /\ touches > 0 /\ touches' = touches - 1
    /\ source = "same" /\ source' = "changed"
    /\ UNCHANGED <<snd, sent, rcv, disk, target, row, faults, seen>> /\ UNCHANGED wire

\* A task that can be resumed is cancelled, and the transfer offered again.
CancelRow ==
    /\ rcv.pc = "idle" /\ row.state = "resumable"
    /\ row' = [state |-> "cancelled", plan |-> NoPlan]
    /\ UNCHANGED <<snd, sent, rcv, disk, target, seen>> /\ UNCHANGED wire /\ UNCHANGED bounds

\* The staging directory of a cancelled task is cleaned up.  Bound: only while
\* nothing is published and no acknowledgement is on its way, so that both can
\* be counted.
CleanupStage ==
    /\ rcv.pc = "idle" /\ snd.pc = "idle" /\ row.state = "cancelled" /\ Loaded /\ seen.linked = {} /\ ~disk.new
    /\ disk' = [stage |-> FALSE, part |-> [f \in Files |-> {}], new |-> FALSE, same |-> {},
                saved |-> NoState]
    /\ seen' = [seen EXCEPT !.acked = {}]
    /\ UNCHANGED <<snd, sent, rcv, target, row>> /\ UNCHANGED wire /\ UNCHANGED bounds

TransferNext ==
    \/ Connect \/ SenderStep \/ ReceiverStep
    \/ StreamBreaks \/ SenderStops \/ ReceiverFails \/ ReceiverEnds
    \/ SourceChanges \/ CancelRow \/ CleanupStage
    \/ \E s \in Slots : Touch(s)

TransferSpec ==
    /\ TransferInit /\ [][TransferNext]_trVars
    /\ WF_trVars(SenderStep) /\ WF_trVars(ReceiverStep)

-----------------------------------------------------------------------------
\* Properties.

\* Neither side's task completes before every selected file is published under
\* a name we took, the receiver's checkpoint says so, and both agree on what
\* was selected.
CompletedMeansPublished ==
    sent.completed \/ row.state = "completed" =>
        /\ disk.saved.state = "Completed"
        /\ \A f \in FilesOf(disk.saved.plan) : Slot(disk.saved.plan, f) \in seen.linked
        /\ sent.selection = <<Selection(disk.saved.plan)>>
        /\ seen.confirmed

\* However often the transfer is interrupted between a name being taken and
\* its record, no file is published under two names.
PublishedOnce ==
    \A e \in Entries : Cardinality({s \in Slots : s[1] = e /\ target[s] = "ours"}) <= 1

\* What the checkpoint claims as committed was published by this transfer,
\* never a file of somebody else with the same content.
CommittedIsOurs ==
    \A f \in disk.saved.committed : Slot(disk.saved.plan, f) \in seen.linked

\* An acknowledged chunk is never lost, whatever ends while the staged files
\* are reopened.
AcknowledgedStays ==
    \A c \in seen.acked : c[2] \in disk.part[c[1]]

\* No byte of the body is written before the sender's row records the
\* selection that the receiver's checkpoint holds.
AgreedBeforeBody ==
    (\E f \in Files : disk.part[f] # {}) => sent.selection = <<Selection(disk.saved.plan)>>

\* The acknowledgements of a receiver that restores, resumes and publishes are
\* never ones the sender refuses.
AcksAreFitting == snd.pc = "ack" /\ r2s # <<>> /\ Head(r2s).op = "ack" => AckFits(Head(r2s).arg)

\* Both sides of an attempt return: neither waits for the other for ever.
AttemptsEnd == /\ snd.pc # "idle" ~> snd.pc = "idle"
               /\ rcv.pc # "idle" ~> rcv.pc = "idle"

\* What the checkpoint, the directory and the two ends claim of a transfer
\* agrees, whatever has been interrupted.
TransferInv == PublishedOnce /\ CommittedIsOurs /\ AgreedBeforeBody /\ AcksAreFitting
=============================================================================
