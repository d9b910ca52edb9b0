----------------------------- MODULE ClipFiles -----------------------------
(***************************************************************************)
(* Files copied on one device and pasted on another                        *)
(* (internal/app/clipboard_files.go, internal/clipboardsync/files.go): the *)
(* copy is offered like any clipboard event, the receiver reserves its     *)
(* clipboard for it and says it is ready, then the files travel on a       *)
(* stream of their own into a cache object, and their paths are put on the *)
(* clipboard if nothing else happened there.                               *)
(*                                                                         *)
(* The cache (clipboard_cache_*.go) keeps a signed row per object.  What   *)
(* programs may have seen stays for good; what surely was never shown is   *)
(* sealed with its inventory and then removed node by node, by the receive *)
(* itself or by the collector.  The receiver may end at any step.          *)
(* Contents are left out, and so are the 24 hours that end any job.        *)
(***************************************************************************)
EXTENDS FiniteSets, Naturals

CONSTANTS
    MaxOffers,       \* copies of files on the sender, numbered in their order
    Capacity,        \* objects the disk has room for
    FileScenarios    \* what else may happen: see FilesInit

ASSUME ClipFilesAssumption == MaxOffers \in Nat /\ Capacity \in Nat

VARIABLES
    snd,       \* the sender's job of each offer
    newest,    \* the sender's last copy, and whether its jobs were swept since
    net,       \* messages of each offer on their way
    stream,    \* the body's stream of each offer
    session,   \* the offer that holds the pooled session, 0 if none
    rcv,       \* the receiver's job of each offer
    admit,     \* the event the receiver's reader handles
    clip,      \* the receiver's clipboard: generation and what it shows
    state,     \* the receiver's clipboardsync.State: revision, generation, order
    permit,    \* the permission to receive files
    sweep,     \* a change has yet to cancel the jobs it made stale: "all" or "stale"
    work,      \* the receive of each offer's body
    row,       \* the signed row of each object, in the metadata table
    tree,      \* what each object's directory holds
    active,    \* clipboardCacheLifecycle.active
    reserved,  \* clipboardCacheSpace.reservations
    collect,   \* where collectClipboardCacheObject is
    shown,     \* objects whose paths the system clipboard has taken
    spare      \* what may still happen (bounds)

sides == <<snd, newest, net, stream, session>>
jobs == <<rcv, admit, clip, state, permit, sweep>>
cache == <<row, tree, active, reserved, collect, shown>>
cfVars == <<sides, jobs, work, cache, spare>>

Offers == 1 .. MaxOffers
Spend(what) == spare[what] > 0 /\ spare' = [spare EXCEPT ![what] = @ - 1]

NoJob == [state |-> "none", live |-> FALSE, started |-> FALSE, local |-> FALSE, asked |-> FALSE,
          revision |-> 0, gen |-> 0]
NoWork == [pc |-> "none", err |-> "none", inventory |-> {"unknown"}, native |-> FALSE]
NoRow == [state |-> "none", cleanup |-> {}]
NoAdmission == [pc |-> "none", offer |-> 0]
NoCollection == [pc |-> "none", offer |-> 0]

FilesInit ==
    /\ snd = [o \in Offers |-> [pc |-> "none", live |-> FALSE]]
    /\ newest = [offer |-> 0, swept |-> TRUE]
    /\ net = [o \in Offers |-> {}] /\ stream = [o \in Offers |-> "none"] /\ session = 0
    /\ rcv = [o \in Offers |-> NoJob] /\ admit = NoAdmission
    /\ clip = [gen |-> 1, shows |-> 0] /\ state = [revision |-> 1, gen |-> 1, committed |-> 0]
    /\ permit = TRUE /\ sweep = "none"
    /\ work = [o \in Offers |-> NoWork]
    /\ row = [o \in Offers |-> NoRow] /\ tree = [o \in Offers |-> {}]
    /\ active = {} /\ reserved = {} /\ collect = NoCollection /\ shown = {}
    /\ \E s \in FileScenarios : spare = s

Finished(s) == s \in {"completed", "failed", "cancelled"}

-----------------------------------------------------------------------------
\* The sender.

\* A new copy: ObserveLocalEvent makes the jobs of earlier ones stale ...
CopyFiles(o) ==
    /\ o = newest.offer + 1 /\ newest.swept /\ Spend("offers") /\ newest' = [offer |-> o, swept |-> FALSE]
    /\ UNCHANGED <<snd, net, stream, session, jobs, work, cache>>

\* ... cancelClipboardSends cancels them, and the new copy gets its job.
ClipboardFilesChanged ==
    /\ ~newest.swept /\ newest' = [newest EXCEPT !.swept = TRUE]
    /\ snd' = [o \in Offers |-> IF o = newest.offer THEN [pc |-> "offer", live |-> TRUE]
                                ELSE [snd[o] EXCEPT !.live = FALSE]]
    /\ UNCHANGED <<net, stream, session, jobs, work, cache, spare>>

FileSendCurrent(o) == snd[o].live /\ o = newest.offer

SendStep(o, from, to) == snd[o].pc = from /\ FileSendCurrent(o) /\ snd' = [snd EXCEPT ![o].pc = to]

OfferFiles(o) ==
    /\ SendStep(o, "offer", "ack") /\ net' = [net EXCEPT ![o] = @ \cup {"offer"}]
    /\ UNCHANGED <<newest, stream, session, jobs, work, cache, spare>>

ReadyArrives(o) ==
    /\ "ready" \in net[o] /\ SendStep(o, "ack", "prepared") /\ net' = [net EXCEPT ![o] = @ \ {"ready"}]
    /\ UNCHANGED <<newest, stream, session, jobs, work, cache, spare>>

\* The pooled session carries one transfer at a time.
OpenFileStream(o) ==
    /\ session = 0 /\ SendStep(o, "prepared", "send") /\ session' = o
    /\ stream' = [stream EXCEPT ![o] = "open"]
    /\ UNCHANGED <<newest, net, jobs, work, cache, spare>>

\* finishClipboardFile: an error of its own tells the peer, unless it is gone.
FinishSend(o, told) ==
    /\ snd' = [snd EXCEPT ![o] = [pc |-> "ended", live |-> FALSE]]
    /\ net' = [net EXCEPT ![o] = IF told THEN @ \cup {"cancel"} ELSE @]
    /\ session' = IF session = o THEN 0 ELSE session
    /\ stream' = [stream EXCEPT ![o] = IF @ = "open" THEN "broken" ELSE @]

FileSendEnds(o) ==
    /\ snd[o].pc = "send" /\ stream[o] \in {"done", "broken"} /\ FinishSend(o, stream[o] = "broken")
    /\ UNCHANGED <<newest, jobs, work, cache, spare>>

\* The job was cancelled or is stale, or the lease of the offer ran out while
\* it waits for the receiver.
FileSendFails(o) ==
    /\ snd[o].pc \in {"offer", "ack", "prepared", "send"}
    /\ \/ ~FileSendCurrent(o) /\ UNCHANGED spare
       \/ snd[o].pc = "ack" /\ Spend("lapses")
    /\ FinishSend(o, TRUE) /\ UNCHANGED <<newest, jobs, work, cache>>

-----------------------------------------------------------------------------
\* The receiver's jobs.

\* While a receive shows its paths it holds clipboardGrantMu and the lock of
\* clipboardsync.State.
StateFree == \A o \in Offers : work[o].pc # "native"

FilesCurrent(o) ==
    rcv[o].revision = state.revision /\ rcv[o].gen = state.gen /\ state.committed = o
FileReceiveCurrent(o) == rcv[o].live /\ permit /\ FilesCurrent(o)

CancelJobs(S) == [o \in Offers |-> IF o \in S /\ rcv[o].state # "none" /\ ~Finished(rcv[o].state)
                                   THEN [rcv[o] EXCEPT !.state = "cancelled", !.live = FALSE, !.asked = TRUE]
                                   ELSE rcv[o]]

StaleJobs == {o \in Offers : ~FileReceiveCurrent(o)}

\* A program takes the clipboard; the desktop's owner observes it.
UserCopiesHere ==
    /\ Spend("copies") /\ clip' = [gen |-> clip.gen + 1, shows |-> 0]
    /\ UNCHANGED <<sides, rcv, admit, state, permit, sweep, work, cache>>

ObserveCopy ==
    /\ StateFree /\ sweep = "none" /\ clip.gen > state.gen
    /\ state' = [state EXCEPT !.revision = @ + 1, !.gen = clip.gen] /\ sweep' = "all"
    /\ UNCHANGED <<sides, rcv, admit, clip, permit, work, cache, spare>>

\* SetClipboardGrant withdraws the permission and what was reserved under it.
WithdrawFiles ==
    /\ StateFree /\ sweep = "none" /\ permit /\ Spend("edits")
    /\ permit' = FALSE /\ state' = [state EXCEPT !.revision = @ + 1] /\ sweep' = "stale"
    /\ UNCHANGED <<sides, rcv, admit, clip, work, cache>>

\* cancelClipboardFileJobs after a copy, cancelStaleClipboardFiles otherwise.
SweepJobs ==
    /\ sweep # "none" /\ sweep' = "none"
    /\ rcv' = CancelJobs(IF sweep = "all" THEN Offers ELSE StaleJobs)
    /\ UNCHANGED <<sides, admit, clip, state, permit, work, cache, spare>>

\* BeginHeader pins the revision and the generation of an event in order.
BeginOffer(o) ==
    /\ "offer" \in net[o] /\ admit.pc = "none" /\ net' = [net EXCEPT ![o] = @ \ {"offer"}]
    /\ admit' = IF permit /\ o > state.committed
                THEN [pc |-> "begun", offer |-> o, revision |-> state.revision, gen |-> state.gen]
                ELSE NoAdmission
    /\ UNCHANGED <<snd, newest, stream, session, rcv, clip, state, permit, sweep, work, cache, spare>>

\* ReserveFiles, under clipboardGrantMu: the offer becomes what is current.
ReserveFiles ==
    /\ admit.pc = "begun" /\ StateFree
    /\ IF permit /\ clip.gen = admit.gen /\ admit.revision = state.revision /\ admit.gen = state.gen
          /\ admit.offer > state.committed
       THEN /\ state' = [state EXCEPT !.revision = @ + 1, !.committed = admit.offer]
            /\ admit' = [admit EXCEPT !.pc = "reserved", !.revision = state.revision + 1]
       ELSE admit' = NoAdmission /\ UNCHANGED state
    /\ UNCHANGED <<sides, rcv, clip, permit, sweep, work, cache, spare>>

AddClipboardFileJob ==
    /\ admit.pc = "reserved" /\ admit' = [admit EXCEPT !.pc = "added"]
    /\ rcv' = [rcv EXCEPT ![admit.offer] = [NoJob EXCEPT !.state = "preparing", !.live = TRUE,
                                              !.revision = admit.revision, !.gen = admit.gen]]
    /\ UNCHANGED <<sides, clip, state, permit, sweep, work, cache, spare>>

\* Mutant: only the change that makes a job stale looks for it.
NoLateSweep == UNCHANGED rcv

\* What became stale before the job was listed is noticed here.
LateSweep == rcv' = CancelJobs(StaleJobs)

\* The rest of admitClipboardFiles; a cancelled job says nothing.
SendReady ==
    /\ admit.pc = "added" /\ admit' = NoAdmission /\ LateSweep
    /\ net' = [net EXCEPT ![admit.offer] = IF rcv'[admit.offer].live THEN @ \cup {"ready"} ELSE @]
    /\ UNCHANGED <<snd, newest, stream, session, clip, state, permit, sweep, work, cache, spare>>

\* Mutant: the peer's answer to our rejection replaces its reason.
MayCancelAny(o) == ~Finished(rcv[o].state)

\* A local rejection keeps its reason.
MayCancel(o) == ~rcv[o].local /\ ~Finished(rcv[o].state)

\* clipboardFileCancelled; the message may come before its offer.
CancelArrives(o) ==
    /\ "cancel" \in net[o] /\ net' = [net EXCEPT ![o] = @ \ {"cancel"}]
    /\ rcv' = IF rcv[o].state # "none" /\ MayCancel(o)
              THEN [rcv EXCEPT ![o].state = "cancelled", ![o].live = FALSE] ELSE rcv
    /\ UNCHANGED <<snd, newest, stream, session, admit, clip, state, permit, sweep, work, cache, spare>>

LoseCancel(o) ==
    /\ "cancel" \in net[o] /\ Spend("losses") /\ net' = [net EXCEPT ![o] = @ \ {"cancel"}]
    /\ UNCHANGED <<snd, newest, stream, session, jobs, work, cache>>

\* CancelClipboardFile, by the user.
UserCancels(o) ==
    /\ rcv[o].live /\ ~Finished(rcv[o].state) /\ Spend("cancels") /\ rcv' = CancelJobs({o})
    /\ UNCHANGED <<sides, admit, clip, state, permit, sweep, work, cache>>

-----------------------------------------------------------------------------
\* The receive of a body.

At(o, pc) == work[o].pc = pc
Goto(o, pc) == work' = [work EXCEPT ![o].pc = pc]
\* An error ends the receive: what was never shown is cleaned up.
Give(o, err) ==
    work' = [work EXCEPT ![o].pc = IF work[o].native THEN "protected" ELSE "discard", ![o].err = err]

\* receiveClipboardFileStream: the stream must be that of a job not started.
FileStreamArrives(o) ==
    /\ stream[o] = "open" /\ At(o, "none")
    /\ IF rcv[o].state # "none" /\ ~rcv[o].started /\ FileReceiveCurrent(o)
       THEN Goto(o, "open") /\ rcv' = [rcv EXCEPT ![o].started = TRUE] /\ UNCHANGED stream
       ELSE stream' = [stream EXCEPT ![o] = "broken"] /\ UNCHANGED <<work, rcv>>
    /\ UNCHANGED <<snd, newest, net, session, admit, clip, state, permit, sweep, cache, spare>>

OpenDestination(o) ==
    /\ At(o, "open") /\ Goto(o, "register") /\ tree' = [tree EXCEPT ![o] = {"dir"}]
    /\ UNCHANGED <<sides, jobs, row, active, reserved, collect, shown, spare>>

\* registerClipboardCache: the reference first, then the row.
RegisterCache(o) ==
    /\ At(o, "register") /\ collect.pc = "none" /\ Goto(o, "plan") /\ active' = active \cup {o}
    /\ row' = [row EXCEPT ![o] = [state |-> "receiving", cleanup |-> {}]]
    /\ UNCHANGED <<sides, jobs, tree, reserved, collect, shown, spare>>

\* reserve: room beside every other reservation, also one already in use.
HasRoom == Cardinality({o \in Offers : "files" \in tree[o]}) + Cardinality(reserved) < Capacity

\* Full even after a collection: rejected for a reason of its own.
PlanCache(o) ==
    /\ At(o, "plan")
    /\ IF ~FileReceiveCurrent(o) THEN Give(o, "conflict") /\ UNCHANGED <<rcv, reserved>>
       ELSE IF HasRoom
       THEN Goto(o, "stage") /\ reserved' = reserved \cup {o} /\ UNCHANGED rcv
       ELSE Give(o, "full") /\ rcv' = [rcv EXCEPT ![o].local = TRUE] /\ UNCHANGED reserved
    /\ UNCHANGED <<sides, admit, clip, state, permit, sweep, row, tree, active, collect, shown, spare>>

\* bindStage: the row knows the staging directory's identity.
StageCache(o) ==
    /\ At(o, "stage") /\ Goto(o, "body") /\ tree' = [tree EXCEPT ![o] = @ \cup {"stage"}]
    /\ UNCHANGED <<sides, jobs, row, active, reserved, collect, shown, spare>>

\* The engine receives, verifies and links the files; what it made is captured
\* while it still holds it, unless somebody else put something there.
Captured(o) == IF "foreign" \in tree'[o] THEN {"unknown"} ELSE tree'[o] \ {"dir"}

ReceiveBody(o) ==
    /\ At(o, "body") /\ rcv[o].live /\ stream[o] = "open"
    /\ tree' = [tree EXCEPT ![o] = @ \cup {"files"}] /\ stream' = [stream EXCEPT ![o] = "done"]
    /\ work' = [work EXCEPT ![o].inventory = Captured(o),
                            ![o].pc = IF Captured(o) = {"unknown"} THEN "discard" ELSE "verified",
                            ![o].err = IF Captured(o) = {"unknown"} THEN "failed" ELSE "none"]
    /\ UNCHANGED <<snd, newest, net, session, jobs, row, active, reserved, collect, shown, spare>>

\* The stream breaks, the job is cancelled, or it fails: part of the files is there.
BodyFails(o) ==
    /\ At(o, "body")
    /\ \/ (~rcv[o].live \/ stream[o] # "open") /\ UNCHANGED spare
       \/ Spend("failures")
    /\ \E parts \in {{}, {"files"}} : tree' = [tree EXCEPT ![o] = @ \cup parts]
    /\ work' = [work EXCEPT ![o].inventory = Captured(o), ![o].pc = "discard",
                            ![o].err = IF rcv[o].live THEN "failed" ELSE "conflict"]
    /\ stream' = [stream EXCEPT ![o] = "broken"]
    /\ UNCHANGED <<snd, newest, net, session, jobs, row, active, reserved, collect, shown>>

\* updateClipboardFile cancels a job that is no longer current.
ProgressStops(o) ==
    /\ At(o, "body") /\ rcv[o].live /\ ~FileReceiveCurrent(o) /\ rcv' = [rcv EXCEPT ![o].live = FALSE]
    /\ UNCHANGED <<sides, admit, clip, state, permit, sweep, work, cache, spare>>

\* advance: "verified", then the intent to publish.
AdvanceCache(o, from, to, pc) ==
    /\ At(o, from) /\ Goto(o, pc) /\ row' = [row EXCEPT ![o].state = to]
    /\ UNCHANGED <<sides, jobs, tree, active, reserved, collect, shown, spare>>

MetadataFails(o) ==
    /\ work[o].pc \in {"register", "verified", "intend"} /\ Spend("failures") /\ Give(o, "failed")
    /\ UNCHANGED <<sides, jobs, cache>>

\* Mutant: only a write that succeeded counts.
EnterUnmarked(o) == [work[o] EXCEPT !.pc = "native"]

\* beginNative, before the system clipboard sees the paths.
EnterNative(o) == [work[o] EXCEPT !.pc = "native", !.native = TRUE]

\* CommitFiles, with both locks: everything is looked at again.
BeginNative(o) ==
    /\ At(o, "publish") /\ StateFree
    /\ IF FileReceiveCurrent(o) /\ clip.gen = state.gen
       THEN work' = [work EXCEPT ![o] = EnterNative(o)]
       ELSE Give(o, "conflict")
    /\ UNCHANGED <<sides, jobs, cache, spare>>

\* Mutant: the system clipboard takes the paths whatever it holds.
WritableAlways == TRUE

\* WriteFiles takes the paths only in place of the generation expected.
Writable == clip.gen = state.gen

\* The system clipboard: a failure may come before or after it took the paths.
WriteFiles(o) ==
    /\ At(o, "native")
    /\ \/ /\ Writable /\ clip' = [gen |-> clip.gen + 1, shows |-> o] /\ shown' = shown \cup {o}
          /\ \/ /\ state' = [state EXCEPT !.revision = @ + 1, !.gen = clip.gen + 1]
                /\ Goto(o, "published") /\ UNCHANGED spare
             \/ UNCHANGED state /\ Spend("failures") /\ Give(o, "uncertain")
       \/ /\ IF Writable THEN Spend("failures") ELSE UNCHANGED spare
          /\ Give(o, "uncertain") /\ UNCHANGED <<clip, state, shown>>
    /\ UNCHANGED <<sides, rcv, admit, permit, sweep, row, tree, active, reserved, collect>>

SettleCache(o) ==
    /\ work[o].pc \in {"published", "protected"} /\ Goto(o, "release") /\ reserved' = reserved \ {o}
    /\ \/ row' = [row EXCEPT ![o].state = work[o].pc] /\ UNCHANGED spare
       \/ Spend("failures") /\ UNCHANGED row
    /\ UNCHANGED <<sides, jobs, tree, active, collect, shown>>

-----------------------------------------------------------------------------
\* Removal of what was never shown.

\* discardUnpublished: without an inventory only an empty object may go.
Seals(o) == ~work[o].native /\ (work[o].inventory # {"unknown"} \/ tree[o] = {"dir"})

Sealed(o) == IF work[o].inventory = {"unknown"} THEN {} ELSE work[o].inventory

DiscardUnpublished(o) ==
    /\ At(o, "discard") /\ reserved' = reserved \ {o}
    /\ stream' = [stream EXCEPT ![o] = IF @ = "open" THEN "broken" ELSE @]
    /\ \/ /\ row[o].state = "none" /\ Goto(o, "release") /\ UNCHANGED <<row, spare>>
          /\ tree' = [tree EXCEPT ![o] = IF @ = {"dir"} THEN {} ELSE @]
       \/ /\ row[o].state # "none" /\ Seals(o) /\ Goto(o, "mark") /\ UNCHANGED <<tree, spare>>
          /\ row' = [row EXCEPT ![o] = [state |-> "reclaimable", cleanup |-> Sealed(o)]]
       \/ /\ row[o].state # "none" /\ Goto(o, "release")
          /\ IF Seals(o) THEN Spend("failures") ELSE UNCHANGED spare
          /\ row' = [row EXCEPT ![o].state = "abandoned"] /\ UNCHANGED tree
    /\ UNCHANGED <<snd, newest, net, session, jobs, active, collect, shown>>

\* The second save: the object is being deleted.
MarkDeleting(o) ==
    /\ row[o].state \in {"reclaimable", "deleting"} /\ row' = [row EXCEPT ![o].state = "deleting"]

\* Mutant: whatever lies there goes.
RemovableAll(o) == TRUE

\* checkClipboardCacheTree: nothing but the registered nodes, some may be gone.
CanRemove(o) == tree[o] \subseteq row[o].cleanup \cup {"dir"}

\* removeClipboardCacheTree and the empty directory, deepest first, one a step.
RemoveNode(o) ==
    /\ tree[o] # {} /\ CanRemove(o)
    /\ tree' = [tree EXCEPT ![o] = IF "files" \in @ THEN @ \ {"files"} ELSE
                                   IF "stage" \in @ THEN @ \ {"stage"} ELSE {}]

\* The receive removes its object itself ...
DiscardStep(o) ==
    /\ \/ At(o, "mark") /\ MarkDeleting(o) /\ Goto(o, "remove") /\ UNCHANGED tree
       \/ At(o, "remove") /\ RemoveNode(o) /\ UNCHANGED <<work, row>>
       \/ /\ At(o, "remove") /\ tree[o] = {} /\ Goto(o, "release")
          /\ row' = [row EXCEPT ![o] = NoRow] /\ UNCHANGED tree
    /\ UNCHANGED <<sides, jobs, active, reserved, collect, shown, spare>>

\* ... and leaves it to the collector when a step fails.
DiscardFails(o) ==
    /\ work[o].pc \in {"mark", "remove"}
    /\ IF work[o].pc = "remove" /\ ~CanRemove(o) THEN UNCHANGED spare ELSE Spend("failures")
    /\ Goto(o, "release") /\ UNCHANGED <<sides, jobs, cache>>

\* The reference goes last; finishClipboardFile then tells the job's end.
ReleaseCache(o) ==
    /\ At(o, "release") /\ Goto(o, "ended") /\ active' = active \ {o}
    /\ rcv' = [rcv EXCEPT ![o].live = FALSE, ![o].state =
                  IF @ = "cancelled" THEN @ ELSE IF work[o].err = "none" THEN "completed"
                  ELSE IF ~rcv[o].local /\ (~rcv[o].live \/ work[o].err = "conflict") THEN "cancelled" ELSE "failed"]
    /\ UNCHANGED <<sides, admit, clip, state, permit, sweep, row, tree, reserved, collect, shown, spare>>

\* collectClipboardCache: sealed rows of objects nobody refers to; no
\* reference is given while one is removed.  The (at most eight) attempts at an
\* object with something foreign, which all fail, are left out.
Collectable(o) == row[o].state \in {"reclaimable", "deleting"} /\ o \notin active

CollectBegin(o) ==
    /\ collect.pc = "none" /\ Collectable(o)
    /\ ("foreign" \notin tree[o]) /\ MarkDeleting(o) /\ collect' = [pc |-> "remove", offer |-> o]
    /\ UNCHANGED <<sides, jobs, work, tree, active, reserved, shown, spare>>

\* Mutant: an object that is gone already is taken for a foreign one.
GoneIsForeign(o) == FALSE

\* openRecordedClipboardCache finds no object: the row alone is left.
OnlyRow(o) == tree[o] = {}

CollectStep ==
    /\ collect.pc = "remove"
    /\ LET o == collect.offer IN
       \/ RemoveNode(o) /\ UNCHANGED <<row, collect>>
       \/ OnlyRow(o) /\ row' = [row EXCEPT ![o] = NoRow] /\ collect' = NoCollection /\ UNCHANGED tree
       \/ tree[o] # {} /\ ~CanRemove(o) /\ collect' = NoCollection /\ UNCHANGED <<row, tree>>
    /\ UNCHANGED <<sides, jobs, work, active, reserved, shown, spare>>

CollectFails ==
    /\ collect.pc = "remove" /\ Spend("failures") /\ collect' = NoCollection
    /\ UNCHANGED <<sides, jobs, work, row, tree, active, reserved, shown>>

-----------------------------------------------------------------------------
\* Other programs and ends of the receiver.

PutForeign(o) ==
    /\ "dir" \in tree[o] /\ "foreign" \notin tree[o] /\ Spend("foreign")
    /\ tree' = [tree EXCEPT ![o] = @ \cup {"foreign"}]
    /\ UNCHANGED <<sides, jobs, work, row, active, reserved, collect, shown>>

\* Rows and objects are left; the connection breaks.
ReceiverRestarts ==
    /\ Spend("restarts")
    /\ rcv' = [o \in Offers |-> NoJob] /\ admit' = NoAdmission /\ sweep' = "none"
    /\ state' = [revision |-> state.revision + 1, gen |-> clip.gen, committed |-> 0]
    /\ work' = [o \in Offers |-> IF work[o].pc = "none" THEN NoWork ELSE [NoWork EXCEPT !.pc = "ended"]]
    /\ active' = {} /\ reserved' = {} /\ collect' = NoCollection
    /\ net' = [o \in Offers |-> {}] /\ stream' = [o \in Offers |-> IF stream[o] = "open" THEN "broken" ELSE stream[o]]
    /\ snd' = [o \in Offers |-> [snd[o] EXCEPT !.live = FALSE]]
    /\ UNCHANGED <<newest, session, clip, permit, row, tree, shown>>

SenderSteps ==
    \/ ClipboardFilesChanged
    \/ \E o \in Offers : ReadyArrives(o) \/ OfferFiles(o) \/ OpenFileStream(o) \/ FileSendEnds(o)
JobSteps == ObserveCopy \/ SweepJobs \/ ReserveFiles \/ AddClipboardFileJob \/ SendReady
            \/ \E o \in Offers : BeginOffer(o) \/ CancelArrives(o)
WorkStep(o) ==
    \/ FileStreamArrives(o) \/ OpenDestination(o) \/ RegisterCache(o) \/ PlanCache(o) \/ StageCache(o) \/ ReceiveBody(o)
    \/ BodyFails(o) \/ ProgressStops(o) \/ AdvanceCache(o, "verified", "verified", "intend")
    \/ AdvanceCache(o, "intend", "publishing", "publish")
    \/ BeginNative(o) \/ WriteFiles(o) \/ SettleCache(o) \/ DiscardUnpublished(o) \/ DiscardStep(o) \/ DiscardFails(o)
    \/ ReleaseCache(o)
Collector == CollectStep \/ \E o \in Offers : CollectBegin(o)

FilesNext ==
    \/ SenderSteps \/ JobSteps \/ Collector \/ CollectFails \/ UserCopiesHere \/ WithdrawFiles \/ ReceiverRestarts
    \/ \E o \in Offers : \/ CopyFiles(o) \/ FileSendFails(o) \/ LoseCancel(o) \/ UserCancels(o) \/ WorkStep(o)
                         \/ MetadataFails(o) \/ PutForeign(o)

\* Goroutines go on; the collector runs at the start, every five minutes and
\* when a reference is released.
FilesFairness ==
    /\ WF_cfVars(SenderSteps) /\ WF_cfVars(JobSteps) /\ WF_cfVars(Collector)
    /\ \A o \in Offers : WF_cfVars(WorkStep(o))

FilesSpec == FilesInit /\ [][FilesNext]_cfVars /\ FilesFairness

-----------------------------------------------------------------------------
\* Properties.

\* What the clipboard may show stays whole: no cleanup, no collection and no
\* end of the process removes an object whose paths it has ever taken.
ExposedFilesStay == \A o \in shown : {"dir", "stage", "files"} \subseteq tree[o]

\* What another program put into an object is never removed.
ForeignStays == [][\A o \in Offers : "foreign" \in tree[o] => "foreign" \in tree'[o]]_cfVars

\* The paths replace only what the clipboard held when the offer was reserved,
\* however long the body took: a copy made since, observed or not, a later
\* offer or a withdrawn permission keeps them off it.
LateFilesYield ==
    [][\A o \in Offers : clip'.shows = o /\ clip'.gen > clip.gen =>
          clip.gen = rcv[o].gen /\ permit /\ \A later \in Offers : later > o => rcv[later].state = "none"]_cfVars

\* A reservation that has become stale does not stay until its deadline.
StaleReceivesEnd ==
    \A o \in Offers : (rcv[o].live /\ ~FilesCurrent(o) ~> ~rcv[o].live)

\* A receive rejected for want of room says so, unless it was cancelled here.
ReasonStays == [][\A o \in Offers : rcv[o].local /\ rcv'[o].state = "cancelled" => rcv'[o].asked]_cfVars

\* What was sealed is removed, also when the process ended halfway; only what
\* somebody else put there keeps it.
SealedGoes == \A o \in Offers : (row[o].state \in {"reclaimable", "deleting"}
                                 ~> row[o].state = "none" \/ "foreign" \in tree[o])

\* The paths that the clipboard points to stay whole, and no step removes what
\* others put there, replaces a newer copy or loses the reason of a refusal.
CacheSteps == []ExposedFilesStay /\ ForeignStays /\ LateFilesYield /\ ReasonStays

\* What nobody needs any more goes: stale reservations and sealed objects.
CacheEnds == StaleReceivesEnd /\ SealedGoes
=============================================================================
