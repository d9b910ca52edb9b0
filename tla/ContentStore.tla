---------------------------- MODULE ContentStore ----------------------------
(***************************************************************************)
(* The owned content store of a profile (internal/content) and its users:  *)
(* content drafts, their queue items and the tasks that send them          *)
(* (internal/app/content_*.go).  An object is a directory with a body and  *)
(* a metadata file; it is made and removed file by file, and the process   *)
(* may end between two of these steps.  Rows change in one transaction.    *)
(*                                                                         *)
(* Every operation here runs under content.mu (op); cleanup also holds     *)
(* queue.mu and operationMu, so no item and no task starts meanwhile.      *)
(* A draft stands for its request, the item queued from it and that item's *)
(* task.  Hashes and sizes are left out: a body is there or it is not.     *)
(***************************************************************************)
EXTENDS FiniteSets, Naturals

CONSTANTS
    Objects,        \* object directories, each made at most once
    Drafts,         \* content drafts, by the request that makes them
    MaxCrashes      \* bound: ends of the process

ASSUME ContentStoreAssumption == "none" \notin Objects \cup Drafts /\ MaxCrashes \in Nat

VARIABLES
    object,     \* the files of each object and the references its metadata lists
    draft,      \* table content_drafts: state and object of each draft
    queued,     \* tables send_queue and content_queue: the item of each draft
    sending,    \* tables tasks and content_tasks: the task of each item
    op,         \* the operation that holds content.mu
    retain,     \* ContentSettings.RetainSentSnapshots
    crashes

csVars == <<object, draft, queued, sending, op, retain, crashes>>
rows == <<draft, queued, sending, retain>>

Files == [dir : BOOLEAN, body : BOOLEAN, meta : BOOLEAN, refs : SUBSET Drafts]
NoFiles == [dir |-> FALSE, body |-> FALSE, meta |-> FALSE, refs |-> {}]

Free == [name |-> "none", pc |-> "none", draft |-> "none", object |-> "none", left |-> {}]

\* A task row: "live" may run, "paused" can be resumed, "kept" failed with its
\* recovery data; "ended" is every other end.
SendingStates == {"none", "live", "paused", "kept", "ended", "forgotten"}

ContentTypeOK ==
    /\ object \in [Objects -> Files]
    /\ draft \in [Drafts -> [state : {"none", "draft", "queued", "discarded"},
                             object : Objects \cup {"none"}]]
    /\ queued \in [Drafts -> {"none", "open", "ended"}]
    /\ sending \in [Drafts -> SendingStates]
    /\ op \in [name : {"none", "create", "resend", "cleanup"},
               pc : {"none", "body", "metadata", "insert", "release", "scan", "body_gone",
                     "metadata_gone"},
               draft : Drafts \cup {"none"}, object : Objects \cup {"none"},
               left : SUBSET Objects]
    /\ retain \in BOOLEAN /\ crashes \in 0 .. MaxCrashes

ContentInit ==
    /\ object = [o \in Objects |-> NoFiles]
    /\ draft = [d \in Drafts |-> [state |-> "none", object |-> "none"]]
    /\ queued = [d \in Drafts |-> "none"]
    /\ sending = [d \in Drafts |-> "none"]
    /\ op = Free /\ retain = FALSE /\ crashes = 0

-----------------------------------------------------------------------------
\* The store.

OpFree == op.name = "none"
Reading(n, pc) == op.name = n /\ op.pc = pc

\* load: a directory without metadata is an error.
Loads(o) == object[o].dir /\ object[o].meta

\* OwnedPath: the object loads, is referenced and has its body.
OwnedPath(o) == Loads(o) /\ object[o].refs # {} /\ object[o].body

\* An object is never reused: its identifier is random.
Untouched(o) == object[o] = NoFiles /\ \A d \in Drafts : draft[d].object # o

\* create: the directory, then the body.
CreateBegin(d, o) ==
    /\ OpFree /\ draft[d].state = "none" /\ Untouched(o)
    /\ object' = [object EXCEPT ![o].dir = TRUE]
    /\ op' = [Free EXCEPT !.name = "create", !.pc = "body", !.draft = d, !.object = o]
    /\ UNCHANGED rows /\ UNCHANGED crashes

CreateBody ==
    /\ Reading("create", "body")
    /\ object' = [object EXCEPT ![op.object].body = TRUE]
    /\ op' = [op EXCEPT !.pc = "metadata"]
    /\ UNCHANGED rows /\ UNCHANGED crashes

\* saveRecord renames the metadata into place, with the draft's reference.
CreateMetadata ==
    /\ Reading("create", "metadata")
    /\ object' = [object EXCEPT ![op.object].meta = TRUE, ![op.object].refs = {op.draft}]
    /\ op' = [op EXCEPT !.pc = "insert"]
    /\ UNCHANGED rows /\ UNCHANGED crashes

\* A failing body or metadata write removes what was made.
CreateFails ==
    /\ op.name = "create" /\ op.pc \in {"body", "metadata"}
    /\ object' = [object EXCEPT ![op.object] = NoFiles]
    /\ op' = Free
    /\ UNCHANGED rows /\ UNCHANGED crashes

\* resendContentInbox: the object of a sent task is retained for a new draft.
ResendBegin(d, from) ==
    LET o == draft[from].object
    IN /\ OpFree /\ d # from /\ draft[d].state = "none"
       /\ sending[from] \in {"kept", "ended"} /\ OwnedPath(o)
       /\ object' = [object EXCEPT ![o].refs = @ \cup {d}]
       /\ op' = [Free EXCEPT !.name = "resend", !.pc = "insert", !.draft = d, !.object = o]
       /\ UNCHANGED rows /\ UNCHANGED crashes

\* createContentDraft inserts the row after the object is referenced.
InsertDraft ==
    /\ op.pc = "insert"
    /\ draft' = [draft EXCEPT ![op.draft] = [state |-> "draft", object |-> op.object]]
    /\ op' = Free
    /\ UNCHANGED <<object, queued, sending, retain, crashes>>

\* The insertion fails and the reference is released.
InsertFails ==
    /\ op.pc = "insert"
    /\ object' = [object EXCEPT ![op.object].refs = @ \ {op.draft}]
    /\ op' = Free
    /\ UNCHANGED rows /\ UNCHANGED crashes

-----------------------------------------------------------------------------
\* Drafts, items and tasks.

DiscardContentDraft(d) ==
    /\ OpFree /\ draft[d].state = "draft"
    /\ draft' = [draft EXCEPT ![d].state = "discarded"]
    /\ UNCHANGED <<object, queued, sending, op, retain, crashes>>

\* EnqueueContent: item, content row and draft in one transaction.
EnqueueContent(d) ==
    /\ OpFree /\ draft[d].state = "draft" /\ OwnedPath(draft[d].object)
    /\ draft' = [draft EXCEPT ![d].state = "queued"]
    /\ queued' = [queued EXCEPT ![d] = "open"]
    /\ UNCHANGED <<object, sending, op, retain, crashes>>

\* The dispatcher checks the object under queue.mu and registers the new task.
StartContentTask(d) ==
    /\ op.name # "cleanup" /\ queued[d] = "open" /\ sending[d] \notin {"live", "paused"}
    /\ OwnedPath(draft[d].object)
    /\ sending' = [sending EXCEPT ![d] = "live"]
    /\ UNCHANGED <<object, draft, queued, op, retain, crashes>>

\* A task that can be resumed, from the queue or from the task list.
ResumeContentTask(d) ==
    /\ op.name # "cleanup" /\ sending[d] = "paused" /\ OwnedPath(draft[d].object)
    /\ sending' = [sending EXCEPT ![d] = "live"]
    /\ UNCHANGED <<object, draft, queued, op, retain, crashes>>

ContentTaskEnds(d, s) ==
    /\ \/ sending[d] = "live" /\ s \in {"paused", "kept", "ended"}
       \/ sending[d] = "paused" /\ s = "ended"
    /\ sending' = [sending EXCEPT ![d] = s]
    /\ UNCHANGED <<object, draft, queued, op, retain, crashes>>

\* A receipt, or a cancellation while the worker still runs.
ContentItemEnds(d) ==
    /\ op.name # "cleanup" /\ queued[d] = "open"
    /\ queued' = [queued EXCEPT ![d] = "ended"]
    /\ UNCHANGED <<object, draft, sending, op, retain, crashes>>

\* ForgetInboxRecords deletes the task row; the content row stays.
ForgetContentTask(d) ==
    /\ op.name # "cleanup" /\ queued[d] = "ended" /\ sending[d] = "ended"
    /\ sending' = [sending EXCEPT ![d] = "forgotten"]
    /\ UNCHANGED <<object, draft, queued, op, retain, crashes>>

SetContentSettings ==
    /\ OpFree /\ retain' = ~retain
    /\ UNCHANGED <<object, draft, queued, sending, op, crashes>>

-----------------------------------------------------------------------------
\* CleanupContentSnapshots.

\* Mutant: only drafts and items protect an object.
ProtectedByQueue(o) ==
    \E d \in Drafts : draft[d].object = o /\ (draft[d].state = "draft" \/ queued[d] = "open")

\* contentSnapshotProtected.
Protected(o) ==
    \E d \in Drafts :
        /\ draft[d].object = o
        /\ \/ draft[d].state = "draft"
           \/ queued[d] = "open"
           \/ sending[d] \in {"live", "paused", "kept"}
           \/ retain /\ sending[d] = "ended"

\* OwnedObjects fails as a whole if one directory does not load.
CleanupBegin ==
    /\ OpFree
    /\ \A o \in Objects : object[o].dir => Loads(o)
    /\ op' = [Free EXCEPT !.name = "cleanup", !.pc = "release",
                          !.left = {o \in Objects : object[o].dir}]
    /\ UNCHANGED object /\ UNCHANGED rows /\ UNCHANGED crashes

\* The references of an unprotected object are released one at a time.
CleanupRelease(o, d) ==
    /\ Reading("cleanup", "release") /\ o \in op.left /\ ~Protected(o)
    /\ d \in object[o].refs
    /\ object' = [object EXCEPT ![o].refs = @ \ {d}]
    /\ UNCHANGED op /\ UNCHANGED rows /\ UNCHANGED crashes

CleanupReleased(o) ==
    /\ Reading("cleanup", "release") /\ o \in op.left
    /\ Protected(o) \/ object[o].refs = {}
    /\ op' = IF op.left = {o}
             THEN [op EXCEPT !.pc = "scan", !.left = {p \in Objects : object[p].dir}]
             ELSE [op EXCEPT !.left = @ \ {o}]
    /\ UNCHANGED object /\ UNCHANGED rows /\ UNCHANGED crashes

\* Cleanup skips what is referenced or is not two files any more.
Removable(o) == Loads(o) /\ object[o].refs = {} /\ object[o].body

CleanupSkip(o) ==
    /\ Reading("cleanup", "scan") /\ o \in op.left /\ ~Removable(o)
    /\ op' = [op EXCEPT !.left = @ \ {o}]
    /\ UNCHANGED object /\ UNCHANGED rows /\ UNCHANGED crashes

\* The body, the metadata and the directory are removed in this order.
CleanupBody(o) ==
    /\ Reading("cleanup", "scan") /\ o \in op.left /\ Removable(o)
    /\ object' = [object EXCEPT ![o].body = FALSE]
    /\ op' = [op EXCEPT !.pc = "body_gone", !.object = o]
    /\ UNCHANGED rows /\ UNCHANGED crashes

CleanupMetadata ==
    /\ Reading("cleanup", "body_gone")
    /\ object' = [object EXCEPT ![op.object].meta = FALSE]
    /\ op' = [op EXCEPT !.pc = "metadata_gone"]
    /\ UNCHANGED rows /\ UNCHANGED crashes

CleanupDirectory ==
    /\ Reading("cleanup", "metadata_gone")
    /\ object' = [object EXCEPT ![op.object].dir = FALSE]
    /\ op' = [op EXCEPT !.pc = "scan", !.object = "none", !.left = @ \ {op.object}]
    /\ UNCHANGED rows /\ UNCHANGED crashes

CleanupEnd ==
    /\ op.name = "cleanup" /\ op.left = {} /\ op.pc \in {"release", "scan"}
    /\ op' = Free
    /\ UNCHANGED object /\ UNCHANGED rows /\ UNCHANGED crashes

\* The process ends: a live task is recovered or has failed at the next start.
ContentCrash ==
    /\ crashes < MaxCrashes /\ crashes' = crashes + 1
    /\ op' = Free
    /\ \E lost \in SUBSET {d \in Drafts : sending[d] = "live"} :
         sending' = [d \in Drafts |-> IF d \in lost THEN "ended"
                                      ELSE IF sending[d] = "live" THEN "paused" ELSE sending[d]]
    /\ UNCHANGED <<object, draft, queued, retain>>

-----------------------------------------------------------------------------
ContentStep ==
    \/ CreateBody \/ CreateMetadata \/ CreateFails \/ InsertDraft \/ InsertFails
    \/ \E o \in Objects, d \in Drafts : CreateBegin(d, o) \/ CleanupRelease(o, d)
    \/ \E d \in Drafts : \/ \E f \in Drafts : ResendBegin(d, f)
                         \/ \E s \in SendingStates : ContentTaskEnds(d, s)
                         \/ DiscardContentDraft(d) \/ EnqueueContent(d)
                         \/ StartContentTask(d) \/ ResumeContentTask(d)
                         \/ ContentItemEnds(d) \/ ForgetContentTask(d)
    \/ SetContentSettings
    \/ CleanupBegin \/ CleanupMetadata \/ CleanupDirectory \/ CleanupEnd
    \/ \E o \in Objects : CleanupReleased(o) \/ CleanupSkip(o) \/ CleanupBody(o)

ContentNext == ContentStep \/ ContentCrash

ContentSpec == ContentInit /\ [][ContentNext]_csVars

-----------------------------------------------------------------------------
\* Properties.

Whole(o) == Loads(o) /\ object[o].body /\ object[o].refs # {}

\* An object that a draft, an open item, or a task that runs or can be resumed
\* still needs is whole, whatever cleanup did and wherever the process ended.
ContentInUseStays ==
    \A d \in Drafts :
        \/ draft[d].state = "draft"
        \/ queued[d] = "open"
        \/ sending[d] \in {"live", "paused"}
        => Whole(draft[d].object)
=============================================================================
