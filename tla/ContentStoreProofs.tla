------------------------- MODULE ContentStoreProofs -------------------------
(***************************************************************************)
(* No object that somebody needs is ever removed, in the content store and *)
(* in the cache of copied files, for every number of objects, drafts,      *)
(* offers and ends of the process.                                         *)
(***************************************************************************)
EXTENDS ContentStore, ClipFiles, TLAPS

\* What a draft, its item and its task need the object for (the condition of
\* ContentInUseStays).
Needs(d) == draft[d].state = "draft" \/ queued[d] = "open" \/ sending[d] \in {"live", "paused"}

(***************************************************************************)
(* The inductive invariant                                                 *)
(***************************************************************************)
\* A draft that was inserted has an object; one that was not has nothing.
RowsAgree ==
    \A d \in Drafts :
        /\ draft[d].state = "none" => queued[d] = "none" /\ sending[d] = "none"
        /\ draft[d].state # "none" => draft[d].object \in Objects

\* What the operation that holds content.mu has made, or is taking away.
OpAgrees ==
    /\ op.name \in {"create", "resend"} =>
         /\ op.draft \in Drafts /\ op.object \in Objects
         /\ draft[op.draft].state = "none"
    /\ op.name = "create" =>
         /\ op.pc \in {"body", "metadata", "insert"}
         /\ \A d \in Drafts : draft[d].object # op.object
         /\ object[op.object].dir
    /\ op.pc = "metadata" => object[op.object].body
    /\ op.pc = "insert" =>
         /\ op.name \in {"create", "resend"}
         /\ Loads(op.object) /\ object[op.object].body /\ op.draft \in object[op.object].refs
    /\ op.pc \in {"body_gone", "metadata_gone"} =>
         op.name = "cleanup" /\ op.object \in Objects /\ object[op.object].refs = {}

\* A needed object is whole, and its references name whoever needs it: this is
\* what keeps a removal, which looks at references only, from it.
ReferencesHold ==
    \A d \in Drafts : Needs(d) =>
        LET o == draft[d].object
        IN  Loads(o) /\ object[o].body /\ d \in object[o].refs

ContentInv == ContentTypeOK /\ RowsAgree /\ OpAgrees /\ ReferencesHold

\* The inductive invariant holds: of every needed object the files are there
\* and the references name those who need it.
THEOREM ContentInvHolds == ContentSpec => []ContentInv
  \* The files of one object may change in any way.
  <1>FilesTypes.
      ASSUME object \in [Objects -> Files], NEW o \in Objects, NEW b \in BOOLEAN, NEW r \in SUBSET Drafts
      PROVE  /\ [object EXCEPT ![o].dir = b] \in [Objects -> Files]
             /\ [object EXCEPT ![o].body = b] \in [Objects -> Files]
             /\ [object EXCEPT ![o].meta = b] \in [Objects -> Files]
             /\ [object EXCEPT ![o].meta = b, ![o].refs = r] \in [Objects -> Files]
    <2> USE <1>FilesTypes
    <2>1. object[o] \in Files
      OBVIOUS
    <2>2. /\ [object[o] EXCEPT !.dir = b] \in Files /\ [object[o] EXCEPT !.body = b] \in Files
          /\ [object[o] EXCEPT !.meta = b] \in Files
          /\ [[object[o] EXCEPT !.meta = b] EXCEPT !.refs = r] \in Files
      BY <2>1 DEF Files
    <2> QED BY <2>2
  <1>ContentTypeStep. ASSUME ContentTypeOK, RowsAgree, OpAgrees, [ContentNext]_csVars PROVE ContentTypeOK'
    <2> USE <1>ContentTypeStep
    <2> USE ContentStoreAssumption DEF ContentTypeOK, rows, Free
    <2>1. CASE CreateBody
      BY <2>1, <1>FilesTypes DEF CreateBody, Reading, OpAgrees
    <2>2. CASE CreateMetadata
      <3>1. op.object \in Objects /\ {op.draft} \in SUBSET Drafts
        BY <2>2 DEF CreateMetadata, Reading, OpAgrees
      <3> QED BY <2>2, <3>1, <1>FilesTypes DEF CreateMetadata
    <2>3. CASE CreateFails
      BY <2>3 DEF CreateFails, NoFiles, OpAgrees, Files
    <2>4. CASE InsertDraft
      BY <2>4 DEF InsertDraft, OpAgrees
    <2>5. CASE InsertFails
      BY <2>5 DEF InsertFails, OpAgrees, Files
    <2>6. ASSUME NEW o \in Objects, NEW d \in Drafts, CreateBegin(d, o) PROVE ContentTypeOK'
      BY <2>6, <1>FilesTypes DEF CreateBegin
    <2>7. ASSUME NEW o \in Objects, NEW d \in Drafts, CleanupRelease(o, d) PROVE ContentTypeOK'
      BY <2>7 DEF CleanupRelease, Files
    <2>8. ASSUME NEW d \in Drafts, NEW f \in Drafts, ResendBegin(d, f) PROVE ContentTypeOK'
      BY <2>8 DEF ResendBegin, RowsAgree, Files
    <2>9. ASSUME NEW d \in Drafts, NEW s \in SendingStates, ContentTaskEnds(d, s) PROVE ContentTypeOK'
      BY <2>9 DEF ContentTaskEnds
    <2>10. ASSUME NEW d \in Drafts, DiscardContentDraft(d) PROVE ContentTypeOK'
      BY <2>10 DEF DiscardContentDraft
    <2>11. ASSUME NEW d \in Drafts, EnqueueContent(d) PROVE ContentTypeOK'
      BY <2>11 DEF EnqueueContent
    <2>12. ASSUME NEW d \in Drafts, StartContentTask(d) \/ ResumeContentTask(d) PROVE ContentTypeOK'
      BY <2>12 DEF StartContentTask, ResumeContentTask, SendingStates
    <2>13. ASSUME NEW d \in Drafts, ContentItemEnds(d) \/ ForgetContentTask(d) PROVE ContentTypeOK'
      BY <2>13 DEF ContentItemEnds, ForgetContentTask, SendingStates
    <2>14. CASE SetContentSettings
      BY <2>14 DEF SetContentSettings
    <2>15. CASE CleanupBegin \/ CleanupEnd
      <3>1. CASE CleanupBegin
        <4>1. {o \in Objects : object[o].dir} \in SUBSET Objects
          OBVIOUS
        <4> HIDE DEF Files
        <4> QED BY <3>1, <4>1 DEF CleanupBegin
      <3>2. CASE CleanupEnd
        BY <3>2 DEF CleanupEnd
      <3> QED BY <2>15, <3>1, <3>2
    <2>16. CASE CleanupMetadata
      BY <2>16, <1>FilesTypes DEF CleanupMetadata, Reading, OpAgrees
    <2>17. CASE CleanupDirectory
      BY <2>17, <1>FilesTypes DEF CleanupDirectory, Reading, OpAgrees
    <2>18. ASSUME NEW o \in Objects, CleanupReleased(o) PROVE ContentTypeOK'
      BY <2>18 DEF CleanupReleased
    <2>19. ASSUME NEW o \in Objects, CleanupSkip(o) PROVE ContentTypeOK'
      BY <2>19 DEF CleanupSkip
    <2>20. ASSUME NEW o \in Objects, CleanupBody(o) PROVE ContentTypeOK'
      BY <2>20, <1>FilesTypes DEF CleanupBody
    <2>21. CASE ContentCrash
      BY <2>21 DEF ContentCrash, SendingStates
    <2>22. CASE UNCHANGED csVars
      BY <2>22 DEF csVars
    <2>23. CASE \E d \in Drafts : \/ \E f \in Drafts : ResendBegin(d, f)
                           \/ \E s \in SendingStates : ContentTaskEnds(d, s)
                           \/ DiscardContentDraft(d) \/ EnqueueContent(d)
                           \/ StartContentTask(d) \/ ResumeContentTask(d)
                           \/ ContentItemEnds(d) \/ ForgetContentTask(d)
      BY <2>8, <2>9, <2>10, <2>11, <2>12, <2>13, <2>23
    <2>24. CASE \E o \in Objects : CleanupReleased(o) \/ CleanupSkip(o) \/ CleanupBody(o)
      BY <2>18, <2>19, <2>20, <2>24
    <2> QED BY <2>1, <2>2, <2>3, <2>4, <2>5, <2>6, <2>7, <2>14, <2>15, <2>16, <2>17, <2>21, <2>22, <2>23, <2>24
               DEF ContentNext, ContentStep
  \* An operation that makes an object disturbs nobody else's.
  <1>MakingStep.
      ASSUME ContentInv, CreateBody \/ CreateMetadata \/ CreateFails \/ InsertDraft \/ InsertFails
      PROVE  RowsAgree' /\ OpAgrees' /\ ReferencesHold'
    <2> USE <1>MakingStep
    <2> USE DEF ContentInv, ContentTypeOK, Files, RowsAgree, OpAgrees, ReferencesHold, Needs, Loads, rows, Free
    <2>1. CASE CreateBody
      BY <2>1 DEF CreateBody, Reading
    <2>2. CASE CreateMetadata
      BY <2>2 DEF CreateMetadata, Reading
    <2>3. CASE CreateFails
      BY <2>3 DEF CreateFails
    <2>4. CASE InsertDraft
      BY <2>4 DEF InsertDraft
    <2>5. CASE InsertFails
      BY <2>5 DEF InsertFails
    <2> QED BY <2>1, <2>2, <2>3, <2>4, <2>5
  \* Nor does one that begins.
  <1>BeginStep. ASSUME ContentInv, NEW d \in Drafts,
                       (\E o \in Objects : CreateBegin(d, o)) \/ \E f \in Drafts : ResendBegin(d, f)
                PROVE  RowsAgree' /\ OpAgrees' /\ ReferencesHold'
    <2> USE <1>BeginStep
    <2> USE DEF ContentInv, ContentTypeOK, Files, RowsAgree, OpAgrees, ReferencesHold, Needs, Loads, rows, Free
    <2>1. ASSUME NEW o \in Objects, CreateBegin(d, o) PROVE RowsAgree' /\ OpAgrees' /\ ReferencesHold'
      <3>1. /\ \A p \in Objects : p # o => object'[p] = object[p]
            /\ object'[o] = [object[o] EXCEPT !.dir = TRUE] /\ object[o] = NoFiles
            /\ \A e \in Drafts : draft[e].object # o
        BY <2>1 DEF CreateBegin, Untouched
      <3>2. op'.name = "create" /\ op'.pc = "body" /\ op'.draft = d /\ op'.object = o /\ draft[d].state = "none"
        BY <2>1 DEF CreateBegin
      <3>3. UNCHANGED <<draft, queued, sending>>
        BY <2>1 DEF CreateBegin
      <3> QED BY <3>1, <3>2, <3>3 DEF NoFiles
    <2>2. ASSUME NEW f \in Drafts, ResendBegin(d, f) PROVE RowsAgree' /\ OpAgrees' /\ ReferencesHold'
      <3> DEFINE o == draft[f].object
      <3>1. o \in Objects /\ object[o].dir /\ object[o].meta /\ object[o].body
        BY <2>2 DEF ResendBegin, OwnedPath
      <3>2. /\ \A p \in Objects : p # o => object'[p] = object[p]
            /\ object'[o] = [object[o] EXCEPT !.refs = @ \cup {d}]
        <4>1. object' = [object EXCEPT ![o].refs = @ \cup {d}]
          BY <2>2 DEF ResendBegin
        <4> HIDE DEF o
        <4> QED BY <3>1, <4>1
      <3>3. op'.name = "resend" /\ op'.pc = "insert" /\ op'.draft = d /\ op'.object = o /\ draft[d].state = "none"
        BY <2>2 DEF ResendBegin
      <3>4. UNCHANGED <<draft, queued, sending>>
        BY <2>2 DEF ResendBegin
      <3> HIDE DEF o
      <3> QED BY <3>1, <3>2, <3>3, <3>4
    <2> QED BY <2>1, <2>2
  \* Drafts, items and tasks need nothing they did not need before.
  <1>RowsStep. ASSUME ContentInv, NEW d \in Drafts,
                      \/ \E s \in SendingStates : ContentTaskEnds(d, s)
                      \/ DiscardContentDraft(d) \/ EnqueueContent(d)
                      \/ StartContentTask(d) \/ ResumeContentTask(d)
                      \/ ContentItemEnds(d) \/ ForgetContentTask(d)
               PROVE  RowsAgree' /\ OpAgrees' /\ ReferencesHold'
    <2> USE <1>RowsStep
    <2> USE DEF ContentInv, ContentTypeOK, RowsAgree, OpAgrees, ReferencesHold, Needs, Loads
    <2>1. ASSUME NEW s \in SendingStates, ContentTaskEnds(d, s) PROVE RowsAgree' /\ OpAgrees' /\ ReferencesHold'
      BY <2>1 DEF ContentTaskEnds
    <2>2. CASE DiscardContentDraft(d) \/ EnqueueContent(d)
      <3>1. CASE DiscardContentDraft(d)
        BY <3>1 DEF DiscardContentDraft, OpFree
      <3>2. CASE EnqueueContent(d)
        BY <3>2 DEF EnqueueContent, OpFree
      <3> QED BY <2>2, <3>1, <3>2
    <2>3. CASE StartContentTask(d) \/ ResumeContentTask(d)
      BY <2>3 DEF StartContentTask, ResumeContentTask
    <2>4. CASE ContentItemEnds(d) \/ ForgetContentTask(d)
      BY <2>4 DEF ContentItemEnds, ForgetContentTask
    <2> QED BY <2>1, <2>2, <2>3, <2>4
  \* Cleanup releases references of unprotected objects only, and removes only
  \* what nothing refers to.
  <1>CleanupStep. ASSUME ContentInv,
                         \/ SetContentSettings
                         \/ CleanupBegin \/ CleanupMetadata \/ CleanupDirectory \/ CleanupEnd
                         \/ \E o \in Objects : \/ CleanupReleased(o) \/ CleanupSkip(o) \/ CleanupBody(o)
                                               \/ \E d \in Drafts : CleanupRelease(o, d)
                  PROVE  RowsAgree' /\ OpAgrees' /\ ReferencesHold'
    <2> USE <1>CleanupStep
    <2> USE DEF ContentInv, ContentTypeOK, Files, RowsAgree, OpAgrees, ReferencesHold, Needs, Loads, rows, Free
    <2>1. CASE SetContentSettings \/ CleanupBegin \/ CleanupEnd
      <3>1. UNCHANGED <<object, draft, queued, sending>>
        BY <2>1 DEF SetContentSettings, CleanupBegin, CleanupEnd
      <3>2. op' = op \/ (op'.name \in {"cleanup", "none"} /\ op'.pc \in {"release", "none"})
        <4>1. CASE CleanupBegin
          <5> DEFINE L == {o \in Objects : object[o].dir}
          <5>1. op' = [Free EXCEPT !.name = "cleanup", !.pc = "release", !.left = L]
            BY <4>1 DEF CleanupBegin
          <5> HIDE DEF L
          <5> QED BY <5>1
        <4>2. CASE SetContentSettings \/ CleanupEnd
          BY <4>2 DEF SetContentSettings, CleanupEnd
        <4> QED BY <2>1, <4>1, <4>2
      <3> QED BY <3>1, <3>2
    <2>2. CASE CleanupMetadata
      BY <2>2 DEF CleanupMetadata, Reading
    <2>3. CASE CleanupDirectory
      BY <2>3 DEF CleanupDirectory, Reading
    <2>4. ASSUME NEW o \in Objects, NEW d \in Drafts, CleanupRelease(o, d)
          PROVE  RowsAgree' /\ OpAgrees' /\ ReferencesHold'
      <3>1. \A e \in Drafts : Needs(e) => draft[e].object # o
        BY <2>4 DEF CleanupRelease, Protected
      <3> QED BY <2>4, <3>1 DEF CleanupRelease, Reading
    <2>5. ASSUME NEW o \in Objects, CleanupReleased(o) \/ CleanupSkip(o)
          PROVE  RowsAgree' /\ OpAgrees' /\ ReferencesHold'
      <3>1. UNCHANGED <<object, draft, queued, sending>>
        BY <2>5 DEF CleanupReleased, CleanupSkip
      <3>2. op'.name = "cleanup" /\ op'.pc \in {"release", "scan"}
        BY <2>5 DEF CleanupReleased, CleanupSkip, Reading
      <3> QED BY <3>1, <3>2
    <2>6. ASSUME NEW o \in Objects, CleanupBody(o) PROVE RowsAgree' /\ OpAgrees' /\ ReferencesHold'
      <3>1. /\ \A p \in Objects : p # o => object'[p] = object[p]
            /\ object'[o] = [object[o] EXCEPT !.body = FALSE] /\ object[o].refs = {}
        BY <2>6 DEF CleanupBody, Removable
      <3>2. op'.name = "cleanup" /\ op'.pc = "body_gone" /\ op'.object = o
        BY <2>6 DEF CleanupBody, Reading
      <3>3. UNCHANGED <<draft, queued, sending>>
        BY <2>6 DEF CleanupBody
      <3>4. \A e \in Drafts : Needs(e) => draft[e].object # o /\ draft[e].object \in Objects
        BY <3>1
      <3>5. RowsAgree' /\ OpAgrees'
        BY <3>1, <3>2, <3>3
      <3>6. ReferencesHold'
        BY <3>1, <3>3, <3>4
      <3> QED BY <3>5, <3>6
    <2> QED BY <2>1, <2>2, <2>3, <2>4, <2>5, <2>6
  <1>1. ContentInit => ContentInv
    <2> SUFFICES ASSUME ContentInit PROVE ContentInv
      OBVIOUS
    <2>1. NoFiles \in Files
      BY DEF NoFiles, Files
    <2>2. ContentTypeOK
      <3>1. crashes \in 0 .. MaxCrashes /\ retain \in BOOLEAN
        <4>1. MaxCrashes \in Nat
          BY ContentStoreAssumption
        <4>2. crashes \in 0 .. MaxCrashes
          BY <4>1 DEF ContentInit
        <4>3. retain \in BOOLEAN
          BY Zenon DEF ContentInit
        <4> QED BY <4>2, <4>3
      <3> QED BY <2>1, <3>1 DEF ContentInit, ContentTypeOK, Free, SendingStates
    <2>3. RowsAgree /\ OpAgrees /\ ReferencesHold
      BY DEF ContentInit, Free, RowsAgree, OpAgrees, ReferencesHold, Needs
    <2> QED BY <2>2, <2>3 DEF ContentInv
  <1>2. ContentInv /\ [ContentNext]_csVars => ContentInv'
    <2> SUFFICES ASSUME ContentInv, [ContentNext]_csVars PROVE ContentInv'
      OBVIOUS
    <2>1. ContentTypeOK'
      BY <1>ContentTypeStep DEF ContentInv
    <2>2. CASE ContentStep
      BY <2>1, <2>2, <1>MakingStep, <1>BeginStep, <1>RowsStep, <1>CleanupStep DEF ContentStep, ContentInv
    <2>3. CASE ContentCrash
      BY <2>1, <2>3 DEF ContentCrash, ContentInv, ContentTypeOK, RowsAgree, OpAgrees, ReferencesHold, Needs, Loads, Free
    <2>4. CASE UNCHANGED csVars
      BY <2>1, <2>4 DEF csVars, ContentInv, RowsAgree, OpAgrees, ReferencesHold, Needs, Loads
    <2> QED BY <2>2, <2>3, <2>4 DEF ContentNext
  <1> QED BY <1>1, <1>2, PTL DEF ContentSpec

\* An object that a draft, an open item or a task still needs is whole, whatever
\* cleanup did and wherever the process ended (ContentStore.OwnedObjects and
\* contentSnapshotProtected decide, RemoveOwned removes).
THEOREM ContentInUseHolds == ContentSpec => []ContentInUseStays
  <1>1. ContentInv => ContentInUseStays
    BY DEF ContentInv, ReferencesHold, Needs, ContentInUseStays, Whole
  <1> QED BY <1>1, ContentInvHolds, PTL

(***************************************************************************)
(* The cache of copied files                                               *)
(***************************************************************************)
JobStates == {"none", "preparing", "completed", "failed", "cancelled"}
JobType == [state : JobStates, live : BOOLEAN, started : BOOLEAN, local : BOOLEAN, asked : BOOLEAN,
            revision : Nat, gen : Nat]
WorkType == [pc : {"none", "open", "register", "plan", "stage", "body", "verified", "intend", "publish", "native",
                   "published", "protected", "discard", "mark", "remove", "release", "ended"},
             err : {"none", "conflict", "full", "failed", "uncertain"},
             inventory : {{"unknown"}} \cup SUBSET {"stage", "files"}, native : BOOLEAN]
Kept == {"receiving", "verified", "publishing"}
Going == {"reclaimable", "deleting"}
RowType == [state : Kept \cup Going \cup {"none", "published", "protected", "abandoned"},
            cleanup : SUBSET {"stage", "files"}]

FilesTypeOK ==
    /\ rcv \in [Offers -> JobType] /\ work \in [Offers -> WorkType] /\ row \in [Offers -> RowType]
    /\ tree \in [Offers -> SUBSET {"dir", "stage", "files", "foreign"}]
    /\ clip \in [gen : Nat, shows : Nat] /\ state \in [revision : Nat, gen : Nat, committed : Nat]
    /\ permit \in BOOLEAN /\ shown \subseteq Offers

\* A receive w of an offer o, its row r and its object t.  The row is among those
\* that go only when the receive has found that nothing was shown, and only the
\* receive refers to the object until it ends.
ObjectAgrees(o, w, r, t, act, sh) ==
    /\ w.pc \in {"none", "open"} => t = {}
    /\ w.pc \in {"none", "open", "register"} => r.state = "none"
    /\ w.pc \in {"register", "plan", "stage"} => "dir" \in t
    /\ w.pc = "body" => {"dir", "stage"} \subseteq t
    /\ w.pc \in {"verified", "intend", "publish", "native"} \/ o \in sh => {"dir", "stage", "files"} \subseteq t
    /\ w.pc \in {"plan", "stage", "body", "verified", "intend", "publish", "native", "published", "protected"}
         => o \in act /\ r.state \in Kept
    /\ w.pc = "discard" => r.state = "none" \/ (o \in act /\ r.state \in Kept)
    /\ w.pc \in {"mark", "remove"} => o \in act
    /\ w.native => w.pc \in {"native", "published", "protected", "release", "ended"}
    /\ w.pc = "native" => w.native
    /\ r.state \in Going => w.pc = "ended" \/ (o \in act /\ w.pc \in {"mark", "remove", "release"})
    /\ o \in sh => r.state \notin Going /\ w.pc \in {"published", "protected", "release", "ended"}

\* A job has the place in the order that its offer reserved, and a receive that
\* shows its paths is what is current.
JobAgrees(o, j, w, st, on) ==
    /\ j.live => j.state = "preparing"
    /\ j.local /\ j.state = "cancelled" => j.asked
    /\ j.state # "none" => o <= st.committed
    /\ w.pc \notin {"none", "ended"} => j.state # "none"
    /\ w.pc = "native" => on /\ j.gen = st.gen /\ st.committed = o

AdmissionAgrees ==
    /\ admit.pc # "none" => admit.offer \in Offers /\ admit.revision \in Nat /\ admit.gen \in Nat
    /\ admit.pc = "reserved" => admit.offer = state.committed /\ rcv[admit.offer].state = "none"

\* The collector has an object that nobody refers to.
CollectionAgrees ==
    collect.pc # "none" =>
        /\ collect.offer \in Offers
        /\ row[collect.offer].state = "deleting" /\ work[collect.offer].pc = "ended"

FilesIInv ==
    /\ FilesTypeOK
    /\ \A o \in Offers : /\ ObjectAgrees(o, work[o], row[o], tree[o], active, shown)
                         /\ JobAgrees(o, rcv[o], work[o], state, permit)
    /\ AdmissionAgrees /\ CollectionAgrees

\* What the clipboard may show stays whole, what others put into an object is
\* never removed, late files do not replace a newer copy, and a refusal keeps its
\* reason: for every number of offers, whatever fails, is lost or restarts.
THEOREM CacheHolds == FilesSpec => CacheSteps
  <1>Numbers. \A o \in Offers : o \in Nat /\ o # 0
    BY ClipFilesAssumption DEF Offers
  <1>Fields. ASSUME FilesTypeOK, NEW o \in Offers
             PROVE  /\ rcv[o] \in JobType /\ work[o] \in WorkType /\ row[o] \in RowType
                    /\ tree[o] \in SUBSET {"dir", "stage", "files", "foreign"}
                    /\ state.revision \in Nat /\ state.gen \in Nat /\ state.committed \in Nat /\ clip.gen \in Nat
    BY <1>Fields DEF FilesTypeOK
  <1>1. FilesInit => FilesIInv
    <2> SUFFICES ASSUME FilesInit PROVE FilesIInv
      OBVIOUS
    <2>1. NoJob \in JobType /\ NoWork \in WorkType /\ NoRow \in RowType
      BY DEF NoJob, NoWork, NoRow, JobType, JobStates, WorkType, RowType
    <2>2. FilesTypeOK
      BY <2>1 DEF FilesInit, FilesTypeOK
    <2>3. ASSUME NEW o \in Offers
          PROVE  /\ ObjectAgrees(o, work[o], row[o], tree[o], active, shown)
                 /\ JobAgrees(o, rcv[o], work[o], state, permit)
      <3>1. /\ work[o].pc = "none" /\ work[o].native = FALSE /\ row[o].state = "none" /\ tree[o] = {} /\ shown = {}
            /\ rcv[o].live = FALSE /\ rcv[o].state = "none" /\ rcv[o].local = FALSE
        BY DEF FilesInit, NoJob, NoWork, NoRow
      <3> QED BY <3>1 DEF ObjectAgrees, JobAgrees, Going
    <2>4. admit.pc = "none" /\ collect.pc = "none"
      BY DEF FilesInit, NoAdmission, NoCollection
    <2> QED BY <2>2, <2>3, <2>4 DEF FilesIInv, AdmissionAgrees, CollectionAgrees
  \* Every step keeps the invariant.
  <1>2. ASSUME FilesIInv, [FilesNext]_cfVars PROVE FilesIInv'
    <2> USE <1>2
    <2>1. /\ FilesTypeOK /\ AdmissionAgrees /\ CollectionAgrees
          /\ \A o \in Offers : /\ ObjectAgrees(o, work[o], row[o], tree[o], active, shown)
                               /\ JobAgrees(o, rcv[o], work[o], state, permit)
      BY DEF FilesIInv
    <2>2. /\ \A o \in Offers : /\ rcv[o] \in JobType /\ work[o] \in WorkType /\ row[o] \in RowType
                               /\ tree[o] \in SUBSET {"dir", "stage", "files", "foreign"}
          /\ rcv \in [Offers -> JobType] /\ work \in [Offers -> WorkType] /\ row \in [Offers -> RowType]
          /\ tree \in [Offers -> SUBSET {"dir", "stage", "files", "foreign"}]
          /\ clip \in [gen : Nat, shows : Nat] /\ state \in [revision : Nat, gen : Nat, committed : Nat]
          /\ permit \in BOOLEAN /\ shown \subseteq Offers
          /\ state.revision \in Nat /\ state.gen \in Nat /\ state.committed \in Nat /\ clip.gen \in Nat
      BY <2>1, <1>Fields DEF FilesTypeOK
    <2>3. ASSUME NEW o \in Offers, NEW w \in WorkType, work' = [work EXCEPT ![o] = w]
          PROVE  work' \in [Offers -> WorkType] /\ work'[o] = w /\ \A p \in Offers : p # o => work'[p] = work[p]
      BY <2>2, <2>3
    <2>4. ASSUME NEW o \in Offers, NEW pc, Goto(o, pc), [work[o] EXCEPT !.pc = pc] \in WorkType
          PROVE  /\ work' \in [Offers -> WorkType] /\ \A p \in Offers : p # o => work'[p] = work[p]
                 /\ work'[o].pc = pc /\ work'[o].native = work[o].native
      <3>1. PICK w : w = [work[o] EXCEPT !.pc = pc]
        OBVIOUS
      <3>2. w.pc = pc /\ w.native = work[o].native /\ w \in WorkType
        BY <2>2, <2>4, <3>1 DEF WorkType
      <3>3. work' = [work EXCEPT ![o] = w]
        BY <2>4, <3>1 DEF Goto
      <3> QED BY <2>3, <2>4, <3>2, <3>3
    <2>5. ASSUME NEW o \in Offers, NEW err \in {"conflict", "full", "failed", "uncertain"}, Give(o, err)
          PROVE  /\ work' \in [Offers -> WorkType] /\ \A p \in Offers : p # o => work'[p] = work[p]
                 /\ work'[o].pc = (IF work[o].native THEN "protected" ELSE "discard")
                 /\ work'[o].native = work[o].native
      <3>1. PICK pc : pc = IF work[o].native THEN "protected" ELSE "discard"
        OBVIOUS
      <3>2. PICK w : w = [work[o] EXCEPT !.pc = pc, !.err = err]
        OBVIOUS
      <3>3. w.pc = pc /\ w.native = work[o].native /\ w \in WorkType
        <4>1. work[o] \in WorkType
          BY <2>2
        <4>2. pc = "protected" \/ pc = "discard"
          BY <3>1
        <4> QED BY <2>5, <3>2, <4>1, <4>2 DEF WorkType
      <3>4. work' = [work EXCEPT ![o] = w]
        BY <2>5, <3>1, <3>2 DEF Give
      <3> QED BY <2>3, <2>5, <3>1, <3>3, <3>4
    \* An object that a step leaves alone.
    <2>6. ASSUME NEW o \in Offers, work'[o] = work[o], row'[o] = row[o], tree'[o] = tree[o],
                 o \in active' <=> o \in active, o \in shown' <=> o \in shown
          PROVE  ObjectAgrees(o, work'[o], row'[o], tree'[o], active', shown')
      <3>1. ObjectAgrees(o, work[o], row[o], tree[o], active, shown)
        BY <2>1
      <3> QED BY <2>6, <3>1 DEF ObjectAgrees
    \* A job that only ends.
    <2>7. ASSUME NEW S, rcv' = CancelJobs(S)
          PROVE  /\ rcv' \in [Offers -> JobType]
                 /\ \A o \in Offers :
                      /\ JobAgrees(o, rcv'[o], work[o], state, permit)
                      /\ rcv'[o].state = "none" <=> rcv[o].state = "none"
      <3>1. ASSUME NEW o \in Offers
            PROVE  /\ rcv'[o] \in JobType /\ JobAgrees(o, rcv'[o], work[o], state, permit)
                   /\ rcv'[o].state = "none" <=> rcv[o].state = "none"
        <4>1. rcv[o] \in JobType /\ JobAgrees(o, rcv[o], work[o], state, permit)
          BY <2>1, <2>2
        <4>2. PICK j : j = [rcv[o] EXCEPT !.state = "cancelled", !.live = FALSE, !.asked = TRUE]
          OBVIOUS
        <4>3. /\ j \in JobType /\ j.state = "cancelled" /\ j.live = FALSE /\ j.asked = TRUE /\ j.local = rcv[o].local
              /\ j.gen = rcv[o].gen
          BY <4>1, <4>2 DEF JobType, JobStates
        <4>4. rcv'[o] = rcv[o] \/ (rcv[o].state # "none" /\ rcv'[o] = j)
          BY <2>7, <4>2 DEF CancelJobs
        <4> QED BY <4>1, <4>3, <4>4 DEF JobAgrees
      <3>2. rcv' = [o \in Offers |-> rcv'[o]]
        BY <2>7 DEF CancelJobs
      <3>3. rcv' \in [Offers -> JobType]
        BY <3>1, <3>2
      <3> QED BY <3>1, <3>3
    \* A step of jobs alone.
    <2>8. ASSUME UNCHANGED <<work, row, tree, active, shown>>, collect' = collect \/ collect'.pc = "none",
                 rcv' \in [Offers -> JobType], clip' \in [gen : Nat, shows : Nat],
                 state' \in [revision : Nat, gen : Nat, committed : Nat], permit' \in BOOLEAN,
                 \A o \in Offers : JobAgrees(o, rcv'[o], work[o], state', permit'), AdmissionAgrees'
          PROVE  FilesIInv'
      <3>1. FilesTypeOK'
        BY <2>2, <2>8 DEF FilesTypeOK
      <3>2. CollectionAgrees'
        BY <2>1, <2>8 DEF CollectionAgrees
      <3> QED BY <2>6, <2>8, <3>1, <3>2 DEF FilesIInv
    \* A step of one receive that has not ended.
    <2>9. ASSUME NEW o \in Offers, UNCHANGED <<admit, clip, state, permit, collect>>,
                 work' \in [Offers -> WorkType], row' \in [Offers -> RowType],
                 tree' \in [Offers -> SUBSET {"dir", "stage", "files", "foreign"}], rcv' \in [Offers -> JobType],
                 shown' \subseteq Offers,
                 \A p \in Offers : p # o => /\ work'[p] = work[p] /\ row'[p] = row[p] /\ tree'[p] = tree[p]
                                            /\ rcv'[p] = rcv[p]
                                            /\ p \in active' <=> p \in active
                                            /\ p \in shown' <=> p \in shown,
                 rcv[o].state = "none" => rcv'[o].state = "none", work[o].pc # "ended",
                 ObjectAgrees(o, work'[o], row'[o], tree'[o], active', shown'),
                 JobAgrees(o, rcv'[o], work'[o], state, permit)
          PROVE  FilesIInv'
      <3>1. FilesTypeOK'
        BY <2>2, <2>9 DEF FilesTypeOK
      <3>2. CollectionAgrees'
        BY <2>1, <2>9 DEF CollectionAgrees
      <3>3. AdmissionAgrees'
        BY <2>1, <2>9 DEF AdmissionAgrees
      <3>4. ASSUME NEW p \in Offers
            PROVE  /\ ObjectAgrees(p, work'[p], row'[p], tree'[p], active', shown')
                   /\ JobAgrees(p, rcv'[p], work'[p], state', permit')
        <4>1. CASE p = o
          BY <2>9, <4>1
        <4>2. CASE p # o
          <5>1. work'[p] = work[p] /\ rcv'[p] = rcv[p] /\ state' = state /\ permit' = permit
            BY <2>9, <4>2
          <5>2. JobAgrees(p, rcv'[p], work'[p], state', permit')
            BY <2>1, <5>1
          <5>3. ObjectAgrees(p, work'[p], row'[p], tree'[p], active', shown')
            BY <2>6, <2>9, <4>2
          <5> QED BY <5>2, <5>3
        <4> QED BY <4>1, <4>2
      <3> QED BY <3>1, <3>2, <3>3, <3>4 DEF FilesIInv
    \* Such a step that no job takes part in.
    <2>10. ASSUME NEW o \in Offers, UNCHANGED <<rcv, admit, clip, state, permit, collect, shown>>,
                  work' \in [Offers -> WorkType], row' \in [Offers -> RowType],
                  tree' \in [Offers -> SUBSET {"dir", "stage", "files", "foreign"}],
                  \A p \in Offers : p # o => /\ work'[p] = work[p] /\ row'[p] = row[p] /\ tree'[p] = tree[p]
                                             /\ p \in active' <=> p \in active,
                  work[o].pc \notin {"none", "ended"}, work'[o].pc # "native",
                  ObjectAgrees(o, work'[o], row'[o], tree'[o], active', shown)
           PROVE  FilesIInv'
      <3>1. JobAgrees(o, rcv[o], work'[o], state, permit)
        BY <2>1, <2>10 DEF JobAgrees
      <3> QED BY <2>2, <2>9, <2>10, <3>1
    \* The sender and the jobs.
    <2>11. ASSUME UNCHANGED <<jobs, work, cache>> PROVE FilesIInv'
      <3>1. UNCHANGED <<rcv, admit, clip, state, permit, work, row, tree, active, collect, shown>>
        BY <2>11 DEF jobs, cache
      <3>2. AdmissionAgrees'
        BY <2>1, <3>1 DEF AdmissionAgrees
      <3> QED BY <2>1, <2>2, <2>8, <3>1, <3>2
    <2>12. CASE UserCopiesHere
      <3>1. /\ UNCHANGED <<rcv, admit, state, permit, work, row, tree, active, collect, shown>>
            /\ clip' = [gen |-> clip.gen + 1, shows |-> 0]
        BY <2>12 DEF UserCopiesHere, cache
      <3>2. AdmissionAgrees'
        BY <2>1, <3>1 DEF AdmissionAgrees
      <3>3. clip' \in [gen : Nat, shows : Nat]
        BY <2>2, <3>1
      <3> QED BY <2>1, <2>2, <2>8, <3>1, <3>2, <3>3
    <2>13. CASE ObserveCopy \/ WithdrawFiles
      <3>1. /\ UNCHANGED <<rcv, admit, clip, work, row, tree, active, collect, shown>> /\ StateFree
            /\ \/ state' = [state EXCEPT !.revision = @ + 1, !.gen = clip.gen] /\ permit' = permit
               \/ state' = [state EXCEPT !.revision = @ + 1] /\ permit' = FALSE
        BY <2>13 DEF ObserveCopy, WithdrawFiles, cache
      <3>2. /\ state' \in [revision : Nat, gen : Nat, committed : Nat] /\ permit' \in BOOLEAN
            /\ state'.committed = state.committed
        <4>1. state \in [revision : Nat, gen : Nat, committed : Nat] /\ clip.gen \in Nat /\ permit \in BOOLEAN
          BY <2>2
        <4>2. CASE /\ state' = [state EXCEPT !.revision = @ + 1, !.gen = clip.gen] /\ permit' = permit
          <5>0. PICK g \in Nat : g = clip.gen
            BY <4>1
          <5>1. PICK s : s = [state EXCEPT !.revision = @ + 1, !.gen = g]
            OBVIOUS
          <5>2. s \in [revision : Nat, gen : Nat, committed : Nat] /\ s.committed = state.committed
            <6>1. /\ s.revision = state.revision + 1 /\ s.gen = g /\ s.committed = state.committed
                  /\ s = [revision |-> s.revision, gen |-> s.gen, committed |-> s.committed]
              BY <4>1, <5>1
            <6> QED BY <2>2, <6>1
          <5> QED BY <4>1, <4>2, <5>0, <5>1, <5>2
        <4>3. CASE state' = [state EXCEPT !.revision = @ + 1] /\ permit' = FALSE
          <5>1. PICK s : s = [state EXCEPT !.revision = @ + 1]
            OBVIOUS
          <5>2. s \in [revision : Nat, gen : Nat, committed : Nat] /\ s.committed = state.committed
            BY <4>1, <5>1
          <5> QED BY <4>3, <5>1, <5>2
        <4> QED BY <3>1, <4>2, <4>3
      <3>3. \A o \in Offers : JobAgrees(o, rcv[o], work[o], state', permit')
        BY <2>1, <3>1, <3>2 DEF JobAgrees, StateFree
      <3>4. AdmissionAgrees'
        BY <2>1, <3>1, <3>2 DEF AdmissionAgrees
      <3> QED BY <2>2, <2>8, <3>1, <3>2, <3>3, <3>4
    <2>14. CASE SweepJobs \/ SendReady \/ \E o \in Offers : UserCancels(o)
      <3>1. /\ UNCHANGED <<clip, state, permit, work, row, tree, active, collect, shown>> /\ \E S : rcv' = CancelJobs(S)
            /\ admit' = admit \/ admit' = NoAdmission
        BY <2>14 DEF SweepJobs, SendReady, LateSweep, UserCancels, cache
      <3>2. /\ rcv' \in [Offers -> JobType]
            /\ \A o \in Offers : /\ JobAgrees(o, rcv'[o], work[o], state, permit)
                                 /\ rcv'[o].state = "none" <=> rcv[o].state = "none"
        BY <2>7, <3>1
      <3>3. AdmissionAgrees'
        BY <2>1, <3>1, <3>2 DEF AdmissionAgrees, NoAdmission
      <3> QED BY <2>2, <2>8, <3>1, <3>2, <3>3
    <2>15. CASE \E o \in Offers : BeginOffer(o)
      <3>1. PICK o \in Offers : BeginOffer(o)
        BY <2>15
      <3>2. /\ UNCHANGED <<rcv, clip, state, permit, work, row, tree, active, collect, shown>>
            /\ \/ admit' = [pc |-> "begun", offer |-> o, revision |-> state.revision, gen |-> state.gen]
               \/ admit' = NoAdmission
        BY <3>1 DEF BeginOffer, cache
      <3>3. AdmissionAgrees'
        BY <2>2, <3>2 DEF AdmissionAgrees, NoAdmission
      <3> QED BY <2>1, <2>2, <2>8, <3>2, <3>3
    <2>16. CASE ReserveFiles
      <3>1. UNCHANGED <<rcv, clip, permit, work, row, tree, active, collect, shown>> /\ StateFree /\ admit.pc = "begun"
        BY <2>16 DEF ReserveFiles, cache
      <3>2. CASE admit' = NoAdmission /\ UNCHANGED state
        <4>1. AdmissionAgrees'
          BY <3>2 DEF AdmissionAgrees, NoAdmission
        <4> QED BY <2>1, <2>2, <2>8, <3>1, <3>2, <4>1
      <3>3. CASE /\ admit.offer > state.committed
                 /\ state' = [state EXCEPT !.revision = @ + 1, !.committed = admit.offer]
                 /\ admit' = [admit EXCEPT !.pc = "reserved", !.revision = state.revision + 1]
        <4>1. admit.offer \in Offers /\ admit.offer \in Nat /\ admit.gen \in Nat
          BY <2>1, <3>1, <1>Numbers DEF AdmissionAgrees
        <4>2. state' \in [revision : Nat, gen : Nat, committed : Nat] /\ state'.committed = admit.offer
          <5>1. state \in [revision : Nat, gen : Nat, committed : Nat]
            BY <2>2
          <5>2. PICK s : s = [state EXCEPT !.revision = @ + 1, !.committed = admit.offer]
            OBVIOUS
          <5>3. s \in [revision : Nat, gen : Nat, committed : Nat] /\ s.committed = admit.offer
            <6>1. /\ s.revision = state.revision + 1 /\ s.gen = state.gen /\ s.committed = admit.offer
                  /\ s = [revision |-> s.revision, gen |-> s.gen, committed |-> s.committed]
              BY <5>1, <5>2
            <6> QED BY <2>2, <4>1, <6>1
          <5> QED BY <3>3, <5>2, <5>3
        <4>3. \A o \in Offers : JobAgrees(o, rcv[o], work[o], state', permit)
          BY <2>1, <2>2, <3>1, <3>3, <4>1, <4>2, <1>Numbers DEF JobAgrees, StateFree
        <4>4. rcv[admit.offer].state = "none"
          BY <2>1, <2>2, <3>3, <4>1, <1>Numbers DEF JobAgrees
        <4>5. admit'.offer = admit.offer /\ admit'.gen = admit.gen /\ admit'.revision \in Nat
          BY <2>2, <3>3, <4>1 DEF ReserveFiles
        <4>6. AdmissionAgrees'
          BY <3>1, <4>1, <4>2, <4>4, <4>5 DEF AdmissionAgrees
        <4> QED BY <2>2, <2>8, <3>1, <4>2, <4>3, <4>6
      <3> QED BY <2>16, <3>2, <3>3 DEF ReserveFiles
    <2>17. CASE AddClipboardFileJob
      <3>1. /\ UNCHANGED <<clip, state, permit, work, row, tree, active, collect, shown>> /\ admit.pc = "reserved"
            /\ admit' = [admit EXCEPT !.pc = "added"]
        BY <2>17 DEF AddClipboardFileJob, cache
      <3>2. PICK o : o = admit.offer
        OBVIOUS
      <3>3. /\ o \in Offers /\ o = state.committed /\ rcv[o].state = "none" /\ admit.revision \in Nat /\ admit.gen \in Nat
        BY <2>1, <3>1, <3>2 DEF AdmissionAgrees
      <3>4. PICK j : j = [NoJob EXCEPT !.state = "preparing", !.live = TRUE, !.revision = admit.revision, !.gen = admit.gen]
        OBVIOUS
      <3>5. j \in JobType /\ j.state = "preparing"
        BY <3>3, <3>4 DEF JobType, JobStates, NoJob
      <3>6. rcv' = [rcv EXCEPT ![o] = j]
        BY <2>17, <3>2, <3>4 DEF AddClipboardFileJob
      <3>7. rcv' \in [Offers -> JobType] /\ rcv'[o] = j /\ \A p \in Offers : p # o => rcv'[p] = rcv[p]
        BY <2>2, <3>3, <3>5, <3>6
      <3>8. work[o].pc \in {"none", "ended"}
        BY <2>1, <3>3 DEF JobAgrees
      <3>9. JobAgrees(o, j, work[o], state, permit)
        BY <3>3, <3>5, <3>8, <1>Numbers DEF JobAgrees
      <3>10. \A p \in Offers : JobAgrees(p, rcv'[p], work[p], state, permit)
        BY <2>1, <3>7, <3>9
      <3>11. /\ admit'.pc # "reserved" /\ admit'.offer = admit.offer
             /\ admit'.revision = admit.revision /\ admit'.gen = admit.gen
        <4>1. admit.pc # "added"
          BY <3>1
        <4> QED BY <3>1
      <3>12. AdmissionAgrees'
        BY <3>2, <3>3, <3>11 DEF AdmissionAgrees
      <3> QED BY <2>2, <2>8, <3>1, <3>7, <3>10, <3>12
    <2>18. CASE \E o \in Offers : CancelArrives(o)
      <3>1. PICK o \in Offers : CancelArrives(o)
        BY <2>18
      <3>2. UNCHANGED <<admit, clip, state, permit, work, row, tree, active, collect, shown>>
        BY <3>1 DEF CancelArrives, cache
      <3>3. CASE rcv' = rcv
        <4>1. AdmissionAgrees'
          BY <2>1, <3>2, <3>3 DEF AdmissionAgrees
        <4> QED BY <2>1, <2>2, <2>8, <3>2, <3>3, <4>1
      <3>4. CASE /\ rcv[o].state # "none" /\ MayCancel(o)
                 /\ rcv' = [rcv EXCEPT ![o].state = "cancelled", ![o].live = FALSE]
        <4>1. PICK j : j = [rcv[o] EXCEPT !.state = "cancelled", !.live = FALSE]
          OBVIOUS
        <4>2. /\ j \in JobType /\ j.state = "cancelled" /\ j.live = FALSE /\ j.local = FALSE /\ j.gen = rcv[o].gen
          <5>1. rcv[o] \in JobType
            BY <2>2, <3>1
          <5>2. rcv[o].local = FALSE
            BY <3>4, <5>1 DEF MayCancel, JobType
          <5> QED BY <4>1, <5>1, <5>2 DEF JobType, JobStates
        <4>3. rcv' \in [Offers -> JobType] /\ rcv'[o] = j /\ \A p \in Offers : p # o => rcv'[p] = rcv[p]
          BY <2>2, <3>4, <4>1, <4>2
        <4>4. JobAgrees(o, j, work[o], state, permit)
          BY <2>1, <3>4, <4>2 DEF JobAgrees
        <4>5. \A p \in Offers : JobAgrees(p, rcv'[p], work[p], state, permit)
          BY <2>1, <4>3, <4>4
        <4>6. AdmissionAgrees'
          BY <2>1, <3>2, <3>4, <4>2, <4>3 DEF AdmissionAgrees
        <4> QED BY <2>2, <2>8, <3>2, <4>3, <4>5, <4>6
      <3> QED BY <3>1, <3>3, <3>4 DEF CancelArrives
    <2>19. CASE SenderSteps \/ \E o \in Offers : CopyFiles(o) \/ FileSendFails(o) \/ LoseCancel(o)
      <3>1. UNCHANGED <<jobs, work, cache>>
        BY <2>19 DEF SenderSteps, ClipboardFilesChanged, ReadyArrives, OfferFiles, OpenFileStream, FileSendEnds,
              CopyFiles, FileSendFails, LoseCancel
      <3> QED BY <2>11, <3>1
    \* The receive of a body.
    <2>20. ASSUME NEW o \in Offers, FileStreamArrives(o) PROVE FilesIInv'
      <3>1. UNCHANGED <<admit, clip, state, permit, row, tree, active, collect, shown>> /\ work[o].pc = "none"
        BY <2>20 DEF FileStreamArrives, At, cache
      <3>2. CASE UNCHANGED <<work, rcv>>
        <4>1. ObjectAgrees(o, work[o], row[o], tree[o], active, shown) /\ JobAgrees(o, rcv[o], work[o], state, permit)
          BY <2>1
        <4> QED BY <2>2, <2>9, <2>20, <3>1, <3>2, <4>1
      <3>3. CASE Goto(o, "open") /\ rcv' = [rcv EXCEPT ![o].started = TRUE] /\ rcv[o].state # "none"
        <4>1. /\ work' \in [Offers -> WorkType] /\ \A p \in Offers : p # o => work'[p] = work[p]
              /\ work'[o].pc = "open" /\ work'[o].native = work[o].native
          <5>1. [work[o] EXCEPT !.pc = "open"] \in WorkType
            BY <2>2 DEF WorkType
          <5> QED BY <2>4, <2>20, <3>3, <5>1
        <4>2. /\ rcv' \in [Offers -> JobType] /\ \A p \in Offers : p # o => rcv'[p] = rcv[p]
              /\ rcv'[o].live = rcv[o].live /\ rcv'[o].state = rcv[o].state /\ rcv'[o].local = rcv[o].local
              /\ rcv'[o].asked = rcv[o].asked /\ rcv'[o].gen = rcv[o].gen
          BY <2>2, <3>3 DEF JobType
        <4>3. ObjectAgrees(o, work'[o], row[o], tree[o], active, shown)
          BY <2>1, <3>1, <4>1 DEF ObjectAgrees, Going
        <4>4. JobAgrees(o, rcv'[o], work'[o], state, permit)
          BY <2>1, <3>3, <4>1, <4>2 DEF JobAgrees
        <4> QED BY <2>2, <2>9, <2>20, <3>1, <4>1, <4>2, <4>3, <4>4
      <3> QED BY <2>20, <3>2, <3>3 DEF FileStreamArrives
    <2>21. ASSUME NEW o \in Offers, NEW x \in SUBSET {"dir", "stage", "files", "foreign"}, tree' = [tree EXCEPT ![o] = x]
           PROVE  /\ tree' \in [Offers -> SUBSET {"dir", "stage", "files", "foreign"}] /\ tree'[o] = x
                  /\ \A p \in Offers : p # o => tree'[p] = tree[p]
      BY <2>2, <2>21
    <2>22. ASSUME NEW o \in Offers, NEW r \in RowType, row' = [row EXCEPT ![o] = r]
           PROVE  /\ row' \in [Offers -> RowType] /\ row'[o] = r /\ \A p \in Offers : p # o => row'[p] = row[p]
      BY <2>2, <2>22
    <2>23. ASSUME NEW o \in Offers, OpenDestination(o) \/ StageCache(o) PROVE FilesIInv'
      <3>1. UNCHANGED <<rcv, admit, clip, state, permit, row, active, collect, shown>>
        BY <2>23 DEF OpenDestination, StageCache, jobs
      <3>2. PICK x, pc : /\ tree' = [tree EXCEPT ![o] = x] /\ Goto(o, pc)
                         /\ \/ work[o].pc = "open" /\ pc = "register" /\ x = {"dir"}
                            \/ work[o].pc = "stage" /\ pc = "body" /\ x = tree[o] \cup {"stage"}
        BY <2>23 DEF OpenDestination, StageCache, At
      <3>3. /\ work' \in [Offers -> WorkType] /\ \A p \in Offers : p # o => work'[p] = work[p]
            /\ work'[o].pc = pc /\ work'[o].native = work[o].native
        <4>1. [work[o] EXCEPT !.pc = pc] \in WorkType
          <5>1. pc = "register" \/ pc = "body"
            BY <3>2
          <5>2. work[o] \in WorkType
            BY <2>2, <2>23
          <5> QED BY <5>1, <5>2 DEF WorkType
        <4> QED BY <2>4, <2>23, <3>2, <4>1
      <3>4. x \in SUBSET {"dir", "stage", "files", "foreign"}
        BY <2>2, <3>2
      <3>5. /\ tree' \in [Offers -> SUBSET {"dir", "stage", "files", "foreign"}] /\ tree'[o] = x
            /\ \A p \in Offers : p # o => tree'[p] = tree[p]
        BY <2>21, <3>2, <3>4
      <3>6. ObjectAgrees(o, work'[o], row[o], tree'[o], active, shown)
        BY <2>1, <3>2, <3>3, <3>5 DEF ObjectAgrees, Going
      <3> QED BY <2>2, <2>10, <2>23, <3>1, <3>2, <3>3, <3>5, <3>6
    <2>24. ASSUME NEW o \in Offers, RegisterCache(o) PROVE FilesIInv'
      <3>1. UNCHANGED <<rcv, admit, clip, state, permit, tree, collect, shown>> /\ work[o].pc = "register" /\ Goto(o, "plan")
            /\ active' = active \cup {o}
        BY <2>24 DEF RegisterCache, At, jobs
      <3>2. /\ work' \in [Offers -> WorkType] /\ \A p \in Offers : p # o => work'[p] = work[p]
            /\ work'[o].pc = "plan" /\ work'[o].native = work[o].native
        <4>1. [work[o] EXCEPT !.pc = "plan"] \in WorkType
          <5>1. work[o] \in WorkType
            BY <2>2
          <5> QED BY <5>1 DEF WorkType
        <4> QED BY <2>4, <2>24, <3>1, <4>1
      <3>3. PICK r : r = [state |-> "receiving", cleanup |-> {}]
        OBVIOUS
      <3>4. r \in RowType /\ r.state = "receiving"
        BY <3>3 DEF RowType, Kept
      <3>5. row' \in [Offers -> RowType] /\ row'[o] = r /\ \A p \in Offers : p # o => row'[p] = row[p]
        BY <2>22, <2>24, <3>3, <3>4 DEF RegisterCache
      <3>6. ObjectAgrees(o, work'[o], row'[o], tree[o], active', shown)
        BY <2>1, <3>1, <3>2, <3>4, <3>5 DEF ObjectAgrees, Going, Kept
      <3> QED BY <2>2, <2>10, <2>24, <3>1, <3>2, <3>5, <3>6
    <2>25. ASSUME NEW o \in Offers, PlanCache(o) PROVE FilesIInv'
      <3>1. UNCHANGED <<admit, clip, state, permit, row, tree, active, collect, shown>> /\ work[o].pc = "plan"
        BY <2>25 DEF PlanCache, At
      <3>2. work[o].native = FALSE
        BY <2>1, <2>2, <3>1 DEF ObjectAgrees, WorkType
      <3>3. PICK pc : /\ work' \in [Offers -> WorkType] /\ \A p \in Offers : p # o => work'[p] = work[p]
                      /\ work'[o].pc = pc /\ pc \in {"stage", "discard"} /\ work'[o].native = work[o].native
        <4>1. [work[o] EXCEPT !.pc = "stage"] \in WorkType
          <5>1. work[o] \in WorkType
            BY <2>2
          <5> QED BY <5>1 DEF WorkType
        <4>2. Goto(o, "stage") \/ Give(o, "conflict") \/ Give(o, "full")
          BY <2>25 DEF PlanCache
        <4>3. CASE Goto(o, "stage")
          BY <2>4, <2>25, <4>1, <4>3
        <4>4. CASE Give(o, "conflict") \/ Give(o, "full")
          BY <2>5, <2>25, <3>2, <4>4
        <4> QED BY <4>2, <4>3, <4>4
      <3>4. rcv' = rcv \/ (rcv[o].live /\ rcv' = [rcv EXCEPT ![o].local = TRUE])
        BY <2>25 DEF PlanCache, FileReceiveCurrent
      <3>5. /\ rcv' \in [Offers -> JobType] /\ \A p \in Offers : p # o => rcv'[p] = rcv[p]
            /\ rcv'[o].live = rcv[o].live /\ rcv'[o].state = rcv[o].state
            /\ rcv'[o].local = rcv[o].local \/ rcv[o].live
            /\ rcv'[o].asked = rcv[o].asked /\ rcv'[o].gen = rcv[o].gen
        <4>1. rcv \in [Offers -> JobType] /\ rcv[o] \in JobType
          BY <2>2, <2>25
        <4>2. CASE rcv' = rcv
          BY <4>1, <4>2
        <4>3. CASE rcv[o].live /\ rcv' = [rcv EXCEPT ![o].local = TRUE]
          BY <2>25, <4>1, <4>3 DEF JobType
        <4> QED BY <3>4, <4>2, <4>3
      <3>6. ObjectAgrees(o, work'[o], row[o], tree[o], active, shown)
        BY <2>1, <3>1, <3>2, <3>3 DEF ObjectAgrees, Going, Kept
      <3>7. JobAgrees(o, rcv'[o], work'[o], state, permit)
        BY <2>1, <3>1, <3>3, <3>5 DEF JobAgrees
      <3> QED BY <2>2, <2>9, <2>25, <3>1, <3>3, <3>5, <3>6, <3>7
    <2>26. ASSUME NEW o \in Offers, ReceiveBody(o) \/ BodyFails(o) PROVE FilesIInv'
      <3>1. UNCHANGED <<rcv, admit, clip, state, permit, row, active, collect, shown>> /\ work[o].pc = "body"
        BY <2>26 DEF ReceiveBody, BodyFails, At, jobs
      <3>2. PICK x : /\ tree' = [tree EXCEPT ![o] = x] /\ (x = tree[o] \/ x = tree[o] \cup {"files"})
                     /\ ReceiveBody(o) => x = tree[o] \cup {"files"}
        <4>1. CASE ReceiveBody(o)
          BY <4>1 DEF ReceiveBody
        <4>2. CASE BodyFails(o) /\ ~ReceiveBody(o)
          <5>1. PICK parts \in {{}, {"files"}} : tree' = [tree EXCEPT ![o] = @ \cup parts]
            BY <4>2 DEF BodyFails
          <5> QED BY <4>2, <5>1
        <4> QED BY <2>26, <4>1, <4>2
      <3>3. x \in SUBSET {"dir", "stage", "files", "foreign"}
        BY <2>2, <2>26, <3>2
      <3>4. /\ tree' \in [Offers -> SUBSET {"dir", "stage", "files", "foreign"}] /\ tree'[o] = x
            /\ \A p \in Offers : p # o => tree'[p] = tree[p]
        BY <2>21, <2>26, <3>2, <3>3
      <3>5. Captured(o) \in {{"unknown"}} \cup SUBSET {"stage", "files"}
        BY <3>3, <3>4 DEF Captured
      <3>6. PICK c : c = Captured(o)
        OBVIOUS
      <3>7. PICK w : /\ work' = [work EXCEPT ![o] = w] /\ w \in WorkType /\ w.native = work[o].native
                     /\ w.pc = "discard" \/ (w.pc = "verified" /\ ReceiveBody(o))
        <4>1. CASE ReceiveBody(o)
          <5>0. PICK pc : pc = IF c = {"unknown"} THEN "discard" ELSE "verified"
            OBVIOUS
          <5>00. PICK err : err = IF c = {"unknown"} THEN "failed" ELSE "none"
            OBVIOUS
          <5>1. PICK w : w = [work[o] EXCEPT !.inventory = c, !.pc = pc, !.err = err]
            OBVIOUS
          <5>2. work' = [work EXCEPT ![o] = w]
            BY <3>6, <4>1, <5>0, <5>00, <5>1 DEF ReceiveBody
          <5>3. w \in WorkType /\ w.native = work[o].native /\ w.pc \in {"discard", "verified"}
            <6>1. work[o] \in WorkType /\ (pc = "discard" \/ pc = "verified") /\ (err = "failed" \/ err = "none")
              BY <2>2, <2>26, <5>0, <5>00
            <6> QED BY <3>5, <3>6, <5>1, <6>1 DEF WorkType
          <5> QED BY <4>1, <5>2, <5>3
        <4>2. CASE BodyFails(o)
          <5>0. PICK err : err = IF rcv[o].live THEN "failed" ELSE "conflict"
            OBVIOUS
          <5>1. PICK w : w = [work[o] EXCEPT !.inventory = c, !.pc = "discard", !.err = err]
            OBVIOUS
          <5>2. work' = [work EXCEPT ![o] = w]
            BY <3>6, <4>2, <5>0, <5>1 DEF BodyFails
          <5>3. w \in WorkType /\ w.native = work[o].native /\ w.pc = "discard"
            <6>1. work[o] \in WorkType /\ (err = "failed" \/ err = "conflict")
              BY <2>2, <2>26, <5>0
            <6> QED BY <3>5, <3>6, <5>1, <6>1 DEF WorkType
          <5> QED BY <5>2, <5>3
        <4> QED BY <2>26, <4>1, <4>2
      <3>8. work' \in [Offers -> WorkType] /\ work'[o] = w /\ \A p \in Offers : p # o => work'[p] = work[p]
        BY <2>3, <2>26, <3>7
      <3>9. ObjectAgrees(o, work'[o], row[o], tree'[o], active, shown)
        BY <2>1, <3>1, <3>2, <3>4, <3>7, <3>8 DEF ObjectAgrees, Going, Kept
      <3> QED BY <2>2, <2>10, <2>26, <3>1, <3>4, <3>7, <3>8, <3>9
    <2>27. ASSUME NEW o \in Offers, ProgressStops(o) PROVE FilesIInv'
      <3>1. /\ UNCHANGED <<admit, clip, state, permit, work, row, tree, active, collect, shown>>
            /\ rcv' = [rcv EXCEPT ![o].live = FALSE]
        BY <2>27 DEF ProgressStops, cache
      <3>2. /\ rcv' \in [Offers -> JobType] /\ \A p \in Offers : p # o => rcv'[p] = rcv[p]
            /\ rcv'[o].live = FALSE /\ rcv'[o].state = rcv[o].state /\ rcv'[o].local = rcv[o].local
            /\ rcv'[o].asked = rcv[o].asked /\ rcv'[o].gen = rcv[o].gen
        BY <2>2, <2>27, <3>1 DEF JobType
      <3>3. JobAgrees(o, rcv'[o], work[o], state, permit)
        BY <2>1, <2>27, <3>2 DEF JobAgrees
      <3>4. \A p \in Offers : JobAgrees(p, rcv'[p], work[p], state, permit)
        BY <2>1, <3>2, <3>3
      <3>5. AdmissionAgrees'
        BY <2>1, <3>1, <3>2 DEF AdmissionAgrees
      <3> QED BY <2>2, <2>8, <3>1, <3>2, <3>4, <3>5
    <2>28. ASSUME NEW o \in Offers,
                  AdvanceCache(o, "verified", "verified", "intend") \/ AdvanceCache(o, "intend", "publishing", "publish")
           PROVE  FilesIInv'
      <3>1. UNCHANGED <<rcv, admit, clip, state, permit, tree, active, collect, shown>>
        BY <2>28 DEF AdvanceCache, jobs
      <3>2. PICK pc, to : /\ Goto(o, pc) /\ row' = [row EXCEPT ![o].state = to]
                          /\ \/ work[o].pc = "verified" /\ pc = "intend" /\ to = "verified"
                             \/ work[o].pc = "intend" /\ pc = "publish" /\ to = "publishing"
        BY <2>28 DEF AdvanceCache, At
      <3>3. /\ work' \in [Offers -> WorkType] /\ \A p \in Offers : p # o => work'[p] = work[p]
            /\ work'[o].pc = pc /\ work'[o].native = work[o].native
        <4>1. [work[o] EXCEPT !.pc = pc] \in WorkType
          <5>1. (pc = "intend" \/ pc = "publish") /\ work[o] \in WorkType
            BY <2>2, <2>28, <3>2
          <5> QED BY <5>1 DEF WorkType
        <4> QED BY <2>4, <2>28, <3>2, <4>1
      <3>4. PICK r : r = [row[o] EXCEPT !.state = to]
        OBVIOUS
      <3>5. r \in RowType /\ r.state = to
        <4>1. (to = "verified" \/ to = "publishing") /\ row[o] \in RowType
          BY <2>2, <2>28, <3>2
        <4> QED BY <3>4, <4>1 DEF RowType, Kept
      <3>6. row' \in [Offers -> RowType] /\ row'[o] = r /\ \A p \in Offers : p # o => row'[p] = row[p]
        BY <2>22, <2>28, <3>2, <3>4, <3>5
      <3>7. ObjectAgrees(o, work'[o], row'[o], tree[o], active, shown)
        BY <2>1, <2>28, <3>2, <3>3, <3>5, <3>6 DEF ObjectAgrees, Going, Kept
      <3> QED BY <2>2, <2>10, <2>28, <3>1, <3>2, <3>3, <3>6, <3>7
    <2>29. ASSUME NEW o \in Offers, MetadataFails(o) PROVE FilesIInv'
      <3>1. /\ UNCHANGED <<rcv, admit, clip, state, permit, row, tree, active, collect, shown>>
            /\ work[o].pc \in {"register", "verified", "intend"} /\ Give(o, "failed")
        BY <2>29 DEF MetadataFails, jobs, cache
      <3>2. work[o].native = FALSE
        BY <2>1, <2>2, <2>29, <3>1 DEF ObjectAgrees, WorkType
      <3>3. /\ work' \in [Offers -> WorkType] /\ \A p \in Offers : p # o => work'[p] = work[p]
            /\ work'[o].pc = "discard" /\ work'[o].native = work[o].native
        BY <2>5, <2>29, <3>1, <3>2
      <3>4. ObjectAgrees(o, work'[o], row[o], tree[o], active, shown)
        BY <2>1, <2>29, <3>1, <3>2, <3>3 DEF ObjectAgrees, Going, Kept
      <3> QED BY <2>2, <2>10, <2>29, <3>1, <3>3, <3>4
    <2>30. ASSUME NEW o \in Offers, BeginNative(o) PROVE FilesIInv'
      <3>1. /\ UNCHANGED <<rcv, admit, clip, state, permit, row, tree, active, collect, shown>> /\ work[o].pc = "publish"
        BY <2>30 DEF BeginNative, At, jobs, cache
      <3>2. work[o].native = FALSE
        BY <2>1, <2>2, <2>30, <3>1 DEF ObjectAgrees, WorkType
      <3>3. CASE FileReceiveCurrent(o) /\ work' = [work EXCEPT ![o] = EnterNative(o)]
        <4>1. PICK w : w = EnterNative(o)
          OBVIOUS
        <4>2. w \in WorkType /\ w.pc = "native" /\ w.native = TRUE
          <5>1. work[o] \in WorkType
            BY <2>2, <2>30
          <5>2. w = [work[o] EXCEPT !.pc = "native", !.native = TRUE]
            BY <4>1 DEF EnterNative
          <5> QED BY <5>1, <5>2 DEF WorkType
        <4>3. work' \in [Offers -> WorkType] /\ work'[o] = w /\ \A p \in Offers : p # o => work'[p] = work[p]
          BY <2>3, <2>30, <3>3, <4>1, <4>2
        <4>4. ObjectAgrees(o, work'[o], row[o], tree[o], active, shown)
          BY <2>1, <2>30, <3>1, <4>2, <4>3 DEF ObjectAgrees, Going, Kept
        <4>5. JobAgrees(o, rcv[o], work'[o], state, permit)
          BY <2>1, <2>30, <3>1, <3>3, <4>2, <4>3 DEF JobAgrees, FileReceiveCurrent, FilesCurrent
        <4> QED BY <2>2, <2>9, <2>30, <3>1, <4>3, <4>4, <4>5
      <3>4. CASE Give(o, "conflict")
        <4>1. /\ work' \in [Offers -> WorkType] /\ \A p \in Offers : p # o => work'[p] = work[p]
              /\ work'[o].pc = "discard" /\ work'[o].native = work[o].native
          BY <2>5, <2>30, <3>2, <3>4
        <4>2. ObjectAgrees(o, work'[o], row[o], tree[o], active, shown)
          BY <2>1, <2>30, <3>1, <3>2, <4>1 DEF ObjectAgrees, Going, Kept
        <4> QED BY <2>2, <2>10, <2>30, <3>1, <4>1, <4>2
      <3> QED BY <2>30, <3>3, <3>4 DEF BeginNative
    <2>31. ASSUME NEW o \in Offers, WriteFiles(o) PROVE FilesIInv'
      <3>1. UNCHANGED <<rcv, admit, permit, row, tree, active, collect>> /\ work[o].pc = "native"
        BY <2>31 DEF WriteFiles, At
      <3>2. /\ work[o].native /\ {"dir", "stage", "files"} \subseteq tree[o] /\ o \in active /\ row[o].state \in Kept
            /\ state.committed = o /\ rcv[o].state # "none"
        BY <2>1, <2>31, <3>1 DEF ObjectAgrees, JobAgrees
      <3>3. ASSUME NEW p \in Offers, p # o PROVE work[p].pc # "native"
        BY <2>1, <3>2, <3>3 DEF JobAgrees
      <3>4. Goto(o, "published") \/ Give(o, "uncertain")
        BY <2>31 DEF WriteFiles
      <3>5. /\ work' \in [Offers -> WorkType] /\ \A p \in Offers : p # o => work'[p] = work[p]
            /\ work'[o].pc \in {"published", "protected"} /\ work'[o].native = work[o].native
        <4>1. [work[o] EXCEPT !.pc = "published"] \in WorkType
          <5>1. work[o] \in WorkType
            BY <2>2, <2>31
          <5> QED BY <5>1 DEF WorkType
        <4>2. CASE Goto(o, "published")
          BY <2>4, <2>31, <4>1, <4>2
        <4>3. CASE Give(o, "uncertain")
          BY <2>5, <2>31, <3>2, <4>3
        <4> QED BY <3>4, <4>2, <4>3
      <3>6. clip' \in [gen : Nat, shows : Nat]
        <4>1. clip' = clip \/ clip' = [gen |-> clip.gen + 1, shows |-> o]
          BY <2>31 DEF WriteFiles
        <4> QED BY <2>2, <2>31, <4>1, <1>Numbers
      <3>7. state' \in [revision : Nat, gen : Nat, committed : Nat] /\ state'.committed = state.committed
        <4>1. state' = state \/ state' = [state EXCEPT !.revision = @ + 1, !.gen = clip.gen + 1]
          BY <2>31 DEF WriteFiles
        <4>2. PICK g \in Nat : g = clip.gen + 1
          BY <2>2
        <4>3. PICK s : s = [state EXCEPT !.revision = @ + 1, !.gen = g]
          OBVIOUS
        <4>4. /\ s.revision = state.revision + 1 /\ s.gen = g /\ s.committed = state.committed
              /\ s = [revision |-> s.revision, gen |-> s.gen, committed |-> s.committed]
          BY <2>2, <4>3
        <4>5. s \in [revision : Nat, gen : Nat, committed : Nat]
          BY <2>2, <4>4
        <4> QED BY <2>2, <4>1, <4>2, <4>3, <4>4, <4>5
      <3>8. shown' = shown \/ shown' = shown \cup {o}
        BY <2>31 DEF WriteFiles
      <3>9. FilesTypeOK'
        BY <2>2, <2>31, <3>1, <3>5, <3>6, <3>7, <3>8 DEF FilesTypeOK
      <3>10. AdmissionAgrees'
        BY <2>1, <3>1, <3>7 DEF AdmissionAgrees
      <3>11. CollectionAgrees'
        BY <2>1, <3>1, <3>2, <3>5 DEF CollectionAgrees, Kept
      <3>12. ObjectAgrees(o, work'[o], row[o], tree[o], active, shown')
        BY <2>1, <2>31, <3>2, <3>5, <3>8 DEF ObjectAgrees, Going, Kept
      <3>13. JobAgrees(o, rcv[o], work'[o], state', permit)
        BY <2>1, <2>31, <3>2, <3>5, <3>7 DEF JobAgrees
      <3>14. ASSUME NEW p \in Offers, p # o
             PROVE  /\ ObjectAgrees(p, work'[p], row'[p], tree'[p], active', shown')
                    /\ JobAgrees(p, rcv'[p], work'[p], state', permit')
        <4>1. ObjectAgrees(p, work'[p], row'[p], tree'[p], active', shown')
          BY <2>6, <3>1, <3>5, <3>8, <3>14
        <4>2. JobAgrees(p, rcv[p], work[p], state', permit)
          BY <2>1, <3>3, <3>7, <3>14 DEF JobAgrees
        <4> QED BY <3>1, <3>5, <3>14, <4>1, <4>2
      <3> QED BY <3>1, <3>9, <3>10, <3>11, <3>12, <3>13, <3>14 DEF FilesIInv
    <2>32. ASSUME NEW o \in Offers, SettleCache(o) PROVE FilesIInv'
      <3>1. /\ UNCHANGED <<rcv, admit, clip, state, permit, tree, active, collect, shown>>
            /\ work[o].pc \in {"published", "protected"} /\ Goto(o, "release")
            /\ row' = row \/ row' = [row EXCEPT ![o].state = work[o].pc]
        BY <2>32 DEF SettleCache, jobs
      <3>2. /\ work' \in [Offers -> WorkType] /\ \A p \in Offers : p # o => work'[p] = work[p]
            /\ work'[o].pc = "release" /\ work'[o].native = work[o].native
        <4>1. [work[o] EXCEPT !.pc = "release"] \in WorkType
          <5>1. work[o] \in WorkType
            BY <2>2, <2>32
          <5> QED BY <5>1 DEF WorkType
        <4> QED BY <2>4, <2>32, <3>1, <4>1
      <3>3. /\ row' \in [Offers -> RowType] /\ \A p \in Offers : p # o => row'[p] = row[p]
            /\ row'[o].state \in Kept \cup {"published", "protected"}
        <4>1. row[o].state \in Kept
          BY <2>1, <2>32, <3>1 DEF ObjectAgrees
        <4>2. PICK r : r = [row[o] EXCEPT !.state = work[o].pc]
          OBVIOUS
        <4>3. r \in RowType /\ r.state \in {"published", "protected"}
          BY <2>2, <2>32, <3>1, <4>2 DEF RowType
        <4>4. CASE row' = row
          BY <2>2, <4>1, <4>4
        <4>5. CASE row' = [row EXCEPT ![o].state = work[o].pc]
          BY <2>22, <2>32, <4>2, <4>3, <4>5
        <4> QED BY <3>1, <4>4, <4>5
      <3>4. ObjectAgrees(o, work'[o], row'[o], tree[o], active, shown)
        BY <2>1, <2>32, <3>1, <3>2, <3>3 DEF ObjectAgrees, Going, Kept
      <3> QED BY <2>2, <2>10, <2>32, <3>1, <3>2, <3>3, <3>4
    \* The removal of what was never shown.
    <2>33. ASSUME NEW o \in Offers, DiscardUnpublished(o) PROVE FilesIInv'
      <3>1. /\ UNCHANGED <<rcv, admit, clip, state, permit, active, collect, shown>> /\ work[o].pc = "discard"
        BY <2>33 DEF DiscardUnpublished, At, jobs
      <3>2. PICK pc \in {"release", "mark"} : Goto(o, pc) /\ (pc = "mark" => row[o].state # "none")
        BY <2>33 DEF DiscardUnpublished
      <3>3. /\ work' \in [Offers -> WorkType] /\ \A p \in Offers : p # o => work'[p] = work[p]
            /\ work'[o].pc = pc /\ work'[o].native = work[o].native
        <4>1. [work[o] EXCEPT !.pc = pc] \in WorkType
          <5>1. (pc = "release" \/ pc = "mark") /\ work[o] \in WorkType
            BY <2>2, <2>33, <3>2
          <5> QED BY <5>1 DEF WorkType
        <4> QED BY <2>4, <2>33, <3>2, <4>1
      <3>4. /\ tree' \in [Offers -> SUBSET {"dir", "stage", "files", "foreign"}]
            /\ \A p \in Offers : p # o => tree'[p] = tree[p]
        <4>1. CASE tree' = tree
          BY <2>2, <4>1
        <4>2. CASE tree' = [tree EXCEPT ![o] = IF @ = {"dir"} THEN {} ELSE @]
          BY <2>2, <2>33, <4>2
        <4> QED BY <2>33, <4>1, <4>2 DEF DiscardUnpublished
      <3>5. /\ row' \in [Offers -> RowType] /\ \A p \in Offers : p # o => row'[p] = row[p]
            /\ row'[o].state \in Going => pc = "mark" \/ row[o].state \in Going
        <4>1. CASE row' = row
          BY <2>2, <4>1
        <4>2. CASE row' = [row EXCEPT ![o].state = "abandoned"]
          <5>1. PICK r : r = [row[o] EXCEPT !.state = "abandoned"]
            OBVIOUS
          <5>2. r \in RowType /\ r.state = "abandoned"
            BY <2>2, <2>33, <5>1 DEF RowType
          <5> QED BY <2>22, <2>33, <4>2, <5>1, <5>2 DEF Going
        <4>3. CASE /\ row' = [row EXCEPT ![o] = [state |-> "reclaimable", cleanup |-> Sealed(o)]]
                   /\ Goto(o, "mark")
          <5>1. Sealed(o) \in SUBSET {"stage", "files"}
            BY <2>2, <2>33 DEF Sealed, WorkType
          <5>2. PICK r : r = [state |-> "reclaimable", cleanup |-> Sealed(o)]
            OBVIOUS
          <5>3. r \in RowType
            BY <5>1, <5>2 DEF RowType, Going
          <5>4. work'[o].pc = "mark"
            BY <2>2, <2>33, <4>3 DEF Goto, WorkType
          <5> QED BY <2>22, <2>33, <3>3, <4>3, <5>2, <5>3, <5>4
        <4> QED BY <2>33, <4>1, <4>2, <4>3 DEF DiscardUnpublished
      <3>6. ObjectAgrees(o, work'[o], row'[o], tree'[o], active, shown)
        BY <2>1, <2>33, <3>1, <3>2, <3>3, <3>5 DEF ObjectAgrees, Going, Kept
      <3> QED BY <2>2, <2>10, <2>33, <3>1, <3>2, <3>3, <3>4, <3>5, <3>6
    \* What is left of an object when one node of it is removed.
    <2>34. ASSUME NEW o \in Offers, RemoveNode(o)
           PROVE  /\ tree' \in [Offers -> SUBSET {"dir", "stage", "files", "foreign"}]
                  /\ \A p \in Offers : p # o => tree'[p] = tree[p]
      BY <2>2, <2>34 DEF RemoveNode
    <2>35. ASSUME NEW o \in Offers, MarkDeleting(o)
           PROVE  /\ row' \in [Offers -> RowType] /\ \A p \in Offers : p # o => row'[p] = row[p]
                  /\ row'[o].state = "deleting" /\ row[o].state \in Going
      <3>1. PICK r : r = [row[o] EXCEPT !.state = "deleting"]
        OBVIOUS
      <3>2. r \in RowType /\ r.state = "deleting"
        BY <2>2, <2>35, <3>1 DEF RowType, Going
      <3> QED BY <2>22, <2>35, <3>1, <3>2 DEF MarkDeleting, Going
    <2>36. ASSUME NEW o \in Offers, row' = [row EXCEPT ![o] = NoRow]
           PROVE  /\ row' \in [Offers -> RowType] /\ \A p \in Offers : p # o => row'[p] = row[p]
                  /\ row'[o].state = "none"
      <3>1. NoRow \in RowType /\ NoRow.state = "none"
        BY DEF NoRow, RowType
      <3> QED BY <2>22, <2>36, <3>1
    <2>37. ASSUME NEW o \in Offers, DiscardStep(o) \/ DiscardFails(o) PROVE FilesIInv'
      <3>1. /\ UNCHANGED <<rcv, admit, clip, state, permit, active, collect, shown>> /\ work[o].pc \in {"mark", "remove"}
        BY <2>37 DEF DiscardStep, DiscardFails, At, jobs, cache
      <3>2. /\ work' \in [Offers -> WorkType] /\ \A p \in Offers : p # o => work'[p] = work[p]
            /\ work'[o].pc \in {"remove", "release"} /\ work'[o].native = work[o].native
        <4>1. [work[o] EXCEPT !.pc = "remove"] \in WorkType /\ [work[o] EXCEPT !.pc = "release"] \in WorkType
          <5>1. work[o] \in WorkType
            BY <2>2, <2>37
          <5>2. [work[o] EXCEPT !.pc = "remove"] \in WorkType
            BY <5>1 DEF WorkType
          <5>3. [work[o] EXCEPT !.pc = "release"] \in WorkType
            BY <5>1 DEF WorkType
          <5> QED BY <5>2, <5>3
        <4>2. Goto(o, "remove") \/ Goto(o, "release") \/ (work' = work /\ work[o].pc = "remove")
          BY <2>37 DEF DiscardStep, DiscardFails, At
        <4>3. CASE Goto(o, "remove")
          BY <2>4, <2>37, <4>1, <4>3
        <4>4. CASE Goto(o, "release")
          BY <2>4, <2>37, <4>1, <4>4
        <4>5. CASE work' = work /\ work[o].pc = "remove"
          BY <2>2, <4>5
        <4> QED BY <4>2, <4>3, <4>4, <4>5
      <3>3. /\ tree' \in [Offers -> SUBSET {"dir", "stage", "files", "foreign"}]
            /\ \A p \in Offers : p # o => tree'[p] = tree[p]
        <4>1. tree' = tree \/ RemoveNode(o)
          BY <2>37 DEF DiscardStep, DiscardFails, cache
        <4> QED BY <2>2, <2>34, <2>37, <4>1
      <3>4. row' \in [Offers -> RowType] /\ \A p \in Offers : p # o => row'[p] = row[p]
        <4>1. row' = row \/ MarkDeleting(o) \/ row' = [row EXCEPT ![o] = NoRow]
          BY <2>37 DEF DiscardStep, DiscardFails, cache
        <4> QED BY <2>2, <2>35, <2>36, <2>37, <4>1
      <3>5. ObjectAgrees(o, work'[o], row'[o], tree'[o], active, shown)
        BY <2>1, <2>37, <3>1, <3>2 DEF ObjectAgrees
      <3> QED BY <2>2, <2>10, <2>37, <3>1, <3>2, <3>3, <3>4, <3>5
    <2>38. ASSUME NEW o \in Offers, ReleaseCache(o) PROVE FilesIInv'
      <3>1. /\ UNCHANGED <<admit, clip, state, permit, row, tree, collect, shown>> /\ work[o].pc = "release"
            /\ Goto(o, "ended") /\ active' = active \ {o}
        BY <2>38 DEF ReleaseCache, At
      <3>2. /\ work' \in [Offers -> WorkType] /\ \A p \in Offers : p # o => work'[p] = work[p]
            /\ work'[o].pc = "ended" /\ work'[o].native = work[o].native
        <4>1. [work[o] EXCEPT !.pc = "ended"] \in WorkType
          <5>1. work[o] \in WorkType
            BY <2>2, <2>38
          <5> QED BY <5>1 DEF WorkType
        <4> QED BY <2>4, <2>38, <3>1, <4>1
      <3>3. rcv[o] \in JobType /\ rcv[o].state # "none" /\ JobAgrees(o, rcv[o], work[o], state, permit)
        BY <2>1, <2>2, <2>38, <3>1 DEF JobAgrees
      <3>4. PICK s : s = IF rcv[o].state = "cancelled" THEN rcv[o].state ELSE IF work[o].err = "none" THEN "completed"
                         ELSE IF ~rcv[o].local /\ (~rcv[o].live \/ work[o].err = "conflict") THEN "cancelled" ELSE "failed"
        OBVIOUS
      <3>5. /\ s = "cancelled" \/ s = "completed" \/ s = "failed"
            /\ s = "cancelled" /\ rcv[o].local => rcv[o].state = "cancelled"
        BY <3>4
      <3>6. PICK j : j = [rcv[o] EXCEPT !.live = FALSE, !.state = s]
        OBVIOUS
      <3>7. /\ j \in JobType /\ j.live = FALSE /\ j.state = s /\ j.local = rcv[o].local /\ j.asked = rcv[o].asked
        BY <3>3, <3>5, <3>6 DEF JobType, JobStates
      <3>8. rcv' = [rcv EXCEPT ![o] = j]
        BY <2>2, <2>38, <3>4, <3>6 DEF ReleaseCache, JobType
      <3>9. rcv' \in [Offers -> JobType] /\ rcv'[o] = j /\ \A p \in Offers : p # o => rcv'[p] = rcv[p]
        BY <2>2, <2>38, <3>7, <3>8
      <3>10. ObjectAgrees(o, work'[o], row[o], tree[o], active', shown)
        BY <2>1, <2>38, <3>1, <3>2 DEF ObjectAgrees
      <3>11. JobAgrees(o, j, work'[o], state, permit)
        BY <3>2, <3>3, <3>5, <3>7 DEF JobAgrees
      <3> QED BY <2>2, <2>9, <2>38, <3>1, <3>2, <3>3, <3>9, <3>10, <3>11
    \* The collector works on an object whose receive has ended.
    <2>39. ASSUME NEW o \in Offers, UNCHANGED <<rcv, admit, clip, state, permit, work, active, shown>>,
                  row' \in [Offers -> RowType], tree' \in [Offers -> SUBSET {"dir", "stage", "files", "foreign"}],
                  \A p \in Offers : p # o => row'[p] = row[p] /\ tree'[p] = tree[p],
                  work[o].pc = "ended", o \notin shown,
                  collect'.pc # "none" => collect'.offer = o /\ row'[o].state = "deleting"
           PROVE  FilesIInv'
      <3>1. FilesTypeOK'
        BY <2>2, <2>39 DEF FilesTypeOK
      <3>2. CollectionAgrees'
        BY <2>39 DEF CollectionAgrees
      <3>3. AdmissionAgrees'
        BY <2>1, <2>39 DEF AdmissionAgrees
      <3>4. ObjectAgrees(o, work'[o], row'[o], tree'[o], active', shown')
        BY <2>39 DEF ObjectAgrees
      <3>5. \A p \in Offers : ObjectAgrees(p, work'[p], row'[p], tree'[p], active', shown')
        BY <2>6, <2>39, <3>4
      <3>6. \A p \in Offers : JobAgrees(p, rcv'[p], work'[p], state', permit')
        BY <2>1, <2>39
      <3> QED BY <3>1, <3>2, <3>3, <3>5, <3>6 DEF FilesIInv
    <2>40. ASSUME NEW o \in Offers, CollectBegin(o) PROVE FilesIInv'
      <3>1. /\ UNCHANGED <<rcv, admit, clip, state, permit, work, tree, active, shown>>
            /\ MarkDeleting(o) /\ o \notin active /\ collect' = [pc |-> "remove", offer |-> o]
        BY <2>40 DEF CollectBegin, Collectable, jobs
      <3>2. /\ row' \in [Offers -> RowType] /\ \A p \in Offers : p # o => row'[p] = row[p]
            /\ row'[o].state = "deleting" /\ row[o].state \in Going
        BY <2>35, <2>40, <3>1
      <3>3. work[o].pc = "ended" /\ o \notin shown
        BY <2>1, <2>40, <3>1, <3>2 DEF ObjectAgrees
      <3> QED BY <2>2, <2>39, <2>40, <3>1, <3>2, <3>3
    <2>41. CASE CollectStep
      <3>1. PICK o : o = collect.offer
        OBVIOUS
      <3>2. /\ UNCHANGED <<rcv, admit, clip, state, permit, work, active, shown>> /\ collect.pc = "remove"
        BY <2>41 DEF CollectStep, jobs
      <3>3. o \in Offers /\ row[o].state = "deleting" /\ work[o].pc = "ended" /\ o \notin shown
        <4>1. o \in Offers /\ row[o].state = "deleting" /\ work[o].pc = "ended"
          BY <2>1, <3>1, <3>2 DEF CollectionAgrees
        <4> QED BY <2>1, <4>1 DEF ObjectAgrees, Going
      <3>4. CASE RemoveNode(o) /\ UNCHANGED <<row, collect>>
        BY <2>2, <2>34, <2>39, <3>1, <3>2, <3>3, <3>4
      <3>5. CASE row' = [row EXCEPT ![o] = NoRow] /\ collect' = NoCollection /\ UNCHANGED tree
        BY <2>2, <2>36, <2>39, <3>2, <3>3, <3>5 DEF NoCollection
      <3>6. CASE collect' = NoCollection /\ UNCHANGED <<row, tree>>
        BY <2>2, <2>39, <3>2, <3>3, <3>6 DEF NoCollection
      <3> QED BY <2>41, <3>1, <3>4, <3>5, <3>6 DEF CollectStep
    <2>42. CASE CollectFails
      <3>1. /\ UNCHANGED <<rcv, admit, clip, state, permit, work, row, tree, active, shown>> /\ collect'.pc = "none"
        BY <2>42 DEF CollectFails, NoCollection, jobs
      <3>2. AdmissionAgrees'
        BY <2>1, <3>1 DEF AdmissionAgrees
      <3> QED BY <2>1, <2>2, <2>8, <3>1, <3>2
    \* Other programs and ends of the receiver.
    <2>43. ASSUME NEW o \in Offers, PutForeign(o) PROVE FilesIInv'
      <3>1. UNCHANGED <<rcv, admit, clip, state, permit, work, row, active, collect, shown>> /\ "dir" \in tree[o]
        BY <2>43 DEF PutForeign, jobs
      <3>2. PICK x : x = tree[o] \cup {"foreign"}
        OBVIOUS
      <3>3. x \in SUBSET {"dir", "stage", "files", "foreign"}
        BY <2>2, <2>43, <3>2
      <3>4. /\ tree' \in [Offers -> SUBSET {"dir", "stage", "files", "foreign"}] /\ tree'[o] = x
            /\ \A p \in Offers : p # o => tree'[p] = tree[p]
        BY <2>21, <2>43, <3>2, <3>3 DEF PutForeign
      <3>5. FilesTypeOK'
        BY <2>2, <3>1, <3>4 DEF FilesTypeOK
      <3>6. CollectionAgrees'
        BY <2>1, <3>1 DEF CollectionAgrees
      <3>7. AdmissionAgrees'
        BY <2>1, <3>1 DEF AdmissionAgrees
      <3>8. ObjectAgrees(o, work'[o], row'[o], tree'[o], active', shown')
        BY <2>1, <2>43, <3>1, <3>2, <3>4 DEF ObjectAgrees
      <3>9. \A p \in Offers : ObjectAgrees(p, work'[p], row'[p], tree'[p], active', shown')
        BY <2>6, <3>1, <3>4, <3>8
      <3>10. \A p \in Offers : JobAgrees(p, rcv'[p], work'[p], state', permit')
        BY <2>1, <3>1
      <3> QED BY <3>5, <3>6, <3>7, <3>9, <3>10 DEF FilesIInv
    <2>44. CASE ReceiverRestarts
      <3>1. /\ UNCHANGED <<clip, permit, row, tree, shown>> /\ admit'.pc = "none" /\ collect'.pc = "none"
            /\ rcv' = [o \in Offers |-> NoJob]
            /\ state' = [revision |-> state.revision + 1, gen |-> clip.gen, committed |-> 0]
            /\ work' = [o \in Offers |-> IF work[o].pc = "none" THEN NoWork ELSE [NoWork EXCEPT !.pc = "ended"]]
        BY <2>44 DEF ReceiverRestarts, NoAdmission, NoCollection
      <3>2. NoJob \in JobType /\ NoWork \in WorkType /\ [NoWork EXCEPT !.pc = "ended"] \in WorkType
        BY DEF NoJob, NoWork, JobType, JobStates, WorkType
      <3>3. state' \in [revision : Nat, gen : Nat, committed : Nat]
        BY <2>2, <3>1
      <3>4. rcv' \in [Offers -> JobType] /\ work' \in [Offers -> WorkType]
        BY <3>1, <3>2
      <3>5. FilesTypeOK'
        BY <2>2, <3>1, <3>3, <3>4 DEF FilesTypeOK
      <3>6. ASSUME NEW o \in Offers
            PROVE  /\ ObjectAgrees(o, work'[o], row'[o], tree'[o], active', shown')
                   /\ JobAgrees(o, rcv'[o], work'[o], state', permit')
        <4>1. /\ rcv'[o].live = FALSE /\ rcv'[o].state = "none" /\ rcv'[o].local = FALSE
              /\ work'[o].native = FALSE /\ work'[o].pc \in {"none", "ended"}
              /\ work'[o].pc = "none" => work[o].pc = "none"
          BY <3>1 DEF NoJob, NoWork
        <4>2. ObjectAgrees(o, work[o], row[o], tree[o], active, shown)
          BY <2>1
        <4>3. ObjectAgrees(o, work'[o], row'[o], tree'[o], active', shown')
          BY <3>1, <4>1, <4>2 DEF ObjectAgrees, Going
        <4>4. JobAgrees(o, rcv'[o], work'[o], state', permit')
          BY <4>1 DEF JobAgrees
        <4> QED BY <4>3, <4>4
      <3> QED BY <3>1, <3>5, <3>6 DEF FilesIInv, AdmissionAgrees, CollectionAgrees
    <2>45. CASE UNCHANGED cfVars
      BY <2>11, <2>45 DEF cfVars
    <2>46. ASSUME NEW o \in Offers, WorkStep(o) PROVE FilesIInv'
      BY <2>46, <2>20, <2>23, <2>24, <2>25, <2>26, <2>27, <2>28, <2>30, <2>31, <2>32, <2>33, <2>37, <2>38 DEF WorkStep
    <2>47. CASE JobSteps
      BY <2>47, <2>13, <2>14, <2>15, <2>16, <2>17, <2>18 DEF JobSteps
    <2> QED BY <2>12, <2>13, <2>14, <2>19, <2>29, <2>40, <2>41, <2>42, <2>43, <2>44, <2>45, <2>46, <2>47
               DEF FilesNext, Collector
  \* The paths that the clipboard has taken are of whole objects.
  <1>3. FilesIInv => ExposedFilesStay
    BY DEF FilesIInv, FilesTypeOK, ObjectAgrees, ExposedFilesStay
  \* Only the removals take something away, and only what is registered.
  <1>4. ASSUME FilesIInv, [FilesNext]_cfVars
        PROVE  \A o \in Offers : "foreign" \in tree[o] => "foreign" \in tree'[o]
    <2> SUFFICES ASSUME NEW o \in Offers, "foreign" \in tree[o] PROVE "foreign" \in tree'[o]
      OBVIOUS
    <2>1. /\ FilesTypeOK /\ tree \in [Offers -> SUBSET {"dir", "stage", "files", "foreign"}]
          /\ row[o] \in RowType /\ ObjectAgrees(o, work[o], row[o], tree[o], active, shown)
      BY <1>4, <1>Fields DEF FilesIInv, FilesTypeOK
    <2>2. ASSUME NEW p \in Offers, RemoveNode(p) PROVE tree'[o] = tree[o]
      <3>1. p # o
        BY <2>1, <2>2 DEF RemoveNode, CanRemove, RowType
      <3> QED BY <2>1, <2>2, <3>1 DEF RemoveNode
    <2>3. ASSUME NEW p \in Offers, OpenDestination(p) \/ StageCache(p) PROVE "foreign" \in tree'[o]
      BY <2>1, <2>3 DEF OpenDestination, StageCache, At, ObjectAgrees
    <2>4. ASSUME NEW p \in Offers, ReceiveBody(p) \/ BodyFails(p) \/ PutForeign(p) PROVE "foreign" \in tree'[o]
      BY <2>1, <2>4 DEF ReceiveBody, BodyFails, PutForeign
    <2>5. ASSUME NEW p \in Offers, DiscardUnpublished(p) PROVE "foreign" \in tree'[o]
      BY <2>1, <2>5 DEF DiscardUnpublished
    <2>6. ASSUME NEW p \in Offers, DiscardStep(p) PROVE "foreign" \in tree'[o]
      BY <2>2, <2>6 DEF DiscardStep
    <2>7. CASE CollectStep
      <3>1. collect.offer \in Offers
        BY <1>4, <2>7 DEF CollectStep, FilesIInv, CollectionAgrees
      <3> QED BY <2>2, <2>7, <3>1 DEF CollectStep
    <2>8. CASE SenderSteps \/ JobSteps
      BY <2>8 DEF SenderSteps, JobSteps, ClipboardFilesChanged, ReadyArrives, OfferFiles, OpenFileStream, FileSendEnds,
            ObserveCopy, SweepJobs, ReserveFiles, AddClipboardFileJob, SendReady, BeginOffer, CancelArrives, cache
    <2>9. ASSUME NEW p \in Offers,
                 \/ FileStreamArrives(p) \/ RegisterCache(p) \/ PlanCache(p) \/ ProgressStops(p)
                 \/ AdvanceCache(p, "verified", "verified", "intend") \/ AdvanceCache(p, "intend", "publishing", "publish")
                 \/ BeginNative(p) \/ WriteFiles(p) \/ SettleCache(p) \/ DiscardFails(p) \/ ReleaseCache(p)
                 \/ CopyFiles(p) \/ FileSendFails(p) \/ LoseCancel(p) \/ UserCancels(p) \/ MetadataFails(p)
                 \/ CollectBegin(p)
          PROVE  tree' = tree
      BY <2>9 DEF FileStreamArrives, RegisterCache, PlanCache, ProgressStops, AdvanceCache, BeginNative, WriteFiles,
            SettleCache, DiscardFails, ReleaseCache, CopyFiles, FileSendFails, LoseCancel, UserCancels, MetadataFails,
            CollectBegin, cache
    <2>10. CASE CollectFails \/ UserCopiesHere \/ WithdrawFiles \/ ReceiverRestarts \/ UNCHANGED cfVars
      BY <2>10 DEF CollectFails, UserCopiesHere, WithdrawFiles, ReceiverRestarts, cfVars, cache
    <2>11. ASSUME NEW p \in Offers, WorkStep(p) PROVE "foreign" \in tree'[o]
      BY <2>3, <2>4, <2>5, <2>6, <2>9, <2>11 DEF WorkStep
    <2> QED BY <1>4, <2>4, <2>7, <2>8, <2>9, <2>10, <2>11 DEF FilesNext, Collector
  \* Only a receive that is current takes the clipboard, and no later job exists then.
  <1>5. ASSUME FilesIInv, [FilesNext]_cfVars, NEW o \in Offers, clip'.shows = o, clip'.gen > clip.gen
        PROVE  clip.gen = rcv[o].gen /\ permit /\ \A later \in Offers : later > o => rcv[later].state = "none"
    <2> USE <1>5
    <2>1. clip.gen \in Nat /\ state.committed \in Nat /\ o # 0 /\ \A p \in Offers : p \in Nat
      BY <1>Fields, <1>Numbers DEF FilesIInv
    <2>2. clip' # clip
      BY <2>1
    <2>3. ASSUME NEW p \in Offers, WriteFiles(p)
          PROVE  clip.gen = rcv[o].gen /\ permit /\ \A later \in Offers : later > o => rcv[later].state = "none"
      <3>1. clip.gen = state.gen /\ p = o /\ work[o].pc = "native"
        <4>1. Writable /\ clip' = [gen |-> clip.gen + 1, shows |-> p]
          BY <2>2, <2>3 DEF WriteFiles
        <4> QED BY <2>3, <4>1 DEF WriteFiles, Writable, At
      <3>2. permit /\ rcv[o].gen = state.gen /\ state.committed = o
        BY <3>1 DEF FilesIInv, JobAgrees
      <3>3. ASSUME NEW later \in Offers, later > o PROVE rcv[later].state = "none"
        <4>1. rcv[later].state # "none" => later <= state.committed
          BY DEF FilesIInv, JobAgrees
        <4> QED BY <2>1, <3>2, <3>3, <4>1
      <3> QED BY <3>1, <3>2, <3>3
    <2>4. CASE UserCopiesHere
      BY <2>1, <2>4 DEF UserCopiesHere
    <2>5. CASE SenderSteps \/ JobSteps
      BY <2>2, <2>5 DEF SenderSteps, JobSteps, ClipboardFilesChanged, ReadyArrives, OfferFiles, OpenFileStream,
            FileSendEnds, ObserveCopy, SweepJobs, ReserveFiles, AddClipboardFileJob, SendReady, BeginOffer,
            CancelArrives, jobs
    <2>6. ASSUME NEW p \in Offers,
                 \/ FileStreamArrives(p) \/ OpenDestination(p) \/ RegisterCache(p) \/ PlanCache(p) \/ StageCache(p)
                 \/ ReceiveBody(p) \/ BodyFails(p) \/ ProgressStops(p) \/ AdvanceCache(p, "verified", "verified", "intend")
                 \/ AdvanceCache(p, "intend", "publishing", "publish") \/ BeginNative(p) \/ SettleCache(p)
                 \/ DiscardUnpublished(p) \/ DiscardStep(p) \/ DiscardFails(p) \/ ReleaseCache(p)
                 \/ CopyFiles(p) \/ FileSendFails(p) \/ LoseCancel(p) \/ UserCancels(p) \/ MetadataFails(p)
                 \/ CollectBegin(p) \/ PutForeign(p)
          PROVE  clip' = clip
      BY <2>6 DEF FileStreamArrives, OpenDestination, RegisterCache, PlanCache, StageCache, ReceiveBody, BodyFails,
            ProgressStops, AdvanceCache, BeginNative, SettleCache, DiscardUnpublished, DiscardStep, DiscardFails,
            ReleaseCache, CopyFiles, FileSendFails, LoseCancel, UserCancels, MetadataFails, CollectBegin, PutForeign, jobs
    <2>7. CASE CollectStep \/ CollectFails \/ WithdrawFiles \/ ReceiverRestarts \/ UNCHANGED cfVars
      BY <2>2, <2>7 DEF CollectStep, CollectFails, WithdrawFiles, ReceiverRestarts, cfVars, jobs
    <2>8. ASSUME NEW p \in Offers, WorkStep(p)
          PROVE  clip.gen = rcv[o].gen /\ permit /\ \A later \in Offers : later > o => rcv[later].state = "none"
      BY <2>2, <2>3, <2>6, <2>8 DEF WorkStep
    <2> QED BY <2>2, <2>4, <2>5, <2>6, <2>7, <2>8 DEF FilesNext, Collector
  \* A job keeps the mark of its refusal unless it is a new one.
  <1>6. ASSUME FilesIInv, FilesIInv', [FilesNext]_cfVars, NEW o \in Offers, rcv[o].local, rcv'[o].state = "cancelled"
        PROVE  rcv'[o].asked
    <2> USE <1>6
    <2>1. rcv \in [Offers -> JobType] /\ rcv[o] \in JobType
      BY <1>Fields DEF FilesIInv, FilesTypeOK
    <2>2. SUFFICES rcv'[o].local \/ rcv'[o].asked
      BY DEF FilesIInv, JobAgrees
    <2>3. ASSUME NEW S, rcv' = CancelJobs(S) PROVE rcv'[o].local \/ rcv'[o].asked
      BY <2>1, <2>3 DEF CancelJobs, JobType
    <2>4. CASE AddClipboardFileJob
      <3>1. PICK j : j = [NoJob EXCEPT !.state = "preparing", !.live = TRUE, !.revision = admit.revision, !.gen = admit.gen]
        OBVIOUS
      <3>2. j.state = "preparing"
        BY <3>1 DEF NoJob
      <3>3. rcv' = [rcv EXCEPT ![admit.offer] = j]
        BY <2>4, <3>1 DEF AddClipboardFileJob
      <3> QED BY <2>1, <3>2, <3>3
    <2>5. ASSUME NEW p \in Offers, CancelArrives(p) PROVE rcv'[o].local \/ rcv'[o].asked
      BY <2>1, <2>5 DEF CancelArrives, MayCancel, JobType
    <2>6. ASSUME NEW p \in Offers, FileStreamArrives(p) PROVE rcv'[o].local
      BY <2>1, <2>6 DEF FileStreamArrives, JobType
    <2>7. ASSUME NEW p \in Offers, PlanCache(p) PROVE rcv'[o].local
      BY <2>1, <2>7 DEF PlanCache, JobType
    <2>8. ASSUME NEW p \in Offers, ProgressStops(p) PROVE rcv'[o].local
      BY <2>1, <2>8 DEF ProgressStops, JobType
    <2>9. ASSUME NEW p \in Offers, ReleaseCache(p) PROVE rcv'[o].local
      BY <2>1, <2>9 DEF ReleaseCache, JobType
    <2>10. CASE ReceiverRestarts
      BY <2>10 DEF ReceiverRestarts, NoJob
    <2>11. CASE ObserveCopy \/ ReserveFiles \/ SenderSteps \/ \E p \in Offers : BeginOffer(p)
      BY <2>11 DEF ObserveCopy, ReserveFiles, BeginOffer, SenderSteps, ClipboardFilesChanged, ReadyArrives, OfferFiles,
            OpenFileStream, FileSendEnds, jobs
    <2>12. CASE SweepJobs \/ SendReady \/ \E p \in Offers : UserCancels(p)
      BY <2>3, <2>12 DEF SweepJobs, SendReady, LateSweep, UserCancels
    <2>13. CASE JobSteps
      BY <2>4, <2>5, <2>11, <2>12, <2>13 DEF JobSteps
    <2>14. ASSUME NEW p \in Offers,
                  \/ OpenDestination(p) \/ RegisterCache(p) \/ StageCache(p) \/ ReceiveBody(p) \/ BodyFails(p)
                  \/ AdvanceCache(p, "verified", "verified", "intend") \/ AdvanceCache(p, "intend", "publishing", "publish")
                  \/ BeginNative(p) \/ WriteFiles(p) \/ SettleCache(p) \/ DiscardUnpublished(p) \/ DiscardStep(p)
                  \/ DiscardFails(p) \/ CopyFiles(p) \/ FileSendFails(p) \/ LoseCancel(p) \/ MetadataFails(p)
                  \/ CollectBegin(p) \/ PutForeign(p)
           PROVE  rcv' = rcv
      BY <2>14 DEF OpenDestination, RegisterCache, StageCache, ReceiveBody, BodyFails, AdvanceCache, BeginNative,
            WriteFiles, SettleCache, DiscardUnpublished, DiscardStep, DiscardFails, CopyFiles, FileSendFails, LoseCancel,
            MetadataFails, CollectBegin, PutForeign, jobs
    <2>15. CASE CollectStep \/ CollectFails \/ UserCopiesHere \/ WithdrawFiles \/ UNCHANGED cfVars
      BY <2>15 DEF CollectStep, CollectFails, UserCopiesHere, WithdrawFiles, cfVars, jobs
    <2>16. ASSUME NEW p \in Offers, WorkStep(p) PROVE rcv'[o].local \/ rcv'[o].asked
      BY <2>6, <2>7, <2>8, <2>9, <2>14, <2>16 DEF WorkStep
    <2> QED BY <2>10, <2>11, <2>12, <2>13, <2>14, <2>15, <2>16 DEF FilesNext, Collector
  <1>7. FilesIInv /\ FilesIInv' /\ [FilesNext]_cfVars =>
          /\ \A o \in Offers : "foreign" \in tree[o] => "foreign" \in tree'[o]
          /\ \A o \in Offers : clip'.shows = o /\ clip'.gen > clip.gen =>
                clip.gen = rcv[o].gen /\ permit /\ \A later \in Offers : later > o => rcv[later].state = "none"
          /\ \A o \in Offers : rcv[o].local /\ rcv'[o].state = "cancelled" => rcv'[o].asked
    BY <1>4, <1>5, <1>6
  <1> QED BY <1>1, <1>2, <1>3, <1>7, PTL DEF FilesSpec, CacheSteps, ForeignStays, LateFilesYield, ReasonStays
=============================================================================
